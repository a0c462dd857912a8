----------------------------- MODULE RTXProofs ------------------------------
(***************************************************************************)
(* Proofs about RTX, the closed system, for any number of envelopes, typed *)
(* lines, displayed seconds and handlers on the stack.                     *)
(*                                                                         *)
(* The CCI gives envelopes back that are on their way to the CRT, so that  *)
(* an envelope comes to be on two queues and little of what KernelProofs   *)
(* says about programs that keep to the rules holds here.  Four inductive  *)
(* invariants replace it:                                                  *)
(*   RTXInv      KernelInv, which no step needs the rules for, and what    *)
(*               the handlers keep on their stack;                         *)
(*   StarveInv   which processes get the processor;                        *)
(*   BudgetInv   where each envelope is, the doubly linked one included,   *)
(*               until processes A and B come into play or a line is typed *)
(*               ahead;                                                    *)
(*   StopInv     in which ways the RTX comes to a stop.                    *)
(***************************************************************************)
EXTENDS RTX, KernelProofs

(* The handlers on the stack: no i-process has two, kbd_iproc has a line   *)
(* until it has transferred it, and only timer_iproc displays seconds,     *)
(* with an envelope it has obtained.                                       *)
Stack(fr, h, text, seconds) ==
    /\ fr \in Seq(Frame) /\ h \in Seq(Call) /\ Len(h) = Len(fr)
    /\ seconds \in 0 .. MaxShown
    /\ \A j, k \in 1 .. Len(fr) : fr[j].pid = fr[k].pid => j = k
    /\ \A k \in 1 .. Len(fr) : h[k] = "transfer" /\ fr[k].pid = 0 => text # NULL
    /\ \A k \in 1 .. Len(fr) :
          h[k] \in {"clock_out", "display"} => fr[k].pid = 2 /\ seconds < MaxShown
    /\ \A k \in 1 .. Len(fr) : h[k] = "display" => fr[k].env # NULL

Programs ==
    /\ pc \in [Client -> Point]
    /\ env \in [Client -> Env \cup {NULL}]
    /\ first \in Env \cup {NULL}
    /\ content \in [Env -> Content]
    /\ line \in Commands \cup {NULL}
    /\ wallClockOut \in BOOLEAN
    /\ posted \in [{"s", "print"} -> Nat]
    /\ typed \in 0 .. MaxLines
    /\ ahead \in BOOLEAN

RTXInv == KernelInv /\ Programs /\ Stack(frames, hpc, line, shown)

LEMMA RTXInvTypes == RTXInv => RTXTypeOK
BY DEF RTXInv, KernelInv, Programs, Stack, RTXTypeOK

(* The processes of the table.                                             *)
LEMMA Processes ==
    /\ A \in Client /\ B \in Client /\ CCI \in Client /\ C \in NullProcs
    /\ Client \subseteq User /\ NullProcs \subseteq User /\ User \subseteq PID
    /\ A # CCI /\ B # CCI /\ C # CCI /\ A # C /\ B # C
    /\ 0 \in Iproc /\ 1 \in Iproc /\ 2 \in Iproc /\ Iproc \subseteq PID
    /\ 0 \in PID /\ 1 \in PID /\ A \in PID /\ B \in PID /\ C \in PID
    /\ MaxShown \in Nat /\ MaxLines \in Nat /\ NULL \notin Commands
<1>1. /\ {A, B, C} \subseteq User \ {BootPid} /\ Client = {A, B, CCI} /\ 0 .. 2 \subseteq Iproc
      /\ MaxShown \in Nat /\ MaxLines \in Nat
    BY RTXAssumption
<1>2. A = 3 /\ B = 4 /\ C = 5 /\ CCI = BootPid
    BY DEF A, B, C, CCI
<1>3. Client \subseteq User /\ NullProcs \subseteq User
    BY TableAssumption DEF Client
<1>4. C \in NullProcs
    BY <1>1, <1>2 DEF Client
<1>5. 0 \in Iproc /\ 1 \in Iproc /\ 2 \in Iproc
    BY <1>1
<1>6. 0 \in PID /\ 1 \in PID /\ A \in PID /\ B \in PID /\ C \in PID
    BY <1>1, <1>5, Domains
<1>7. A # CCI /\ B # CCI /\ C # CCI /\ A # C /\ B # C
    BY <1>1, <1>2
<1> QED
    BY <1>1, <1>3, <1>4, <1>5, <1>6, <1>7, Domains, RTXAssumption

LEMMA InitRTXInv == RTXInit => RTXInv
<1> SUFFICES ASSUME RTXInit
             PROVE  RTXInv
    OBVIOUS
<1>1. KernelInv
    BY InitKernelInv DEF RTXInit
<1>2. Programs
    <2>1. pc \in [Client -> Point]
        <3>1. \A p \in Client : (IF p = CCI THEN "env" ELSE "receive") \in Point
            BY DEF Point
        <3> QED
            BY <3>1 DEF RTXInit
    <2>2. content \in [Env -> Content]
        BY DEF RTXInit, Content
    <2>3. posted \in [{"s", "print"} -> Nat] /\ typed \in 0 .. MaxLines
        BY Processes DEF RTXInit
    <2> QED
        BY <2>1, <2>2, <2>3 DEF RTXInit, Programs
<1>3. frames = <<>> /\ hpc = <<>> /\ shown = 0 /\ MaxShown \in Nat
    BY Processes DEF RTXInit, Init
<1>4. Stack(frames, hpc, line, shown)
    BY <1>3 DEF Stack
<1> QED
    BY <1>1, <1>2, <1>4 DEF RTXInv

-----------------------------------------------------------------------------
(* What handlers do to the stack.                                          *)
LEMMA Push ==
    ASSUME NEW fr, NEW h, NEW text, NEW seconds, Stack(fr, h, text, seconds),
           NEW f \in Frame, \A k \in 1 .. Len(fr) : fr[k].pid # f.pid,
           NEW c \in Call, c # "display",
           c = "transfer" /\ f.pid = 0 => text # NULL,
           c = "clock_out" => f.pid = 2 /\ seconds < MaxShown
    PROVE  Stack(Append(fr, f), Append(h, c), text, seconds)
<1> DEFINE fr1 == Append(fr, f)
           h1  == Append(h, c)
<1>1. fr \in Seq(Frame) /\ h \in Seq(Call) /\ Len(h) = Len(fr) /\ Len(fr) \in Nat
    BY DEF Stack
<1>2. /\ fr1 \in Seq(Frame) /\ h1 \in Seq(Call)
      /\ Len(fr1) = Len(fr) + 1 /\ Len(h1) = Len(fr) + 1
      /\ fr1[Len(fr) + 1] = f /\ h1[Len(fr) + 1] = c
      /\ \A k \in 1 .. Len(fr) : fr1[k] = fr[k] /\ h1[k] = h[k]
    BY <1>1, AppendProperties
<1> HIDE DEF fr1, h1
<1>3. \A k \in 1 .. Len(fr1) : k \in 1 .. Len(fr) \/ k = Len(fr) + 1
    BY <1>1, <1>2
<1> QED
    BY <1>1, <1>2, <1>3 DEF Stack, fr1, h1

LEMMA WithoutLast ==
    ASSUME NEW S, NEW s \in Seq(S), NEW n \in Nat \ {0}, Len(s) = n
    PROVE  /\ SubSeq(s, 1, n - 1) \in Seq(S) /\ Len(SubSeq(s, 1, n - 1)) = n - 1
           /\ \A k \in 1 .. n - 1 : SubSeq(s, 1, n - 1)[k] = s[k]
<1>1. \A k \in 1 .. n - 1 : s[k] \in S
    BY ElementOfSeq
<1> QED
    BY <1>1, SubSeqProperties

LEMMA Pop ==
    ASSUME NEW fr, fr # <<>>, NEW h, NEW text, NEW seconds, Stack(fr, h, text, seconds),
           NEW text1, text1 # text => fr[Len(fr)].pid = 0
    PROVE  Stack(SubSeq(fr, 1, Len(fr) - 1), SubSeq(h, 1, Len(h) - 1), text1, seconds)
<1> DEFINE fr1 == SubSeq(fr, 1, Len(fr) - 1)
           h1  == SubSeq(h, 1, Len(h) - 1)
           n   == Len(fr)
<1>1. fr \in Seq(Frame) /\ h \in Seq(Call) /\ Len(h) = n /\ n \in Nat \ {0}
    BY EmptySeq DEF Stack
<1>2. /\ fr1 \in Seq(Frame) /\ h1 \in Seq(Call)
      /\ Len(fr1) = n - 1 /\ Len(h1) = n - 1
      /\ \A k \in 1 .. n - 1 : fr1[k] = fr[k] /\ h1[k] = h[k]
    BY <1>1, WithoutLast
<1>3. \A k \in 1 .. n - 1 : k \in 1 .. n /\ k # n
    BY <1>1
<1>4. n \in 1 .. n
    BY <1>1
<1>5. \A j, k \in 1 .. n : fr[j].pid = fr[k].pid => j = k
    BY DEF Stack
<1> HIDE DEF fr1, h1, n
<1>6. \A j, k \in 1 .. n - 1 : fr1[j].pid = fr1[k].pid => j = k
    BY <1>2, <1>3, <1>5
<1>7. ASSUME NEW k \in 1 .. n - 1, h1[k] = "transfer", fr1[k].pid = 0
      PROVE  text1 # NULL
    <2>1. k \in 1 .. n /\ k # n /\ h[k] = "transfer" /\ fr[k].pid = 0
        BY <1>2, <1>3, <1>7
    <2>2. fr[n].pid # 0
        BY <1>4, <1>5, <2>1
    <2> QED
        BY <2>1, <2>2 DEF Stack, n
<1>8. \A k \in 1 .. n - 1 :
          h1[k] \in {"clock_out", "display"} => fr1[k].pid = 2 /\ seconds < MaxShown
    BY <1>2, <1>3 DEF Stack, n
<1>9. \A k \in 1 .. n - 1 : h1[k] = "display" => fr1[k].env # NULL
    BY <1>2, <1>3 DEF Stack, n
<1> QED
    BY <1>2, <1>6, <1>7, <1>8, <1>9 DEF Stack, fr1, h1, n

(* The handler on top goes on.                                             *)
LEMMA GoOn ==
    ASSUME NEW fr, fr # <<>>, NEW h, NEW text, NEW seconds, Stack(fr, h, text, seconds),
           NEW fr1, \/ fr1 = fr
                    \/ \E x \in Env \cup {NULL} : fr1 = [fr EXCEPT ![Len(fr)].env = x],
           NEW c \in Call, c # "transfer", c = "display" => fr1[Len(fr)].env # NULL,
           NEW text1, text1 # text => fr[Len(fr)].pid = 0,
           NEW seconds1,
           \/ seconds1 = seconds /\ (c = "display" => fr[Len(fr)].pid = 2 /\ seconds < MaxShown)
           \/ seconds1 = seconds + 1 /\ c # "display" /\ fr[Len(fr)].pid = 2 /\ seconds < MaxShown,
           c # "clock_out"
    PROVE  Stack(fr1, [h EXCEPT ![Len(h)] = c], text1, seconds1)
<1> DEFINE h1 == [h EXCEPT ![Len(h)] = c]
           n  == Len(fr)
<1>1. fr \in Seq(Frame) /\ h \in Seq(Call) /\ Len(h) = n /\ n \in Nat \ {0}
    BY EmptySeq DEF Stack
<1>2. n \in 1 .. n
    BY <1>1
<1>3. /\ h1 \in Seq(Call) /\ Len(h1) = n /\ h1[n] = c
      /\ \A k \in 1 .. n : k # n => h1[k] = h[k]
    BY <1>1, <1>2, ExceptSeq
<1>4. /\ fr1 \in Seq(Frame) /\ Len(fr1) = n
      /\ \A k \in 1 .. n : fr1[k].pid = fr[k].pid /\ (k # n => fr1[k].env = fr[k].env)
    <2>1. CASE fr1 = fr
        BY <1>1, <2>1
    <2>2. ASSUME NEW x \in Env \cup {NULL}, fr1 = [fr EXCEPT ![n].env = x]
          PROVE  /\ fr1 \in Seq(Frame) /\ Len(fr1) = n
                 /\ \A k \in 1 .. n : fr1[k].pid = fr[k].pid /\ (k # n => fr1[k].env = fr[k].env)
        <3> DEFINE f == [fr[n] EXCEPT !.env = x]
        <3>1. fr[n] \in Frame
            BY <1>1, <1>2, ElementOfSeq
        <3>2. f \in Frame /\ f.pid = fr[n].pid
            BY <3>1 DEF Frame
        <3>3. fr1 = [fr EXCEPT ![n] = f]
            BY <2>2
        <3> HIDE DEF f
        <3> QED
            BY <1>1, <1>2, <3>2, <3>3, ExceptSeq
    <2> QED
        BY <2>1, <2>2
<1> HIDE DEF h1, n
<1>5. \A j, k \in 1 .. n : fr1[j].pid = fr1[k].pid => j = k
    BY <1>4 DEF Stack, n
<1>6. \A k \in 1 .. n : h1[k] = "transfer" /\ fr1[k].pid = 0 => text1 # NULL
    BY <1>2, <1>3, <1>4 DEF Stack, n
<1>7. seconds1 \in 0 .. MaxShown
    BY Processes DEF Stack
<1>8. \A k \in 1 .. n :
          h1[k] \in {"clock_out", "display"} => fr1[k].pid = 2 /\ seconds1 < MaxShown
    BY <1>2, <1>3, <1>4, Processes DEF Stack, n
<1>9. \A k \in 1 .. n : h1[k] = "display" => fr1[k].env # NULL
    BY <1>2, <1>3, <1>4 DEF Stack, n
<1> QED
    BY <1>1, <1>3, <1>4, <1>5, <1>6, <1>7, <1>8, <1>9 DEF Stack, h1, n

-----------------------------------------------------------------------------
(* The envelope given back need not be held, and may be none at all.       *)
LEMMA ReleaseGood ==
    ASSUME KernelInv, NEW e \in Env \cup {NULL}, k_release_msg_env(e),
           held' \in [User -> SUBSET Env],
           UNCHANGED <<curr_process, priority, sender_id, at, frames, lost, fault>>
    PROVE  KernelInv'
<1> DEFINE temp == pcbs.head[blocked_on_envelope]
<1>1. /\ TypeOK /\ Acyclic(envs.p) /\ Acyclic(pcbs.p) /\ BlockedHasNoMail
      /\ envs' = env_ENQ(envs, envelope_q, e)
    BY DEF KernelInv, LinksAcyclic, k_release_msg_env
<1>2. /\ envs' \in Store(Env, EnvQueue) /\ Acyclic(envs'.p)
      /\ \A k \in User : envs'.head[k] = envs.head[k]
    <2>1. CASE e = NULL
        BY <1>1, <2>1 DEF env_ENQ, PCB_ENQ, TypeOK
    <2>2. CASE e \in Env
        BY <1>1, <2>2, Domains, ENQType, ENQAcyclic, ENQHeads DEF TypeOK
    <2> QED
        BY <2>1, <2>2
<1>3. /\ state' \in [User -> States]
      /\ pcbs' \in Store(User, PcbQueue) /\ Acyclic(pcbs'.p)
      /\ \A k \in User : state'[k] = "BLK_ON_RCV" => state[k] = "BLK_ON_RCV"
    <2>1. CASE temp = NULL
        BY <1>1, <2>1 DEF k_release_msg_env, TypeOK, States
    <2>2. CASE temp # NULL
        <3> DEFINE q == PCB_DEQ(pcbs, blocked_on_envelope)
        <3>1. /\ state' = [state EXCEPT ![temp] = "READY"]
              /\ pcbs' = PCB_ENQ(q, priority[temp], temp)
            BY <2>2 DEF k_release_msg_env
        <3>2. temp \in User
            BY <1>1, <2>2, Domains DEF TypeOK, Store
        <3>3. q \in Store(User, PcbQueue) /\ Acyclic(q.p)
            BY <1>1, Domains, DEQType, DEQAcyclic DEF TypeOK
        <3> HIDE DEF q
        <3>4. pcbs' \in Store(User, PcbQueue) /\ Acyclic(pcbs'.p)
            BY <3>1, <3>2, <3>3, Domains, ENQType, ENQAcyclic
        <3> QED
            BY <1>1, <3>1, <3>2, <3>4 DEF TypeOK, States
    <2> QED
        BY <2>1, <2>2
<1>4. TypeOK'
    BY <1>1, <1>2, <1>3 DEF TypeOK, States
<1>5. Taking'
    BY <1>2, TakingRest DEF KernelInv
<1> QED
    BY <1>1, <1>2, <1>3, <1>4, <1>5 DEF KernelInv, LinksAcyclic, BlockedHasNoMail

(* An envelope taken off the head of a queue, whoever takes it.            *)
LEMMA DequeueGood ==
    ASSUME KernelInv, NEW q \in EnvQueue, envs' = env_DEQ(envs, q),
           \A p \in User : p = q => at[p] # "taking",
           frames' \in Seq(Frame),
           fault' \in Faults,
           UNCHANGED <<curr_process, state, priority, pcbs, sender_id, held, at, lost>>
    PROVE  KernelInv' /\ envs.head[q] \in Env \cup {NULL}
<1>1. /\ TypeOK /\ Acyclic(envs.p) /\ Acyclic(pcbs.p) /\ BlockedHasNoMail
      /\ envs \in Store(Env, EnvQueue)
    BY DEF KernelInv, LinksAcyclic, TypeOK
<1>2. envs' \in Store(Env, EnvQueue) /\ Acyclic(envs'.p) /\ envs.head[q] \in Env \cup {NULL}
    BY <1>1, Domains, DEQType, DEQAcyclic DEF Store
<1>3. ASSUME NEW k \in User, envs.head[k] = NULL
      PROVE  envs'.head[k] = NULL
    <2>1. k \in EnvQueue /\ NULL \notin Env
        BY Domains
    <2> QED
        BY <1>1, <1>3, <2>1, DEQHeads
<1>4. TypeOK'
    BY <1>1, <1>2 DEF TypeOK, Faults
<1>5. ASSUME NEW k \in User, k # q PROVE envs'.head[k] = envs.head[k]
    <2>1. k \in EnvQueue
        BY Domains
    <2> QED
        BY <1>1, <1>5, <2>1, Domains, DEQHeads
<1>6. Taking'
    BY <1>5, TakingRest DEF KernelInv
<1> QED
    BY <1>1, <1>2, <1>3, <1>4, <1>6 DEF KernelInv, LinksAcyclic, BlockedHasNoMail

-----------------------------------------------------------------------------
(* Steps of programs leave the handlers alone.                             *)
LEMMA ProgramGood ==
    ASSUME RTXInv, KernelInv', Programs', UNCHANGED <<frames, hpc, line, shown>>
    PROVE  RTXInv'
BY DEF RTXInv

LEMMA ObtainsGood ==
    ASSUME RTXInv, NEW p \in Client, NEW q \in EnvQueue, NEW next \in Point,
           Obtains(p, q, next)
    PROVE  env' \in [Client -> Env \cup {NULL}] /\ pc' \in [Client -> Point]
<1>1. envs.head[q] \in Env \cup {NULL}
    BY DEF RTXInv, KernelInv, TypeOK, Store
<1> QED
    BY <1>1 DEF Obtains, Goto, RTXInv, Programs

LEMMA RequestsGood ==
    ASSUME RTXInv, NEW p \in Client, NEW here, NEW next \in Point, Requests(p, here, next)
    PROVE  RTXInv'
<1>1. KernelInv'
    BY RequestEnvGood, Processes DEF Requests, RTXInv
<1>2. Programs'
    BY ObtainsGood, Domains DEF Requests, RTXInv, Programs
<1>3. UNCHANGED <<frames, hpc, line, shown>>
    BY DEF Requests, RequestEnv
<1> QED
    BY <1>1, <1>2, <1>3, ProgramGood

LEMMA SendsGood ==
    ASSUME RTXInv, NEW p \in Client, NEW here, NEW dest_id \in PID, NEW next \in Point,
           Sends(p, here, dest_id, next)
    PROVE  RTXInv'
<1>1. env[p] \in Env
    BY Processes DEF Sends, SendMessage, RTXInv, KernelInv, TypeOK
<1>2. KernelInv'
    BY <1>1, SendMessageGood, Processes DEF Sends, RTXInv
<1>3. Programs'
    BY DEF Sends, Goto, RTXInv, Programs
<1>4. UNCHANGED <<frames, hpc, line, shown>>
    BY DEF Sends, SendMessage
<1> QED
    BY <1>2, <1>3, <1>4, ProgramGood

LEMMA ReceivesGood ==
    ASSUME RTXInv, NEW p \in Client, NEW next \in Point, Receives(p, next)
    PROVE  RTXInv'
<1>1. KernelInv'
    BY ReceiveMessageGood, ResumeReceiveGood, StoreHeadGood, StoreTailGood, Processes
    DEF Receives, RTXInv
<1>2. p \in EnvQueue /\ envs.head[p] \in Env \cup {NULL}
    BY Processes, Domains DEF RTXInv, KernelInv, TypeOK, Store
<1>3. env' \in [Client -> Env \cup {NULL}] /\ pc' \in [Client -> Point]
    <2>1. CASE Obtains(p, p, next)
        BY <1>2, <2>1, ObtainsGood
    <2>2. CASE env' = [env EXCEPT ![p] = envs.head[p]] /\ UNCHANGED pc
        BY <1>2, <2>2 DEF RTXInv, Programs
    <2>3. CASE Goto(p, next) /\ UNCHANGED env
        BY <2>3 DEF Goto, RTXInv, Programs
    <2> QED
        BY <2>1, <2>2, <2>3 DEF Receives
<1>4. Programs'
    BY <1>3 DEF Receives, RTXInv, Programs
<1>5. UNCHANGED <<frames, hpc, line, shown>>
    BY DEF Receives, ReceiveMessage, ResumeReceive, StoreHead, StoreTail
<1> QED
    BY <1>1, <1>4, <1>5, ProgramGood

LEMMA YieldsGood ==
    ASSUME RTXInv, NEW p \in Client, NEW next \in Point, Yields(p, next)
    PROVE  RTXInv'
<1>1. KernelInv'
    BY ReleaseProcessorGood, Processes DEF Yields, RTXInv
<1>2. Programs'
    BY DEF Yields, Goto, RTXInv, Programs
<1>3. UNCHANGED <<frames, hpc, line, shown>>
    BY DEF Yields, ReleaseProcessor
<1> QED
    BY <1>1, <1>2, <1>3, ProgramGood

LEMMA CCIFirstGood ==
    ASSUME RTXInv, CCIFirst
    PROVE  RTXInv'
<1>1. KernelInv'
    BY RequestEnvGood, Processes DEF CCIFirst, RTXInv
<1>2. envs.head[envelope_q] \in Env \cup {NULL}
    BY Domains DEF RTXInv, KernelInv, TypeOK, Store
<1>3. first' \in Env \cup {NULL} /\ pc' \in [Client -> Point]
    BY <1>2 DEF CCIFirst, Goto, RTXInv, Programs, Point
<1>4. Programs'
    BY <1>3 DEF CCIFirst, RTXInv, Programs
<1>5. UNCHANGED <<frames, hpc, line, shown>>
    BY DEF CCIFirst, RequestEnv
<1> QED
    BY <1>1, <1>4, <1>5, ProgramGood

LEMMA CCIClockGood ==
    ASSUME RTXInv, CCIClock
    PROVE  RTXInv'
<1>1. KernelInv' /\ UNCHANGED <<frames, hpc, line, shown>>
    BY DEF CCIClock, RTXInv, KernelInv, vars, TypeOK, LinksAcyclic, BlockedHasNoMail, Taking
<1>2. wallClockOut' \in BOOLEAN
    BY DEF CCIClock, RTXInv, Programs
<1>3. Programs'
    BY <1>2 DEF CCIClock, Goto, RTXInv, Programs, Point
<1> QED
    BY <1>1, <1>3, ProgramGood

LEMMA CCIChangeGood ==
    ASSUME RTXInv, CCIChange
    PROVE  RTXInv'
<1>1. KernelInv' /\ frames' = frames
    <2>1. PICK c \in ChangesAllowed : IF priority[c[2]] = c[1] THEN UNCHANGED vars
                                      ELSE ChangePriority(CCI, c[1], c[2])
        BY DEF CCIChange
    <2>2. c[1] \in Level /\ c[2] \in User
        BY TableAssumption
    <2>3. CASE UNCHANGED vars
        BY <2>3 DEF RTXInv, KernelInv, vars, TypeOK, LinksAcyclic, BlockedHasNoMail, Taking
    <2>4. CASE ChangePriority(CCI, c[1], c[2])
        BY <2>2, <2>4, ChangePriorityGood, Processes DEF RTXInv, ChangePriority
    <2> QED
        BY <2>1, <2>3, <2>4
<1>2. Programs' /\ UNCHANGED <<hpc, line, shown>>
    BY DEF CCIChange, Goto, RTXInv, Programs, Point
<1> QED
    BY <1>1, <1>2, ProgramGood

LEMMA CCIRenewGood ==
    ASSUME RTXInv, NEW command \in {"s", "print"}, NEW next \in Point, CCIRenew(command, next)
    PROVE  RTXInv'
<1>1. KernelInv'
    BY RequestEnvGood, Processes DEF CCIRenew, RTXInv
<1>2. posted' \in [{"s", "print"} -> Nat]
    BY DEF CCIRenew, RTXInv, Programs
<1>3. Programs'
    BY <1>2, ObtainsGood, Processes, Domains DEF CCIRenew, RTXInv, Programs
<1>4. UNCHANGED <<frames, hpc, line, shown>>
    BY DEF CCIRenew, RequestEnv
<1> QED
    BY <1>1, <1>3, <1>4, ProgramGood

LEMMA CCIReleaseGood ==
    ASSUME RTXInv, CCIRelease
    PROVE  RTXInv'
<1>1. env[CCI] \in Env \cup {NULL} /\ held' \in [User -> SUBSET Env]
    BY Processes DEF CCIRelease, RTXInv, Programs, KernelInv, TypeOK
<1>2. KernelInv'
    BY <1>1, ReleaseGood DEF CCIRelease, RTXInv
<1>3. Programs' /\ UNCHANGED <<frames, hpc, line, shown>>
    BY DEF CCIRelease, Goto, RTXInv, Programs, Point
<1> QED
    BY <1>2, <1>3, ProgramGood

LEMMA ADequeueGood ==
    ASSUME RTXInv, ADequeue
    PROVE  RTXInv'
<1>1. A \in EnvQueue
    BY Processes, Domains
<1>2. envs.head[A] \in Env \cup {NULL} /\ KernelInv
    BY <1>1 DEF RTXInv, KernelInv, TypeOK, Store
<1>3. KernelInv'
    <2>1. CASE /\ at' = [at EXCEPT ![A] = "taking"] /\ envs.head[A] # NULL
               /\ UNCHANGED <<envs, curr_process, state, priority, pcbs, sender_id, held,
                              frames, lost, fault>>
        <3>1. TypeOK'
            BY <1>2, <2>1 DEF KernelInv, TypeOK, Place
        <3>2. Taking'
            BY <1>2, <2>1, Processes DEF KernelInv, TypeOK, Taking
        <3> QED
            BY <1>2, <2>1, <3>1, <3>2 DEF KernelInv, LinksAcyclic, BlockedHasNoMail
    <2>2. CASE /\ at[A] = "user" /\ envs' = env_DEQ(envs, A)
               /\ UNCHANGED <<at, curr_process, state, priority, pcbs, sender_id, held,
                              frames, lost, fault>>
        BY <1>1, <1>2, <2>2, DequeueGood DEF KernelInv, TypeOK, Faults
    <2>3. CASE StoreHead(A) \/ StoreTail(A)
        BY <1>2, <2>3, StoreHeadGood, StoreTailGood, Processes
    <2> QED
        BY <2>1, <2>2, <2>3 DEF ADequeue
<1>4. /\ env' \in [Client -> Env \cup {NULL}] /\ pc' \in [Client -> Point]
      /\ UNCHANGED <<first, content, line, wallClockOut, hpc, shown, posted, typed, ahead>>
    BY <1>2 DEF ADequeue, Goto, RTXInv, Programs, Point
<1>5. Programs' /\ UNCHANGED <<frames, hpc, line, shown>>
    BY <1>4 DEF ADequeue, StoreHead, StoreTail, RTXInv, Programs
<1> QED
    BY <1>3, <1>5, ProgramGood

LEMMA ProgramStepGood ==
    ASSUME RTXInv, Program
    PROVE  RTXInv'
<1>1. {"first", "ask", "receive", "execute", "start", "print", "release", "yield",
       "dequeue", "request", "send"} \subseteq Point
    BY DEF Point
<1>2. CASE CCIStep
    <2>1. CASE CCIReceive
        <3> DEFINE e    == IF at[CCI] = "emptied" THEN env[CCI] ELSE envs.head[CCI]
                   next == IF e \in Env /\ content[e] \in Commands THEN "execute" ELSE "receive"
        <3>1. Receives(CCI, next)
            BY <2>1 DEF CCIReceive
        <3>2. next \in Point
            BY <1>1
        <3> HIDE DEF next
        <3> QED
            BY <3>1, <3>2, ReceivesGood, Processes
    <2> QED
        BY <1>1, <1>2, <2>1, RequestsGood, SendsGood, YieldsGood, CCIFirstGood, CCIClockGood,
           CCIChangeGood, CCIRenewGood, CCIReleaseGood, Processes
        DEF CCIStep
<1>3. CASE AStep
    BY <1>1, <1>3, RequestsGood, SendsGood, YieldsGood, ReceivesGood, ADequeueGood, Processes
    DEF AStep, Point
<1>4. CASE BStep
    BY <1>1, <1>4, SendsGood, YieldsGood, ReceivesGood, Processes DEF BStep
<1>5. CASE NullStep
    <2>1. PICK p \in NullProcs : (NullDrain(p) \/ ReleaseProcessor(p)) /\ UNCHANGED rtx
        BY <1>5 DEF NullStep
    <2>2. KernelInv' /\ frames' = frames
        BY <2>1, NullDrainGood, ReleaseProcessorGood, Processes
        DEF RTXInv, NullDrain, ReleaseProcessor
    <2> QED
        BY <2>1, <2>2, ProgramGood DEF rtx, RTXInv, Programs
<1> QED
    BY <1>2, <1>3, <1>4, <1>5 DEF Program

-----------------------------------------------------------------------------
(* Steps of the handlers.                                                  *)
LEMMA SignalFree ==
    ASSUME RTXInv, NEW i, Idle(i)
    PROVE  \A k \in 1 .. Len(frames) : frames[k].pid # i
BY DEF Idle, RTXInv, Stack

LEMMA TopHandler ==
    ASSUME RTXInv, frames # <<>>
    PROVE  /\ Top \in Frame /\ Len(frames) \in 1 .. Len(frames) /\ Len(hpc) = Len(frames)
           /\ \A i \in Iproc : \A here : Doing(i, here) <=> frames[Len(frames)].pid = i
                                                          /\ hpc[Len(frames)] = here
BY TopFrame DEF RTXInv, KernelInv, Stack, Doing, Top

LEMMA KbdSignalGood ==
    ASSUME RTXInv, KbdSignal
    PROVE  RTXInv'
<1>1. KernelInv' /\ Programs'
    <2>1. ahead' \in BOOLEAN
        BY DEF KbdSignal, RTXInv, Programs
    <2> QED
        BY <2>1, InterruptGood, Processes DEF KbdSignal, RTXInv, Programs
<1> DEFINE f == [ pid |-> 0, interrupted |-> curr_process, env |-> envs.head[0] ]
<1>2. f \in Frame /\ f.pid = 0
    BY Processes, Domains DEF Frame, RTXInv, KernelInv, TypeOK, Store
<1>3. \A k \in 1 .. Len(frames) : frames[k].pid # 0
    BY SignalFree DEF KbdSignal
<1>4. /\ frames' = Append(frames, f) /\ hpc' = Append(hpc, "transfer")
      /\ line # NULL /\ UNCHANGED <<line, shown>>
    BY DEF KbdSignal, Interrupt
<1> HIDE DEF f
<1>5. Stack(frames', hpc', line', shown')
    BY <1>2, <1>3, <1>4, Push DEF RTXInv, Call
<1> QED
    BY <1>1, <1>5 DEF RTXInv

LEMMA CrtSignalGood ==
    ASSUME RTXInv, CrtSignal
    PROVE  RTXInv'
<1>1. KernelInv' /\ Programs'
    BY InterruptGood, Processes DEF CrtSignal, RTXInv, Programs
<1> DEFINE f == [ pid |-> 1, interrupted |-> curr_process, env |-> envs.head[1] ]
<1>2. f \in Frame /\ f.pid = 1
    BY Processes, Domains DEF Frame, RTXInv, KernelInv, TypeOK, Store
<1>3. \A k \in 1 .. Len(frames) : frames[k].pid # 1
    BY SignalFree DEF CrtSignal
<1>4. /\ frames' = Append(frames, f) /\ hpc' = Append(hpc, "transfer")
      /\ UNCHANGED <<line, shown>>
    BY DEF CrtSignal, Interrupt
<1> HIDE DEF f
<1>5. Stack(frames', hpc', line', shown')
    BY <1>2, <1>3, <1>4, Push DEF RTXInv, Call
<1> QED
    BY <1>1, <1>5 DEF RTXInv

LEMMA TimerSignalGood ==
    ASSUME RTXInv, TimerSignal
    PROVE  RTXInv'
<1> DEFINE f == [ pid |-> 2, interrupted |-> curr_process, env |-> NULL ]
<1>1. f \in Frame /\ f.pid = 2
    BY Processes DEF Frame, RTXInv, KernelInv, TypeOK
<1>2. \A k \in 1 .. Len(frames) : frames[k].pid # 2
    BY SignalFree DEF TimerSignal
<1>3. PICK c \in {"clock_out", "receive"} : /\ hpc' = Append(hpc, c)
                                            /\ c = "clock_out" => shown < MaxShown
    BY DEF TimerSignal
<1>4. /\ frames' = Append(frames, f) /\ curr_process' = 2
      /\ UNCHANGED <<state, priority, pcbs, envs, sender_id, held, at, lost, fault,
                     pc, env, first, content, line, wallClockOut, shown, posted, typed, ahead>>
    BY DEF TimerSignal
<1> HIDE DEF f
<1>5. Stack(frames', hpc', line', shown')
    BY <1>1, <1>2, <1>3, <1>4, Push DEF RTXInv, Call
<1>6. frames' \in Seq(Frame)
    BY <1>5 DEF Stack
<1>7. KernelInv' /\ Programs'
    BY <1>4, <1>6, Processes
    DEF RTXInv, KernelInv, TypeOK, LinksAcyclic, BlockedHasNoMail, Taking, Programs
<1> QED
    BY <1>5, <1>7 DEF RTXInv

(* kbd_iproc and crt_iproc give their envelope back.                       *)
LEMMA TransferGood ==
    ASSUME RTXInv, NEW i \in Iproc, Doing(i, "transfer"), Top.env # NULL,
           NEW c \in Content, content' = [content EXCEPT ![Top.env] = c],
           line' = line \/ (line' = NULL /\ i = 0),
           Reply, Calls("return"),
           UNCHANGED <<pc, env, first, wallClockOut, shown, posted, typed, ahead>>
    PROVE  RTXInv'
<1>1. KernelInv'
    BY ReplyGood DEF RTXInv
<1>2. frames # <<>> /\ frames' = [frames EXCEPT ![Len(frames)].env = NULL]
    BY DEF Reply
<1>3. frames[Len(frames)].pid = i
    BY <1>2, TopHandler
<1>4. Programs'
    BY DEF RTXInv, Programs
<1>5. hpc' = [hpc EXCEPT ![Len(hpc)] = "return"] /\ "return" \in Call
    BY DEF Calls, Call
<1>6. Stack(frames', hpc', line', shown')
    BY <1>2, <1>3, <1>5, GoOn DEF RTXInv
<1> QED
    BY <1>1, <1>4, <1>6 DEF RTXInv

LEMMA KbdTransferGood ==
    ASSUME RTXInv, KbdTransfer
    PROVE  RTXInv'
<1>1. frames # <<>> /\ line # NULL
    BY TopHandler, Processes DEF KbdTransfer, Reply, RTXInv, Stack
<1>2. line \in Content
    BY <1>1 DEF RTXInv, Programs, Content
<1> QED
    BY <1>2, TransferGood, Processes DEF KbdTransfer

LEMMA CrtTransferGood ==
    ASSUME RTXInv, CrtTransfer
    PROVE  RTXInv'
<1>1. "ack" \in Content
    BY DEF Content
<1> QED
    BY <1>1, TransferGood, Processes DEF CrtTransfer

(* The handler returns without its envelope, or with it.                   *)
LEMMA KbdDropGood ==
    ASSUME RTXInv, KbdDrop
    PROVE  RTXInv'
<1>1. KernelInv' /\ Programs'
    BY ReturnGood DEF KbdDrop, RTXInv, Programs
<1>2. /\ frames # <<>> /\ frames' = SubSeq(frames, 1, Len(frames) - 1)
      /\ hpc' = SubSeq(hpc, 1, Len(hpc) - 1) /\ shown' = shown
    BY DEF KbdDrop, Return
<1>3. frames[Len(frames)].pid = 0
    BY <1>2, TopHandler, Processes DEF KbdDrop
<1>4. Stack(frames', hpc', line', shown')
    BY <1>2, <1>3, Pop DEF RTXInv
<1> QED
    BY <1>1, <1>4 DEF RTXInv

LEMMA HandlerReturnGood ==
    ASSUME RTXInv, HandlerReturn \/ CrtDrop
    PROVE  RTXInv'
<1>1. KernelInv' /\ Programs'
    BY ReturnGood DEF HandlerReturn, CrtDrop, RTXInv, Programs
<1>2. /\ frames # <<>> /\ frames' = SubSeq(frames, 1, Len(frames) - 1)
      /\ hpc' = SubSeq(hpc, 1, Len(hpc) - 1) /\ shown' = shown /\ line' = line
    BY DEF HandlerReturn, CrtDrop, Return
<1>3. Stack(frames', hpc', line', shown')
    BY <1>2, Pop DEF RTXInv
<1> QED
    BY <1>1, <1>3 DEF RTXInv

(* The three steps of timer_iproc.                                         *)
LEMMA ClockRequestGood ==
    ASSUME RTXInv, ClockRequest
    PROVE  RTXInv'
<1> DEFINE e == envs.head[envelope_q]
<1>1. /\ frames # <<>> /\ Doing(2, "clock_out")
      /\ UNCHANGED <<curr_process, state, priority, pcbs, sender_id, held, at, lost,
                     pc, env, first, content, line, wallClockOut, shown, posted, typed, ahead>>
    BY DEF ClockRequest, Doing
<1>2. Programs'
    BY <1>1 DEF RTXInv, Programs
<1>3. CASE e = NULL
    <2>1. fault' = "iproc_blocked" /\ UNCHANGED <<envs, frames, hpc>>
        BY <1>3 DEF ClockRequest
    <2>2. KernelInv'
        BY <1>1, <2>1 DEF RTXInv, KernelInv, TypeOK, LinksAcyclic, BlockedHasNoMail, Taking
    <2> QED
        BY <1>1, <1>2, <2>1, <2>2 DEF RTXInv
<1>4. CASE e # NULL
    <2>1. /\ envs' = env_DEQ(envs, envelope_q)
          /\ frames' = [frames EXCEPT ![Len(frames)].env = e]
          /\ hpc' = [hpc EXCEPT ![Len(hpc)] = "display"] /\ fault' = fault
        BY <1>4 DEF ClockRequest, Calls
    <2>2. e \in Env \cup {NULL} /\ envelope_q \in EnvQueue
        BY Domains DEF RTXInv, KernelInv, TypeOK, Store
    <2>3. frames[Len(frames)].pid = 2 /\ shown < MaxShown
        BY <1>1, TopHandler, Processes DEF RTXInv, Stack
    <2> HIDE DEF e
    <2>4. frames'[Len(frames)].env # NULL
        <3>1. Len(frames) \in DOMAIN frames /\ frames[Len(frames)] \in Frame
            BY <1>1, TopHandler DEF RTXInv, KernelInv, TypeOK, Top
        <3> QED
            BY <1>4, <2>1, <3>1 DEF Frame
    <2>5. Stack(frames', hpc', line', shown')
        BY <1>1, <2>1, <2>2, <2>3, <2>4, GoOn DEF RTXInv, Call
    <2>6. frames' \in Seq(Frame) /\ fault' \in Faults
        BY <2>1, <2>5 DEF Stack, RTXInv, KernelInv, TypeOK, Faults
    <2>7. KernelInv'
        BY <1>1, <2>1, <2>2, <2>6, Domains, DequeueGood DEF RTXInv
    <2> QED
        BY <1>2, <2>5, <2>7 DEF RTXInv
<1> QED
    BY <1>3, <1>4

LEMMA ClockSendGood ==
    ASSUME RTXInv, ClockSend
    PROVE  RTXInv'
<1>1. /\ frames # <<>> /\ Doing(2, "display") /\ k_send_message(1, Top.env)
      /\ frames' = [frames EXCEPT ![Len(frames)].env = NULL]
      /\ shown' = shown + 1 /\ hpc' = [hpc EXCEPT ![Len(hpc)] = "receive"]
      /\ UNCHANGED <<curr_process, priority, held, at, lost, fault,
                     pc, env, first, content, line, wallClockOut, posted, typed, ahead>>
    BY DEF ClockSend, Doing, Calls
<1>2. Programs'
    BY <1>1 DEF RTXInv, Programs
<1>3. frames[Len(frames)].pid = 2 /\ shown < MaxShown
    BY <1>1, TopHandler, Processes DEF RTXInv, Stack
<1>4. Stack(frames', hpc', line', shown')
    BY <1>1, <1>3, GoOn DEF RTXInv, Call
<1>5. frames' \in Seq(Frame)
    BY <1>4 DEF Stack
<1>6. Top.env \in Env
    BY <1>1, TopHandler, Processes DEF RTXInv, Stack, Frame, Top
<1>7. /\ sender_id' \in [Env -> PID \cup {-1}]
      /\ envs' \in Store(Env, EnvQueue) /\ pcbs' \in Store(User, PcbQueue)
      /\ state' \in [User -> States]
      /\ LinksAcyclic' /\ BlockedHasNoMail'
    BY <1>1, <1>6, SendGood, Processes DEF RTXInv
<1>8. \A k \in User : envs.head[k] # NULL => envs'.head[k] # NULL
    <2>1. envs \in Store(Env, EnvQueue) /\ 1 \in EnvQueue /\ User \subseteq EnvQueue
        BY Processes, Domains DEF RTXInv, KernelInv, TypeOK
    <2>2. envs' = env_ENQ(envs, 1, Top.env)
        BY <1>1 DEF k_send_message
    <2>3. \A k \in User : k # 1 /\ k \in EnvQueue
        BY <2>1, Processes, Domains
    <2> QED
        BY <1>6, <2>1, <2>2, <2>3, Domains, ENQHeads
<1>9. Taking'
    BY <1>1, <1>8, TakingRest DEF RTXInv, KernelInv
<1>10. KernelInv'
    BY <1>1, <1>5, <1>7, <1>9 DEF RTXInv, KernelInv, TypeOK, States
<1> QED
    BY <1>2, <1>4, <1>10 DEF RTXInv

LEMMA TimerReceiveGood ==
    ASSUME RTXInv, TimerReceive
    PROVE  RTXInv'
<1>1. /\ frames # <<>> /\ Doing(2, "receive")
      /\ frames' = [frames EXCEPT ![Len(frames)].env = envs.head[2]]
      /\ envs' = env_DEQ(envs, 2)
      /\ hpc' = [hpc EXCEPT ![Len(hpc)] = "return"]
      /\ UNCHANGED <<curr_process, state, priority, pcbs, sender_id, held, at, lost, fault,
                     pc, env, first, content, line, wallClockOut, shown, posted, typed, ahead>>
    BY DEF TimerReceive, Doing, Calls
<1>2. Programs'
    BY <1>1 DEF RTXInv, Programs
<1>3. 2 \in EnvQueue /\ envs.head[2] \in Env \cup {NULL}
    BY Processes, Domains DEF RTXInv, KernelInv, TypeOK, Store
<1>4. Stack(frames', hpc', line', shown')
    BY <1>1, <1>3, GoOn DEF RTXInv, Call
<1>5. frames' \in Seq(Frame) /\ fault' \in Faults
    BY <1>1, <1>4 DEF Stack, RTXInv, KernelInv, TypeOK, Faults
<1>6. \A p \in User : p # 2
    BY Processes, Domains
<1>7. KernelInv'
    BY <1>1, <1>3, <1>5, <1>6, DequeueGood DEF RTXInv
<1> QED
    BY <1>2, <1>4, <1>7 DEF RTXInv

LEMMA SendsNowhereGood ==
    ASSUME RTXInv, SendsNowhere
    PROVE  RTXInv'
<1>1. SendFaults /\ UNCHANGED rtx
    BY DEF SendsNowhere
<1>2. frames' = frames /\ KernelInv'
    BY <1>1, SendFaultsGood DEF SendFaults, RTXInv
<1> QED
    BY <1>1, <1>2 DEF rtx, RTXInv, Programs

LEMMA TypeGood ==
    ASSUME RTXInv, NEW c \in Commands, Type(c)
    PROVE  RTXInv'
<1>1. KernelInv'
    BY DEF Type, RTXInv, KernelInv, vars, TypeOK, LinksAcyclic, BlockedHasNoMail, Taking
<1>2. Programs'
    BY Processes DEF Type, RTXInv, Programs
<1>3. Stack(frames', hpc', line', shown')
    BY Processes DEF Type, RTXInv, Stack, vars
<1> QED
    BY <1>1, <1>2, <1>3 DEF RTXInv

-----------------------------------------------------------------------------
LEMMA NextRTXInv == RTXInv /\ [RTXNext]_all => RTXInv'
<1> SUFFICES ASSUME RTXInv, [RTXNext]_all
             PROVE  RTXInv'
    OBVIOUS
<1>1. CASE Program
    BY <1>1, ProgramStepGood
<1>2. CASE HandlerStep
    BY <1>2, KbdTransferGood, KbdDropGood, CrtTransferGood, ClockRequestGood, ClockSendGood,
       TimerReceiveGood, HandlerReturnGood
    DEF HandlerStep
<1>3. CASE Signal
    BY <1>3, KbdSignalGood, CrtSignalGood, TimerSignalGood DEF Signal
<1>4. CASE (\E c \in Commands : Type(c)) \/ SendsNowhere
    BY <1>4, TypeGood, SendsNowhereGood
<1>5. CASE UNCHANGED all
    BY <1>5 DEF all, vars, rtx, RTXInv, KernelInv, TypeOK, LinksAcyclic, BlockedHasNoMail,
                Taking, Programs, Stack
<1> QED
    BY <1>1, <1>2, <1>3, <1>4, <1>5 DEF RTXNext

(* KernelInv holds in the closed system too, and the handlers keep their   *)
(* stack: no i-process is interrupted by itself.                           *)
THEOREM RTXInvariant == RTXSpec => []RTXInv
BY InitRTXInv, NextRTXInv, PTL DEF RTXSpec

(* Every variable of the closed system keeps its type, whatever the double *)
(* releases of the CCI do to the envelope queues: a handler never writes a *)
(* line that is not there, and the stack of handlers and of what they do   *)
(* next stay together.                                                     *)
THEOREM RTXTypeCorrect == RTXSpec => []RTXTypeOK
BY RTXInvariant, RTXInvTypes, PTL

(* No lost wakeup in the closed system either: no process waits for a      *)
(* message while its queue has one, although an envelope released while it *)
(* is on its way to the CRT leaves two queues linked together.             *)
THEOREM RTXNoLostWakeup == RTXSpec => []BlockedHasNoMail
<1>1. RTXInv => BlockedHasNoMail
    BY DEF RTXInv, KernelInv
<1> QED
    BY <1>1, RTXInvariant, PTL

-----------------------------------------------------------------------------
(* The low levels.  The table puts the CCI above process 5 and process 5   *)
(* above all others, and no call of change_priority restores a priority of *)
(* the table.                                                              *)
TableOrder ==
    /\ Priority[CCI] < Priority[C]
    /\ \A p \in User \ {CCI, C} : Priority[C] < Priority[p]

NeverRestored == \A c \in ChangesAllowed : c[1] # Priority[c[2]]

(* Until a priority is changed: of the states st and the queues q, while   *)
(* the process i, or none, has the processor.  Process 5 is ready whenever *)
(* it does not run; it and the CCI are alone on their levels; the other    *)
(* processes stay where init_processes has put them.                       *)
Starved(st, q, i) ==
    /\ \A p \in User \ {CCI, C} : st[p] = "READY"
    /\ st[C] = IF i = C THEN "RUNNING" ELSE "READY"
    /\ st[CCI] = "RUNNING" <=> i = CCI
    /\ q.p[CCI] = NULL /\ q.p[C] = NULL
    /\ q.head[Priority[C]] = IF i = C THEN NULL ELSE C
    /\ q.head[Priority[CCI]] = IF st[CCI] = "READY" THEN CCI ELSE NULL
    /\ \A l \in Level : l < Priority[C] /\ l # Priority[CCI] => q.head[l] = NULL
    /\ q.head[blocked_on_envelope] = IF st[CCI] = "BLK_ON_ENV" THEN CCI ELSE NULL

Changed ==
    \A p \in User : priority[p] = Priority[p] \/ <<priority[p], p>> \in ChangesAllowed

StarveInv ==
    /\ Changed
    /\ priority = Priority => Interrupted \in {CCI, C} /\ Starved(state, pcbs, Interrupted)

LEMMA TableLevels ==
    /\ Priority \in [User -> Level] /\ CCI \in User /\ C \in User
    /\ Priority[CCI] \in Level /\ Priority[C] \in Level
    /\ Level \subseteq PcbQueue /\ Level \subseteq Nat /\ blocked_on_envelope \notin Level
    /\ NULL \notin User
BY TableAssumption, Processes, Domains DEF Level, blocked_on_envelope

LEMMA InitStarveInv ==
    ASSUME TableOrder, RTXInit
    PROVE  StarveInv
<1>1. /\ curr_process = CCI /\ priority = Priority /\ pcbs = InitPcbs /\ frames = <<>>
      /\ state = [p \in User |-> IF p = CCI THEN "RUNNING" ELSE "READY"]
    BY DEF RTXInit, Init, CCI
<1>2. Interrupted = CCI
    BY <1>1 DEF Interrupted
<1>3. /\ Waiting(Priority[C]) = {C}
      /\ \A l \in Level : l < Priority[C] => Waiting(l) = {}
    <2>1. \A p \in User \ {CCI} : Priority[p] \in Nat /\ (p # C => Priority[C] < Priority[p])
        BY TableLevels DEF TableOrder
    <2>2. Priority[C] \in Nat /\ C \in User \ {CCI}
        BY TableLevels, Processes
    <2>3. \A l \in Level : Waiting(l) = { p \in User \ {CCI} : Priority[p] = l }
        BY DEF Waiting, CCI
    <2>4. \A p \in User \ {CCI} : Priority[p] = Priority[C] <=> p = C
        BY <2>1, <2>2
    <2>5. \A p \in User \ {CCI} : ~ (Priority[p] < Priority[C])
        BY <2>1, <2>2
    <2> QED
        BY <2>2, <2>3, <2>4, <2>5, TableLevels
<1>4. \A l \in Level : l < Priority[C] => Waiting(l) = {}
    BY <1>3
<1>5. Waiting(blocked_on_envelope) = {}
    BY TableLevels DEF Waiting
<1>6. First({}) = NULL /\ First({C}) = C
    <2>1. C <= C
        BY TableLevels, Domains
    <2> QED
        BY <2>1 DEF First
<1>7. /\ \A l \in Level : InitPcbs.head[l] = First(Waiting(l))
      /\ InitPcbs.head[blocked_on_envelope] = First(Waiting(blocked_on_envelope))
      /\ \A n \in User : InitPcbs.p[n] = First({ m \in Waiting(Priority[n]) : m > n /\ n # CCI })
    BY Domains DEF InitPcbs, CCI
<1>8. InitPcbs.p[CCI] = NULL
    <2>1. { m \in Waiting(Priority[CCI]) : m > CCI /\ CCI # CCI } = {}
        OBVIOUS
    <2> QED
        BY <1>6, <1>7, <2>1, TableLevels
<1>9. InitPcbs.p[C] = NULL
    <2>1. { m \in Waiting(Priority[C]) : m > C /\ C # CCI } = {}
        BY <1>3, TableLevels, Domains
    <2> QED
        BY <1>6, <1>7, <2>1, TableLevels
<1>10. Starved(state, pcbs, CCI)
    BY <1>1, <1>3, <1>4, <1>5, <1>6, <1>7, <1>8, <1>9, TableLevels, Processes
    DEF Starved, TableOrder
<1> QED
    BY <1>1, <1>2, <1>10 DEF StarveInv, Changed

-----------------------------------------------------------------------------
(* process_switch chooses the CCI if it is ready, and process 5 otherwise. *)
LEMMA SwitchStarved ==
    ASSUME TableOrder, NEW st \in [User -> States], NEW q \in Store(User, PcbQueue),
           Starved(st, q, NULL), NEW resume, NEW otherwise, curr_process \in User,
           process_switch(st, q, resume, otherwise)
    PROVE  /\ curr_process' \in {CCI, C} /\ Starved(state', pcbs', curr_process')
           /\ fault' = fault /\ at' = [at EXCEPT ![curr_process] = resume]
           /\ st[CCI] # "READY" => state'[CCI] = st[CCI]
<1> DEFINE ready == { l \in Level : q.head[l] # NULL }
           level == First(ready)
           new   == q.head[level]
           old   == IF st[curr_process] = "RUNNING" THEN "READY" ELSE st[curr_process]
<1>1. /\ NULL # CCI /\ NULL # C /\ CCI # C /\ Priority[CCI] < Priority[C]
      /\ q.head[Priority[C]] = C
      /\ q.head[Priority[CCI]] = IF st[CCI] = "READY" THEN CCI ELSE NULL
      /\ \A l \in Level : l < Priority[C] /\ l # Priority[CCI] => q.head[l] = NULL
    BY TableLevels, Processes DEF Starved, TableOrder
<1>2. Priority[C] \in ready /\ ready \subseteq Nat
    BY <1>1, TableLevels
<1>3. level \in ready /\ \A l \in ready : level <= l
    <2>1. \E n \in ready : \A m \in ready : n <= m
        BY <1>2, LeastNat
    <2> QED
        BY <1>2, <2>1 DEF First
<1>4. level = IF st[CCI] = "READY" THEN Priority[CCI] ELSE Priority[C]
    <2>1. level <= Priority[C] /\ level \in Level /\ q.head[level] # NULL
        BY <1>2, <1>3
    <2>2. Priority[C] \in Nat /\ Priority[CCI] \in Nat /\ level \in Nat
        BY <1>2, <1>3, TableLevels
    <2>3. st[CCI] = "READY" => Priority[CCI] \in ready
        BY <1>1, TableLevels
    <2>4. st[CCI] = "READY" => level <= Priority[CCI]
        BY <1>3, <2>3
    <2>5. st[CCI] # "READY" => q.head[Priority[CCI]] = NULL
        BY <1>1
    <2> HIDE DEF level, ready
    <2>6. level = Priority[C] \/ level = Priority[CCI]
        BY <1>1, <2>1, <2>2
    <2>7. CASE st[CCI] = "READY"
        BY <1>1, <2>2, <2>4, <2>6, <2>7
    <2>8. CASE st[CCI] # "READY"
        BY <2>1, <2>5, <2>6, <2>8
    <2> QED
        BY <2>7, <2>8
<1>5. new = IF st[CCI] = "READY" THEN CCI ELSE C
    BY <1>1, <1>4
<1>6. ready # {}
    BY <1>2
<1>7. /\ state' = [st EXCEPT ![curr_process] = old, ![new] = "RUNNING"]
      /\ pcbs' = PCB_DEQ(q, level) /\ curr_process' = new
      /\ fault' = fault /\ at' = [at EXCEPT ![curr_process] = resume]
    BY <1>6 DEF process_switch
<1>8. \A p \in User : st[p] # "RUNNING"
    BY <1>1, TableLevels DEF Starved
<1> HIDE DEF ready, level, new
<1>9. state' = [st EXCEPT ![new] = "RUNNING"]
    BY <1>5, <1>7, <1>8, TableLevels
<1>10. q.p[new] = NULL /\ level \in Level /\ q.head[level] = new /\ new # NULL /\ new \in User
    BY <1>1, <1>4, <1>5, TableLevels DEF Starved
<1>11. pcbs' = [q EXCEPT !.head[level] = NULL, !.tail[level] = NULL, !.p[new] = NULL]
    BY <1>7, <1>10, TableLevels DEF PCB_DEQ, Store
<1>12. /\ pcbs'.head[level] = NULL
       /\ \A l \in PcbQueue : l # level => pcbs'.head[l] = q.head[l]
       /\ pcbs'.p[CCI] = NULL /\ pcbs'.p[C] = NULL
    BY <1>10, <1>11, TableLevels DEF Store, Starved
<1>13. Starved(state', pcbs', new)
    <2>1. CASE st[CCI] = "READY"
        <3>1. new = CCI /\ level = Priority[CCI] /\ state'[CCI] = "RUNNING"
              /\ \A p \in User : p # CCI => state'[p] = st[p]
            BY <1>4, <1>5, <1>9, <2>1, TableLevels
        <3>2. /\ \A p \in User \ {CCI, C} : state'[p] = "READY"
              /\ state'[C] = "READY"
            BY <1>1, <3>1, TableLevels DEF Starved
        <3>3. pcbs'.head[Priority[CCI]] = NULL /\ pcbs'.head[Priority[C]] = C
            BY <1>1, <1>12, <3>1, TableLevels
        <3>4. \A l \in Level : l < Priority[C] /\ l # Priority[CCI] => pcbs'.head[l] = NULL
            BY <1>1, <1>12, <3>1, TableLevels
        <3>5. pcbs'.head[blocked_on_envelope] = NULL
            BY <1>10, <1>12, <2>1, TableLevels, Domains DEF Starved
        <3> QED
            BY <1>1, <1>12, <3>1, <3>2, <3>3, <3>4, <3>5 DEF Starved
    <2>2. CASE st[CCI] # "READY"
        <3>1. new = C /\ level = Priority[C] /\ state'[C] = "RUNNING"
              /\ \A p \in User : p # C => state'[p] = st[p]
            BY <1>4, <1>5, <1>9, <2>2, TableLevels
        <3>2. /\ \A p \in User \ {CCI, C} : state'[p] = "READY"
              /\ state'[CCI] = st[CCI] /\ st[CCI] # "RUNNING"
            BY <1>1, <1>8, <3>1, TableLevels DEF Starved
        <3>3. pcbs'.head[Priority[CCI]] = NULL /\ pcbs'.head[Priority[C]] = NULL
            BY <1>1, <1>12, <2>2, <3>1, TableLevels
        <3>4. \A l \in Level : l < Priority[C] /\ l # Priority[CCI] => pcbs'.head[l] = NULL
            BY <1>1, <1>12, <3>1, TableLevels
        <3>5. pcbs'.head[blocked_on_envelope] = IF st[CCI] = "BLK_ON_ENV" THEN CCI ELSE NULL
            BY <1>10, <1>12, TableLevels, Domains DEF Starved
        <3> QED
            BY <1>1, <1>12, <2>2, <3>1, <3>2, <3>3, <3>4, <3>5 DEF Starved
    <2> QED
        BY <2>1, <2>2
<1>14. st[CCI] # "READY" => state'[CCI] = st[CCI]
    BY <1>1, <1>5, <1>9, TableLevels
<1> QED
    BY <1>5, <1>7, <1>13, <1>14

(* A process put on an empty queue, or taken off one.                      *)
LEMMA EnqAlone ==
    ASSUME NEW q \in Store(User, PcbQueue), NEW l \in PcbQueue, NEW r \in User,
           q.head[l] = NULL
    PROVE  /\ PCB_ENQ(q, l, r) \in Store(User, PcbQueue)
           /\ PCB_ENQ(q, l, r).head[l] = r
           /\ \A k \in PcbQueue : k # l => PCB_ENQ(q, l, r).head[k] = q.head[k]
           /\ PCB_ENQ(q, l, r).p = q.p
<1>1. r # NULL /\ NULL \notin User
    BY Domains
<1>2. PCB_ENQ(q, l, r) = [q EXCEPT !.head[l] = r, !.tail[l] = r]
    BY <1>1 DEF PCB_ENQ
<1>3. PCB_ENQ(q, l, r) \in Store(User, PcbQueue)
    BY <1>1, ENQType
<1> QED
    BY <1>2, <1>3 DEF Store

(* The queues and levels that Starved names are different.                 *)
LEMMA TableApart ==
    ASSUME TableOrder, TypeOK
    PROVE  /\ pcbs \in Store(User, PcbQueue) /\ state \in [User -> States]
           /\ NULL # CCI /\ NULL # C /\ CCI # C /\ CCI \in User /\ C \in User
           /\ Priority[CCI] < Priority[C] /\ Priority[C] # Priority[CCI]
           /\ Priority[CCI] \in PcbQueue /\ Priority[C] \in PcbQueue
           /\ blocked_on_envelope \in PcbQueue
           /\ blocked_on_envelope # Priority[C] /\ blocked_on_envelope # Priority[CCI]
           /\ \A l \in Level : l \in PcbQueue /\ l # blocked_on_envelope
<1>1. pcbs \in Store(User, PcbQueue) /\ state \in [User -> States]
    BY DEF TypeOK, States
<1>2. NULL # CCI /\ NULL # C /\ CCI # C /\ CCI \in User /\ C \in User
    BY TableLevels, Processes
<1>3. Priority[CCI] \in Nat /\ Priority[C] \in Nat /\ Priority[CCI] < Priority[C]
    BY TableLevels DEF TableOrder
<1>4. Priority[C] # Priority[CCI]
    BY <1>3
<1> QED
    BY <1>1, <1>2, <1>3, <1>4, TableLevels, Domains

(* The ways to give up the processor.                                      *)
LEMMA LeaveStarved ==
    ASSUME TableOrder, TypeOK, priority = Priority
    PROVE  /\ Starved(state, pcbs, CCI) =>
                 /\ Starved([state EXCEPT ![CCI] = "BLK_ON_RCV"],
                            PCB_DEQ(pcbs, priority[CCI]), NULL)
                 /\ PCB_DEQ(pcbs, priority[CCI]) \in Store(User, PcbQueue)
                 /\ Starved([state EXCEPT ![CCI] = "BLK_ON_ENV"],
                            PCB_ENQ(pcbs, blocked_on_envelope, CCI), NULL)
                 /\ PCB_ENQ(pcbs, blocked_on_envelope, CCI) \in Store(User, PcbQueue)
                 /\ Starved([state EXCEPT ![CCI] = "READY"],
                            PCB_ENQ(pcbs, priority[CCI], CCI), NULL)
                 /\ PCB_ENQ(pcbs, priority[CCI], CCI) \in Store(User, PcbQueue)
           /\ Starved(state, pcbs, C) =>
                 /\ Starved([state EXCEPT ![C] = "READY"],
                            PCB_ENQ(pcbs, priority[C], C), NULL)
                 /\ PCB_ENQ(pcbs, priority[C], C) \in Store(User, PcbQueue)
<1>1. /\ pcbs \in Store(User, PcbQueue) /\ state \in [User -> States]
      /\ NULL # CCI /\ NULL # C /\ CCI # C /\ Priority[CCI] < Priority[C]
      /\ Priority[C] # Priority[CCI]
      /\ priority[CCI] \in PcbQueue /\ priority[C] \in PcbQueue
      /\ blocked_on_envelope \in PcbQueue /\ CCI \in User /\ C \in User
      /\ blocked_on_envelope # Priority[C] /\ blocked_on_envelope # Priority[CCI]
      /\ \A l \in Level : l \in PcbQueue /\ l # blocked_on_envelope
    BY TableApart
<1>2. ASSUME Starved(state, pcbs, CCI)
      PROVE  /\ Starved([state EXCEPT ![CCI] = "BLK_ON_RCV"],
                        PCB_DEQ(pcbs, priority[CCI]), NULL)
             /\ PCB_DEQ(pcbs, priority[CCI]) \in Store(User, PcbQueue)
    <2>1. pcbs.head[priority[CCI]] = NULL
        BY <1>1, <1>2 DEF Starved
    <2>2. PCB_DEQ(pcbs, priority[CCI]) = pcbs
        BY <2>1 DEF PCB_DEQ
    <2> QED
        BY <1>1, <1>2, <2>2 DEF Starved
<1>3. ASSUME Starved(state, pcbs, CCI)
      PROVE  /\ Starved([state EXCEPT ![CCI] = "BLK_ON_ENV"],
                        PCB_ENQ(pcbs, blocked_on_envelope, CCI), NULL)
             /\ PCB_ENQ(pcbs, blocked_on_envelope, CCI) \in Store(User, PcbQueue)
    <2> DEFINE q == PCB_ENQ(pcbs, blocked_on_envelope, CCI)
    <2>1. pcbs.head[blocked_on_envelope] = NULL
        BY <1>1, <1>3 DEF Starved
    <2>2. /\ q \in Store(User, PcbQueue) /\ q.head[blocked_on_envelope] = CCI
          /\ \A k \in PcbQueue : k # blocked_on_envelope => q.head[k] = pcbs.head[k]
          /\ q.p = pcbs.p
        BY <1>1, <2>1, EnqAlone
    <2> HIDE DEF q
    <2>3. Starved([state EXCEPT ![CCI] = "BLK_ON_ENV"], q, NULL)
        BY <1>1, <1>3, <2>2 DEF Starved
    <2> QED
        BY <2>2, <2>3 DEF q
<1>4. ASSUME Starved(state, pcbs, CCI)
      PROVE  /\ Starved([state EXCEPT ![CCI] = "READY"],
                        PCB_ENQ(pcbs, priority[CCI], CCI), NULL)
             /\ PCB_ENQ(pcbs, priority[CCI], CCI) \in Store(User, PcbQueue)
    <2> DEFINE q == PCB_ENQ(pcbs, priority[CCI], CCI)
    <2>1. pcbs.head[priority[CCI]] = NULL
        BY <1>1, <1>4 DEF Starved
    <2>2. /\ q \in Store(User, PcbQueue) /\ q.head[Priority[CCI]] = CCI
          /\ \A k \in PcbQueue : k # Priority[CCI] => q.head[k] = pcbs.head[k]
          /\ q.p = pcbs.p
        BY <1>1, <2>1, EnqAlone
    <2> HIDE DEF q
    <2>3. Starved([state EXCEPT ![CCI] = "READY"], q, NULL)
        BY <1>1, <1>4, <2>2, TableLevels DEF Starved
    <2> QED
        BY <2>2, <2>3 DEF q
<1>5. ASSUME Starved(state, pcbs, C)
      PROVE  /\ Starved([state EXCEPT ![C] = "READY"], PCB_ENQ(pcbs, priority[C], C), NULL)
             /\ PCB_ENQ(pcbs, priority[C], C) \in Store(User, PcbQueue)
    <2> DEFINE q == PCB_ENQ(pcbs, priority[C], C)
    <2>1. pcbs.head[priority[C]] = NULL
        BY <1>1, <1>5 DEF Starved
    <2>2. /\ q \in Store(User, PcbQueue) /\ q.head[Priority[C]] = C
          /\ \A k \in PcbQueue : k # Priority[C] => q.head[k] = pcbs.head[k]
          /\ q.p = pcbs.p
        BY <1>1, <2>1, EnqAlone
    <2> HIDE DEF q
    <2>3. \A l \in Level : l < Priority[C] => q.head[l] = pcbs.head[l]
        BY <1>1, <2>2, TableLevels
    <2>4. Starved([state EXCEPT ![C] = "READY"], q, NULL)
        BY <1>1, <1>5, <2>2, <2>3 DEF Starved
    <2> QED
        BY <2>2, <2>4 DEF q
<1> QED
    BY <1>2, <1>3, <1>4, <1>5

(* A message wakes the CCI, or nobody.                                     *)
LEMMA SendStarved ==
    ASSUME TableOrder, TypeOK, priority = Priority, NEW i, Starved(state, pcbs, i),
           NEW dest_id, NEW e, k_send_message(dest_id, e)
    PROVE  Starved(state', pcbs', i)
<1>1. /\ pcbs \in Store(User, PcbQueue) /\ state \in [User -> States]
      /\ NULL # CCI /\ NULL # C /\ CCI # C /\ Priority[C] # Priority[CCI]
      /\ Priority[CCI] \in PcbQueue /\ Priority[C] \in PcbQueue
      /\ blocked_on_envelope \in PcbQueue /\ CCI \in User /\ C \in User
      /\ blocked_on_envelope # Priority[CCI] /\ Level \subseteq PcbQueue
    BY TableApart
<1>2. CASE dest_id \in User /\ state[dest_id] = "BLK_ON_RCV"
    <2> DEFINE q == PCB_ENQ(pcbs, Priority[CCI], CCI)
    <2>1. dest_id = CCI
        BY <1>2 DEF Starved
    <2>2. pcbs' = q /\ state' = [state EXCEPT ![CCI] = "READY"]
        BY <1>2, <2>1 DEF k_send_message
    <2>3. pcbs.head[Priority[CCI]] = NULL
        BY <1>2, <2>1 DEF Starved
    <2>4. /\ q.head[Priority[CCI]] = CCI
          /\ \A k \in PcbQueue : k # Priority[CCI] => q.head[k] = pcbs.head[k]
          /\ q.p = pcbs.p
        BY <1>1, <2>3, EnqAlone
    <2>5. i # CCI /\ state[CCI] = "BLK_ON_RCV"
        BY <1>2, <2>1 DEF Starved
    <2> HIDE DEF q
    <2> QED
        BY <1>1, <2>2, <2>4, <2>5 DEF Starved
<1>3. CASE ~ (dest_id \in User /\ state[dest_id] = "BLK_ON_RCV")
    BY <1>3 DEF k_send_message
<1> QED
    BY <1>2, <1>3

-----------------------------------------------------------------------------
(* Only the CCI and process 5 run.                                         *)
LEMMA Running ==
    ASSUME StarveInv, priority = Priority, NEW p, Runs(p)
    PROVE  Interrupted = p /\ p \in {CCI, C} /\ frames = <<>> /\ curr_process = p
BY DEF StarveInv, Runs, Interrupted

LEMMA Quiet ==
    ASSUME StarveInv, UNCHANGED <<priority, state, pcbs>>,
           priority = Priority => Interrupted' = Interrupted
    PROVE  StarveInv'
BY DEF StarveInv, Changed

LEMMA Switches ==
    ASSUME TableOrder, StarveInv, UNCHANGED <<priority, frames>>,
           NEW p \in User, Runs(p),
           NEW st, NEW q, NEW resume, NEW otherwise,
           process_switch(st, q, resume, otherwise),
           priority = Priority => /\ Starved(st, q, NULL) /\ st \in [User -> States]
                                  /\ q \in Store(User, PcbQueue)
    PROVE  StarveInv'
<1>1. Changed'
    BY DEF StarveInv, Changed
<1>2. ASSUME priority = Priority
      PROVE  Interrupted' \in {CCI, C} /\ Starved(state', pcbs', Interrupted')
    <2>1. frames' = <<>> /\ curr_process = p
        BY DEF Runs
    <2>2. curr_process' \in {CCI, C} /\ Starved(state', pcbs', curr_process')
        BY <1>2, <2>1, SwitchStarved
    <2> QED
        BY <2>1, <2>2 DEF Interrupted
<1> QED
    BY <1>1, <1>2 DEF StarveInv

LEMMA RequestEnvStarved ==
    ASSUME TableOrder, TypeOK, StarveInv, NEW p \in Client, RequestEnv(p)
    PROVE  StarveInv'
<1>1. Runs(p) /\ p \in User /\ UNCHANGED <<priority, frames>>
    BY Processes DEF RequestEnv
<1>2. CASE envs.head[envelope_q] # NULL
    BY <1>1, <1>2, Quiet DEF RequestEnv, Interrupted
<1>3. CASE envs.head[envelope_q] = NULL
    <2> DEFINE st == [state EXCEPT ![p] = "BLK_ON_ENV"]
               q  == PCB_ENQ(pcbs, blocked_on_envelope, p)
    <2>1. process_switch(st, q, "request", "spin")
        BY <1>3 DEF RequestEnv
    <2>2. st \in [User -> States]
        BY DEF TypeOK, States
    <2>3. ASSUME priority = Priority
          PROVE  Starved(st, q, NULL) /\ q \in Store(User, PcbQueue)
        <3>1. p = CCI /\ Starved(state, pcbs, CCI)
            BY <1>1, <2>3, Running, Processes DEF StarveInv, Client
        <3> QED
            BY <2>3, <3>1, LeaveStarved
    <2> HIDE DEF st, q
    <2> QED
        BY <1>1, <2>1, <2>2, <2>3, Switches
<1> QED
    BY <1>2, <1>3

LEMMA ReceiveStarved ==
    ASSUME TableOrder, TypeOK, StarveInv, NEW p \in Client,
           ReceiveMessage(p) \/ ResumeReceive(p) \/ StoreHead(p) \/ StoreTail(p)
    PROVE  StarveInv'
<1>1. Runs(p) /\ p \in User /\ UNCHANGED <<priority, frames>>
    BY Processes DEF ReceiveMessage, ResumeReceive, StoreHead, StoreTail
<1>2. CASE ReceiveMessage(p) /\ envs.head[p] = NULL
    <2> DEFINE st == [state EXCEPT ![p] = "BLK_ON_RCV"]
               q  == PCB_DEQ(pcbs, priority[p])
    <2>1. process_switch(st, q, "receive", "null_env")
        BY <1>2 DEF ReceiveMessage
    <2>2. st \in [User -> States]
        BY DEF TypeOK, States
    <2>3. ASSUME priority = Priority
          PROVE  Starved(st, q, NULL) /\ q \in Store(User, PcbQueue)
        <3>1. p = CCI /\ Starved(state, pcbs, CCI)
            BY <1>1, <2>3, Running, Processes DEF StarveInv, Client
        <3> QED
            BY <2>3, <3>1, LeaveStarved
    <2> HIDE DEF st, q
    <2> QED
        BY <1>1, <2>1, <2>2, <2>3, Switches
<1>3. CASE ~ (ReceiveMessage(p) /\ envs.head[p] = NULL)
    <2>1. UNCHANGED <<curr_process, state, pcbs>>
        BY <1>3 DEF ReceiveMessage, ResumeReceive, TakeMessage, StoreHead, StoreTail
    <2> QED
        BY <1>1, <2>1, Quiet DEF Interrupted
<1> QED
    BY <1>2, <1>3

LEMMA ReleaseProcessorStarved ==
    ASSUME TableOrder, TypeOK, StarveInv, NEW p \in User, ReleaseProcessor(p)
    PROVE  StarveInv'
<1> DEFINE st == [state EXCEPT ![p] = "READY"]
           q  == PCB_ENQ(pcbs, priority[p], p)
<1>1. /\ Runs(p) /\ UNCHANGED <<priority, frames>>
      /\ process_switch(st, q, "user", "none")
    BY DEF ReleaseProcessor
<1>2. st \in [User -> States]
    BY DEF TypeOK, States
<1>3. ASSUME priority = Priority
      PROVE  Starved(st, q, NULL) /\ q \in Store(User, PcbQueue)
    <2>1. p \in {CCI, C} /\ Starved(state, pcbs, p)
        BY <1>1, <1>3, Running DEF StarveInv
    <2> QED
        BY <1>3, <2>1, LeaveStarved
<1> HIDE DEF st, q
<1> QED
    BY <1>1, <1>2, <1>3, Switches

LEMMA ChangePriorityStarved ==
    ASSUME NeverRestored, TypeOK, StarveInv, NEW p, NEW l \in Level, NEW target \in User,
           ChangePriority(p, l, target)
    PROVE  StarveInv'
<1>1. /\ priority' = [priority EXCEPT ![target] = l] /\ <<l, target>> \in ChangesAllowed
      /\ priority \in [User -> Level]
    BY DEF ChangePriority, TypeOK
<1>2. Changed'
    BY <1>1 DEF StarveInv, Changed
<1>3. l # Priority[target]
    BY <1>1 DEF NeverRestored
<1>4. priority' # Priority
    BY <1>1, <1>3
<1> QED
    BY <1>2, <1>4 DEF StarveInv

(* While the CCI runs no process is blocked on an envelope.                *)
LEMMA CCIReleaseStarved ==
    ASSUME StarveInv, CCIRelease
    PROVE  StarveInv'
<1>1. /\ Runs(CCI) /\ k_release_msg_env(env[CCI])
      /\ UNCHANGED <<curr_process, priority, frames>>
    BY DEF CCIRelease
<1>2. CASE priority = Priority
    <2>1. Starved(state, pcbs, CCI)
        BY <1>1, <1>2, Running DEF StarveInv
    <2>2. pcbs.head[blocked_on_envelope] = NULL
        BY <2>1 DEF Starved
    <2>3. UNCHANGED <<state, pcbs>>
        BY <1>1, <2>2 DEF k_release_msg_env
    <2> QED
        BY <1>1, <2>3, Quiet DEF Interrupted
<1>3. CASE priority # Priority
    BY <1>1, <1>3 DEF StarveInv, Changed
<1> QED
    BY <1>2, <1>3

(* A message, of a program or of a handler.                                *)
LEMMA SendKeepsStarved ==
    ASSUME TableOrder, TypeOK, StarveInv, NEW dest_id, NEW e, k_send_message(dest_id, e),
           priority' = priority, Interrupted' = Interrupted
    PROVE  StarveInv'
BY SendStarved DEF StarveInv, Changed

-----------------------------------------------------------------------------
(* Handlers come and go on top of the process that was interrupted.        *)
LEMMA PushKeeps ==
    ASSUME RTXInv, NEW f, f \in Frame, f.interrupted = curr_process,
           frames' = Append(frames, f)
    PROVE  Interrupted' = Interrupted
<1>1. frames \in Seq(Frame) /\ Len(frames) \in Nat /\ (frames # <<>> => Len(frames) # 0)
    BY EmptySeq DEF RTXInv, Stack
<1>2. /\ Len(frames') = Len(frames) + 1 /\ frames' \in Seq(Frame)
      /\ frames'[Len(frames) + 1] = f
      /\ \A k \in 1 .. Len(frames) : frames'[k] = frames[k]
    BY <1>1, AppendProperties
<1>3. frames' # <<>>
    BY <1>1, <1>2
<1>4. CASE frames = <<>>
    BY <1>2, <1>3, <1>4 DEF Interrupted
<1>5. CASE frames # <<>>
    <2>1. 1 \in 1 .. Len(frames)
        BY <1>1, <1>5
    <2> QED
        BY <1>2, <1>3, <1>5, <2>1 DEF Interrupted
<1> QED
    BY <1>4, <1>5

LEMMA PopKeeps ==
    ASSUME RTXInv, frames # <<>>, curr_process' = Top.interrupted,
           frames' = SubSeq(frames, 1, Len(frames) - 1)
    PROVE  Interrupted' = Interrupted
<1>1. frames \in Seq(Frame) /\ Len(frames) \in Nat \ {0}
    BY EmptySeq DEF RTXInv, Stack
<1>2. /\ Len(frames') = Len(frames) - 1 /\ frames' \in Seq(Frame)
      /\ \A k \in 1 .. Len(frames) - 1 : frames'[k] = frames[k]
    BY <1>1, WithoutLast
<1>3. CASE Len(frames) = 1
    <2>1. frames' = <<>>
        BY <1>2, <1>3, EmptySeq
    <2> QED
        BY <1>3, <2>1 DEF Interrupted, Top
<1>4. CASE Len(frames) # 1
    <2>1. 1 \in 1 .. Len(frames) - 1
        <3>1. \A n \in Nat \ {0} : n # 1 => 1 \in 1 .. n - 1
            OBVIOUS
        <3> QED
            BY <1>1, <1>4, <3>1
    <2>2. Len(frames') # 0
        BY ONLY <1>1, <1>2, <1>4
    <2>3. frames' # <<>>
        BY <2>2
    <2> QED
        BY <1>2, <2>1, <2>3 DEF Interrupted
<1> QED
    BY <1>3, <1>4

LEMMA SetKeeps ==
    ASSUME RTXInv, frames # <<>>, curr_process' = curr_process,
           NEW x, frames' = [frames EXCEPT ![Len(frames)].env = x]
    PROVE  Interrupted' = Interrupted
<1>1. frames \in Seq(Frame) /\ Len(frames) \in Nat \ {0}
    BY EmptySeq DEF RTXInv, Stack
<1>2. 1 \in 1 .. Len(frames) /\ DOMAIN frames = 1 .. Len(frames)
    BY <1>1
<1>3. frames[1] \in Frame
    BY <1>1, <1>2, ElementOfSeq
<1>4. 1 \in DOMAIN frames'
    BY <1>2
<1>5. frames' # <<>>
    BY <1>4
<1>6. frames'[1] = frames[1] \/ frames'[1] = [frames[1] EXCEPT !.env = x]
    BY <1>2
<1>7. frames'[1].interrupted = frames[1].interrupted
    BY <1>3, <1>6 DEF Frame
<1> QED
    BY <1>5, <1>7 DEF Interrupted

LEMMA ProgramStarved ==
    ASSUME TableOrder, NeverRestored, RTXInv, StarveInv, Program
    PROVE  StarveInv'
<1>1. TypeOK
    BY DEF RTXInv, KernelInv
<1>2. ASSUME NEW p \in Client, NEW here, NEW next, Requests(p, here, next)
      PROVE  StarveInv'
    BY <1>1, <1>2, RequestEnvStarved DEF Requests
<1>3. ASSUME NEW p \in Client, NEW here, NEW dest_id, NEW next, Sends(p, here, dest_id, next)
      PROVE  StarveInv'
    <2>1. /\ k_send_message(dest_id, env[p]) /\ priority' = priority
          /\ UNCHANGED <<curr_process, frames>>
        BY <1>3 DEF Sends, SendMessage
    <2> QED
        BY <1>1, <2>1, SendKeepsStarved DEF Interrupted
<1>4. ASSUME NEW p \in Client, NEW next, Receives(p, next)
      PROVE  StarveInv'
    BY <1>1, <1>4, ReceiveStarved DEF Receives
<1>5. ASSUME NEW p \in Client, NEW next, Yields(p, next)
      PROVE  StarveInv'
    BY <1>1, <1>5, ReleaseProcessorStarved, Processes DEF Yields
<1>6. CASE CCIStep
    <2>1. CASE CCIFirst
        BY <1>1, <2>1, RequestEnvStarved, Processes DEF CCIFirst
    <2>2. CASE CCIReceive
        BY <1>4, <2>2, Processes DEF CCIReceive
    <2>3. CASE CCIClock
        BY <2>3, Quiet DEF CCIClock, vars, Interrupted
    <2>4. CASE CCIChange
        <3>1. PICK c \in ChangesAllowed : IF priority[c[2]] = c[1] THEN UNCHANGED vars
                                          ELSE ChangePriority(CCI, c[1], c[2])
            BY <2>4 DEF CCIChange
        <3>2. c[1] \in Level /\ c[2] \in User
            BY TableAssumption
        <3>3. CASE UNCHANGED vars
            BY <3>3, Quiet DEF vars, Interrupted
        <3>4. CASE ChangePriority(CCI, c[1], c[2])
            BY <1>1, <3>2, <3>4, ChangePriorityStarved
        <3> QED
            BY <3>1, <3>3, <3>4
    <2>5. CASE CCIRenew("s", "start") \/ CCIRenew("print", "print")
        BY <1>1, <2>5, RequestEnvStarved, Processes DEF CCIRenew
    <2>6. CASE CCIRelease
        BY <2>6, CCIReleaseStarved
    <2> QED
        BY <1>2, <1>3, <1>5, <1>6, <2>1, <2>2, <2>3, <2>4, <2>5, <2>6, Processes DEF CCIStep
<1>7. CASE AStep
    <2>1. CASE ADequeue
        BY <2>1, Quiet DEF ADequeue, StoreHead, StoreTail, Interrupted
    <2> QED
        BY <1>2, <1>3, <1>4, <1>5, <1>7, <2>1, Processes DEF AStep
<1>8. CASE BStep
    BY <1>3, <1>4, <1>5, <1>8, Processes DEF BStep
<1>9. CASE NullStep
    <2>1. PICK p \in NullProcs : NullDrain(p) \/ ReleaseProcessor(p)
        BY <1>9 DEF NullStep
    <2>2. CASE NullDrain(p)
        BY <2>2, Quiet DEF NullDrain, Interrupted
    <2>3. CASE ReleaseProcessor(p)
        BY <1>1, <2>3, ReleaseProcessorStarved, Processes
    <2> QED
        BY <2>1, <2>2, <2>3
<1> QED
    BY <1>6, <1>7, <1>8, <1>9 DEF Program

LEMMA HandlerStarved ==
    ASSUME TableOrder, RTXInv, StarveInv, HandlerStep
    PROVE  StarveInv'
<1>1. TypeOK
    BY DEF RTXInv, KernelInv
<1>2. CASE KbdTransfer \/ CrtTransfer
    <2>1. Reply
        BY <1>2 DEF KbdTransfer, CrtTransfer
    <2>2. /\ frames # <<>> /\ UNCHANGED <<curr_process, priority>>
          /\ k_send_message(sender_id[Top.env], Top.env)
          /\ frames' = [frames EXCEPT ![Len(frames)].env = NULL]
        BY <2>1 DEF Reply
    <2>3. Interrupted' = Interrupted
        BY <2>2, SetKeeps
    <2> QED
        BY <1>1, <2>2, <2>3, SendKeepsStarved
<1>3. CASE KbdDrop \/ CrtDrop \/ HandlerReturn
    <2>1. Return
        BY <1>3 DEF KbdDrop, CrtDrop, HandlerReturn
    <2>2. /\ frames # <<>> /\ UNCHANGED <<state, priority, pcbs>>
          /\ curr_process' = Top.interrupted
          /\ frames' = SubSeq(frames, 1, Len(frames) - 1)
        BY <2>1 DEF Return
    <2> QED
        BY <2>2, PopKeeps, Quiet
<1>4. CASE ClockRequest
    <2>1. frames # <<>> /\ UNCHANGED <<curr_process, state, priority, pcbs>>
        BY <1>4 DEF ClockRequest, Doing
    <2>2. CASE frames' = frames
        BY <2>1, <2>2, Quiet DEF Interrupted
    <2>3. CASE frames' # frames
        <3>1. frames' = [frames EXCEPT ![Len(frames)].env = envs.head[envelope_q]]
            BY <1>4, <2>3 DEF ClockRequest
        <3> QED
            BY <2>1, <3>1, SetKeeps, Quiet
    <2> QED
        BY <2>2, <2>3
<1>5. CASE ClockSend
    <2>1. /\ frames # <<>> /\ UNCHANGED <<curr_process, priority>>
          /\ k_send_message(1, Top.env)
          /\ frames' = [frames EXCEPT ![Len(frames)].env = NULL]
        BY <1>5 DEF ClockSend, Doing
    <2>2. Interrupted' = Interrupted
        BY <2>1, SetKeeps
    <2> QED
        BY <1>1, <2>1, <2>2, SendKeepsStarved
<1>6. CASE TimerReceive
    <2>1. /\ frames # <<>> /\ UNCHANGED <<curr_process, state, priority, pcbs>>
          /\ frames' = [frames EXCEPT ![Len(frames)].env = envs.head[2]]
        BY <1>6 DEF TimerReceive, Doing
    <2> QED
        BY <2>1, SetKeeps, Quiet
<1> QED
    BY <1>2, <1>3, <1>4, <1>5, <1>6 DEF HandlerStep

LEMMA SignalStarved ==
    ASSUME RTXInv, StarveInv, Signal
    PROVE  StarveInv'
<1>1. /\ \A i \in Iproc, e \in Env \cup {NULL} :
            [ pid |-> i, interrupted |-> curr_process, env |-> e ] \in Frame
      /\ \A q \in EnvQueue : envs.head[q] \in Env \cup {NULL}
      /\ 0 \in EnvQueue /\ 1 \in EnvQueue /\ 0 \in Iproc /\ 1 \in Iproc /\ 2 \in Iproc
    BY Processes, Domains DEF Frame, RTXInv, KernelInv, TypeOK, Store
<1>2. ASSUME NEW i \in {0, 1}, Interrupt(i)
      PROVE  StarveInv'
    <2> DEFINE f == [ pid |-> i, interrupted |-> curr_process, env |-> envs.head[i] ]
    <2>1. f \in Frame /\ f.interrupted = curr_process
        BY <1>1
    <2>2. frames' = Append(frames, f) /\ UNCHANGED <<state, priority, pcbs>>
        BY <1>2 DEF Interrupt
    <2> HIDE DEF f
    <2> QED
        BY <2>1, <2>2, PushKeeps, Quiet
<1>3. CASE TimerSignal
    <2> DEFINE f == [ pid |-> 2, interrupted |-> curr_process, env |-> NULL ]
    <2>1. f \in Frame /\ f.interrupted = curr_process
        BY <1>1
    <2>2. frames' = Append(frames, f) /\ UNCHANGED <<state, priority, pcbs>>
        BY <1>3 DEF TimerSignal
    <2> HIDE DEF f
    <2> QED
        BY <2>1, <2>2, PushKeeps, Quiet
<1> QED
    BY <1>2, <1>3 DEF Signal, KbdSignal, CrtSignal

LEMMA NextStarveInv ==
    ASSUME TableOrder, NeverRestored
    PROVE  RTXInv /\ StarveInv /\ [RTXNext]_all => StarveInv'
<1> SUFFICES ASSUME RTXInv, StarveInv, [RTXNext]_all
             PROVE  StarveInv'
    OBVIOUS
<1>1. CASE Program
    BY <1>1, ProgramStarved
<1>2. CASE HandlerStep
    BY <1>2, HandlerStarved
<1>3. CASE Signal
    BY <1>3, SignalStarved
<1>4. CASE UNCHANGED vars
    BY <1>4, Quiet DEF vars, Interrupted
<1>5. CASE SendsNowhere
    BY <1>5, Quiet DEF SendsNowhere, SendFaults, Interrupted
<1> QED
    BY <1>1, <1>2, <1>3, <1>4, <1>5 DEF RTXNext, Type, all

(* As long as the priorities are those of the table, only the CCI and      *)
(* process 5 get the processor, whatever is typed, printed or interrupted, *)
(* and however many envelopes there are: null_process at level 1 is always *)
(* ready, and processes A and B and process 7 never run.                   *)
THEOREM OnlyTwoProcessesRun ==
    ASSUME TableOrder, NeverRestored
    PROVE  RTXSpec => []LowLevelsStarve
<1>1. RTXInit => StarveInv
    BY InitStarveInv
<1>2. RTXInv /\ StarveInv /\ [RTXNext]_all => StarveInv'
    BY NextStarveInv
<1>3. StarveInv => LowLevelsStarve
    BY DEF StarveInv, LowLevelsStarve
<1> QED
    BY <1>1, <1>2, <1>3, RTXInvariant, PTL DEF RTXSpec

-----------------------------------------------------------------------------
(* What an envelope costs.                                                 *)

(* The sequences b and c of envelopes that the pool and the queue of       *)
(* crt_iproc spell, and the others: k is the envelope of the console, x    *)
(* the one that is in the pool and on its way to the CRT as well, z the    *)
(* one with the second the timer displays, w the one the CCI never uses.   *)
(* D holds the envelopes that are on their way to the timer, or cut off.   *)
Chained(p, b) == \A i \in 1 .. Len(b) - 1 : p[b[i]] = b[i + 1]

(* envelope_q spells b; only the link of x, which is on another queue as   *)
(* well, may lead out of it.                                               *)
Pool(s, b, x) ==
    /\ b = <<>> <=> s.head[envelope_q] = NULL
    /\ b # <<>> => /\ s.head[envelope_q] = b[1]
                   /\ s.tail[envelope_q] = b[Len(b)]
                   /\ s.p[b[Len(b)]] = NULL \/ b[Len(b)] = x
    /\ Chained(s.p, b)

(* Behind x the queue may be cut, by an enqueue of x in the pool, with its *)
(* tail still where it was.                                                *)
Screen(s, c, D, x) ==
    /\ c = <<>> <=> s.head[1] = NULL
    /\ c # <<>> => /\ s.head[1] = c[1]
                   /\ s.p[c[Len(c)]] = NULL
                   /\ s.tail[1] = c[Len(c)] \/ (c[Len(c)] = x /\ s.tail[1] \in D)
    /\ Chained(s.p, c)

(* The links of D stay in D, and the queue of timer_iproc is in it.        *)
Downstream(s, D) ==
    /\ \A d \in D : s.p[d] \in D \cup {NULL}
    /\ s.head[2] \in D \cup {NULL}
    /\ s.head[2] # NULL => s.tail[2] \in D

(* Nothing is linked behind k and z, nor behind x once it is off the queue *)
(* of crt_iproc.                                                           *)
Single(p, c, k, x, z) ==
    /\ k # NULL /\ k # x => p[k] = NULL
    /\ z # NULL /\ z # x => p[z] = NULL
    /\ x # NULL /\ (\A i \in 1 .. Len(c) : c[i] # x) => p[x] = NULL

(* Each envelope has one place, but for x, the last of the pool and        *)
(* somewhere on the queue of crt_iproc.                                    *)
Separate(b, c, D, k, x, z, w) ==
    /\ \A i, j \in 1 .. Len(b) : b[i] = b[j] => i = j
    /\ \A i, j \in 1 .. Len(c) : c[i] = c[j] => i = j
    /\ \A i \in 1 .. Len(b) : b[i] \notin D /\ b[i] \notin {k, z, w}
    /\ \A i \in 1 .. Len(b) : b[i] = x => i = Len(b)
    /\ \A i \in 1 .. Len(c) : c[i] \notin D /\ c[i] # w
    /\ \A i \in 1 .. Len(c) : c[i] \in {k, z} => c[i] = x
    /\ \A i \in 1 .. Len(b), j \in 1 .. Len(c) : b[i] = c[j] => b[i] = x
    /\ k \notin D /\ x \notin D /\ z \notin D /\ w \notin D
    /\ k # w /\ x # w /\ z # w
    /\ k # NULL => k # z

(* The envelope queues of s.  If the timer has x in its hands, and with it *)
(* the end of the pool, the pool is not described until the second has     *)
(* been displayed.                                                         *)
Threads(s, b, c, D, k, x, z, w) ==
    /\ IF z # NULL /\ z = x THEN b = <<>> ELSE Pool(s, b, x)
    /\ Screen(s, c, D, x)
    /\ Downstream(s, D)
    /\ Single(s.p, c, k, x, z)
    /\ Separate(b, c, D, k, x, z, w)

(* The queues that the programs and the handlers name are different.       *)
LEMMA Queues ==
    /\ envelope_q \in EnvQueue /\ 0 \in EnvQueue /\ 1 \in EnvQueue /\ 2 \in EnvQueue
    /\ A \in EnvQueue /\ B \in EnvQueue /\ CCI \in EnvQueue /\ NULLPID \in EnvQueue
    /\ PID \subseteq EnvQueue /\ envelope_q \notin PID
    /\ \A q \in {0, 1, 2} : q # envelope_q /\ q # A /\ q # B /\ q # CCI /\ q # NULLPID
    /\ \A q \in {A, B, CCI, NULLPID} : q # envelope_q
    /\ A # B /\ A # CCI /\ B # CCI /\ A # NULLPID /\ B # NULLPID /\ CCI # NULLPID
    /\ NULL \notin Env /\ NULL \notin Nat
<1>1. /\ envelope_q \in EnvQueue /\ PID \subseteq EnvQueue /\ envelope_q \notin PID
      /\ NULL \notin Env /\ NULL \notin Nat
    BY SizeAssumption, NullAssumption DEF EnvQueue, PID, envelope_q, Env
<1>2. /\ 0 \in PID /\ 1 \in PID /\ 2 \in PID
      /\ \A q \in {0, 1, 2} : q \in Iproc
      /\ A \in Client /\ B \in Client /\ CCI \in Client
      /\ Client \subseteq User /\ User \subseteq PID
    BY Processes
<1>3. NULLPID \in User /\ NULLPID \notin Client
    BY TableAssumption DEF Client
<1>4. \A q \in Iproc : q \notin User
    BY SizeAssumption DEF Iproc, User
<1>5. A # B
    BY DEF A, B
<1> QED
    BY <1>1, <1>2, <1>3, <1>4, <1>5, Processes

(* What env_DEQ does to the heads, the tails and the links.                *)
LEMMA AfterDEQ ==
    ASSUME NEW s \in Store(Env, EnvQueue), NEW q \in EnvQueue, NEW e, s.head[q] = e, e # NULL
    PROVE  /\ e \in Env /\ env_DEQ(s, q) \in Store(Env, EnvQueue)
           /\ env_DEQ(s, q).p[e] = NULL
           /\ \A n \in Env : n # e => env_DEQ(s, q).p[n] = s.p[n]
           /\ env_DEQ(s, q).head[q] = s.p[e]
           /\ \A r \in EnvQueue : r # q => env_DEQ(s, q).head[r] = s.head[r]
           /\ env_DEQ(s, q).tail[q] = IF s.p[e] = NULL THEN NULL ELSE s.tail[q]
           /\ \A r \in EnvQueue : r # q => env_DEQ(s, q).tail[r] = s.tail[r]
<1>1. e \in Env /\ e \in DOMAIN s.p
    BY DEF Store
<1>2. env_DEQ(s, q) \in Store(Env, EnvQueue)
    BY Domains, DEQType
<1>3. env_DEQ(s, q) = [s EXCEPT !.head[q] = s.p[e],
                                !.tail[q] = IF s.p[e] = NULL THEN NULL ELSE @,
                                !.p[e] = NULL]
    BY DEF env_DEQ
<1> QED
    BY <1>1, <1>2, <1>3 DEF Store

(* What env_ENQ does to them.                                              *)
LEMMA AfterENQ ==
    ASSUME NEW s \in Store(Env, EnvQueue), NEW q \in EnvQueue, NEW e \in Env
    PROVE  /\ env_ENQ(s, q, e) \in Store(Env, EnvQueue)
           /\ env_ENQ(s, q, e).tail[q] = e
           /\ \A r \in EnvQueue : r # q => /\ env_ENQ(s, q, e).head[r] = s.head[r]
                                           /\ env_ENQ(s, q, e).tail[r] = s.tail[r]
           /\ s.head[q] = NULL => env_ENQ(s, q, e).head[q] = e /\ env_ENQ(s, q, e).p = s.p
           /\ s.head[q] # NULL =>
                 /\ env_ENQ(s, q, e).head[q] = s.head[q]
                 /\ env_ENQ(s, q, e).p[e] = NULL
                 /\ s.tail[q] # e /\ s.tail[q] \in Env => env_ENQ(s, q, e).p[s.tail[q]] = e
                 /\ \A n \in Env : n # e /\ n # s.tail[q] => env_ENQ(s, q, e).p[n] = s.p[n]
<1>1. env_ENQ(s, q, e) \in Store(Env, EnvQueue)
    BY Domains, ENQType
<1>2. CASE s.head[q] = NULL
    <2>1. env_ENQ(s, q, e) = [s EXCEPT !.head[q] = e, !.tail[q] = e]
        BY <1>2, Domains DEF env_ENQ, PCB_ENQ
    <2> QED
        BY <1>1, <1>2, <2>1 DEF Store
<1>3. CASE s.head[q] # NULL
    <2>1. env_ENQ(s, q, e) = [s EXCEPT !.p = [@ EXCEPT ![s.tail[q]] = e, ![e] = NULL],
                                       !.tail[q] = e]
        BY <1>3, Domains DEF env_ENQ, PCB_ENQ
    <2> QED
        BY <1>1, <1>3, <2>1 DEF Store
<1> QED
    BY <1>2, <1>3

(* Sequences of envelopes.                                                 *)
LEMMA EnvSeq ==
    ASSUME NEW b \in Seq(Env)
    PROVE  /\ Len(b) \in Nat /\ (b = <<>> <=> Len(b) = 0)
           /\ \A i \in 1 .. Len(b) : b[i] \in Env /\ b[i] # NULL
           /\ b # <<>> => 1 \in 1 .. Len(b) /\ Len(b) \in 1 .. Len(b)
<1>1. Len(b) \in Nat /\ (b = <<>> <=> Len(b) = 0)
    BY EmptySeq
<1>2. \A i \in 1 .. Len(b) : b[i] \in Env
    BY ElementOfSeq
<1> QED
    BY <1>1, <1>2, Domains

(* Sequences of envelopes.                                                 *)
LEMMA EnvTail ==
    ASSUME NEW b \in Seq(Env), b # <<>>
    PROVE  /\ Tail(b) \in Seq(Env) /\ Len(Tail(b)) = Len(b) - 1
           /\ \A i \in 1 .. Len(b) - 1 : Tail(b)[i] = b[i + 1]
           /\ (Tail(b) = <<>> <=> Len(b) = 1)
<1>1. Tail(b) \in Seq(Env) /\ Len(Tail(b)) = Len(b) - 1
      /\ \A i \in 1 .. Len(b) - 1 : Tail(b)[i] = b[i + 1]
    BY HeadTailProperties
<1>2. Tail(b) = <<>> <=> Len(Tail(b)) = 0
    BY <1>1, EmptySeq
<1> QED
    BY <1>1, <1>2, EnvSeq

LEMMA EnvAppend ==
    ASSUME NEW b \in Seq(Env), NEW e \in Env
    PROVE  /\ Append(b, e) \in Seq(Env) /\ Len(Append(b, e)) = Len(b) + 1
           /\ \A i \in 1 .. Len(b) : Append(b, e)[i] = b[i]
           /\ Append(b, e)[Len(b) + 1] = e
           /\ Append(b, e) # <<>>
<1>1. Append(b, e) \in Seq(Env) /\ Len(Append(b, e)) = Len(b) + 1
      /\ (\A i \in 1 .. Len(b) : Append(b, e)[i] = b[i])
      /\ Append(b, e)[Len(b) + 1] = e
    BY AppendProperties
<1> QED
    BY <1>1, EnvSeq

(* A sequence of two or more: its first and its last are different places. *)
LEMMA TwoOrMore ==
    ASSUME NEW n \in Nat, 1 \in 1 .. n, n # 1
    PROVE  1 \in 1 .. n - 1 /\ n - 1 \in 1 .. n - 1 /\ 1 + 1 = 2 /\ n - 1 + 1 = n
OBVIOUS

-----------------------------------------------------------------------------
(* Steps on the three queues: the pool, that of crt_iproc and that of      *)
(* timer_iproc.                                                            *)

(* The CCI, or the timer, takes the first envelope of the pool.            *)
LEMMA PoolTake ==
    ASSUME NEW s \in Store(Env, EnvQueue), NEW b \in Seq(Env), NEW c \in Seq(Env),
           NEW D \in SUBSET Env, NEW k \in Env \cup {NULL}, NEW x \in Env \cup {NULL},
           NEW w, w # NULL, Threads(s, b, c, D, k, x, NULL, w), b # <<>>, b[1] # x
    PROVE  /\ s.head[envelope_q] = b[1]
           /\ Threads(env_DEQ(s, envelope_q), Tail(b), c, D, b[1], x, NULL, w)
           /\ Threads(env_DEQ(s, envelope_q), Tail(b), c, D, k, x, b[1], w)
<1> DEFINE e  == b[1]
           t  == Tail(b)
           s1 == env_DEQ(s, envelope_q)
<1>1. /\ Len(b) \in Nat /\ 1 \in 1 .. Len(b) /\ Len(b) \in 1 .. Len(b)
      /\ \A i \in 1 .. Len(b) : b[i] \in Env /\ b[i] # NULL
      /\ \A i \in 1 .. Len(b) - 1 : i \in 1 .. Len(b) /\ i + 1 \in 1 .. Len(b) /\ i + 1 # 1
    BY EnvSeq
<1>2. /\ Len(c) \in Nat /\ (c = <<>> <=> Len(c) = 0)
      /\ \A i \in 1 .. Len(c) : c[i] \in Env /\ c[i] # NULL
      /\ c # <<>> => Len(c) \in 1 .. Len(c) /\ 1 \in 1 .. Len(c)
      /\ \A i \in 1 .. Len(c) - 1 : i \in 1 .. Len(c) /\ i + 1 \in 1 .. Len(c)
    BY EnvSeq
<1>3. /\ t \in Seq(Env) /\ Len(t) = Len(b) - 1 /\ (t = <<>> <=> Len(b) = 1)
      /\ \A i \in 1 .. Len(b) - 1 : t[i] = b[i + 1]
    BY EnvTail
<1>4. Pool(s, b, x) /\ Screen(s, c, D, x) /\ Downstream(s, D) /\ Single(s.p, c, k, x, NULL)
    BY DEF Threads
<1>5. Separate(b, c, D, k, x, NULL, w)
    BY DEF Threads
<1>6. s.head[envelope_q] = e /\ e \in Env /\ e # NULL
    BY <1>1, <1>4 DEF Pool
<1>7. /\ e \notin D /\ e # k /\ e # w /\ e # x
      /\ \A i \in 1 .. Len(c) : c[i] # e
      /\ \A i \in 1 .. Len(b) - 1 : b[i + 1] # e
    BY <1>1, <1>5 DEF Separate
<1>8. s.p[e] = IF Len(b) = 1 THEN NULL ELSE b[2]
    <2>1. CASE Len(b) = 1
        BY <1>4, <1>7, <2>1 DEF Pool
    <2>2. CASE Len(b) # 1
        <3>1. 1 \in 1 .. Len(b) - 1
            BY <1>1, <2>2, TwoOrMore
        <3> QED
            BY <1>4, <2>2, <3>1 DEF Pool, Chained
    <2> QED
        BY <2>1, <2>2
<1>9. /\ s1 \in Store(Env, EnvQueue) /\ s1.p[e] = NULL
      /\ \A n \in Env : n # e => s1.p[n] = s.p[n]
      /\ s1.head[envelope_q] = s.p[e]
      /\ s1.tail[envelope_q] = IF s.p[e] = NULL THEN NULL ELSE s.tail[envelope_q]
      /\ \A r \in EnvQueue : r # envelope_q => s1.head[r] = s.head[r] /\ s1.tail[r] = s.tail[r]
    BY <1>6, AfterDEQ, Queues
<1>10. s1.head[1] = s.head[1] /\ s1.tail[1] = s.tail[1] /\ s1.head[2] = s.head[2] /\ s1.tail[2] = s.tail[2]
    BY <1>9, Queues
<1> HIDE DEF e, t, s1
<1>11. Pool(s1, t, x)
    <2>1. CASE Len(b) = 1
        <3>1. t = <<>> /\ s1.head[envelope_q] = NULL /\ Len(t) = 0
            BY <1>3, <1>8, <1>9, <2>1
        <3> QED
            BY <3>1 DEF Pool, Chained
    <2>2. CASE Len(b) # 1
        <3>1. /\ 1 \in 1 .. Len(b) - 1 /\ Len(b) - 1 \in 1 .. Len(b) - 1
              /\ 1 + 1 = 2 /\ Len(b) - 1 + 1 = Len(b)
            BY <1>1, <2>2, TwoOrMore
        <3>2. t[1] = b[2] /\ t[Len(t)] = b[Len(b)] /\ b[2] # NULL /\ t # <<>>
            BY <1>1, <1>3, <2>2, <3>1
        <3>3. s1.p[b[Len(b)]] = s.p[b[Len(b)]]
            BY <1>1, <1>7, <1>9, <3>1
        <3>4. Chained(s1.p, t)
            <4>1. ASSUME NEW i \in 1 .. Len(t) - 1
                  PROVE  s1.p[t[i]] = t[i + 1]
                <5>1. i \in 1 .. Len(b) - 1 /\ i + 1 \in 1 .. Len(b) - 1
                    BY <1>1, <1>3
                <5>2. t[i] = b[i + 1] /\ t[i + 1] = b[i + 1 + 1] /\ b[i + 1] \in Env /\ b[i + 1] # e
                    BY <1>1, <1>3, <1>7, <5>1
                <5>3. s.p[b[i + 1]] = b[i + 1 + 1]
                    BY <1>4, <5>1 DEF Pool, Chained
                <5> QED
                    BY <1>9, <5>2, <5>3
            <4> QED
                BY <4>1 DEF Chained
        <3> QED
            BY <1>4, <1>8, <1>9, <2>2, <3>2, <3>3, <3>4 DEF Pool
    <2> QED
        BY <2>1, <2>2
<1>12. Screen(s1, c, D, x)
    <2>1. \A i \in 1 .. Len(c) : s1.p[c[i]] = s.p[c[i]]
        BY <1>2, <1>7, <1>9
    <2>2. Chained(s1.p, c)
        BY <1>2, <1>4, <2>1 DEF Screen, Chained
    <2> QED
        BY <1>2, <1>4, <1>10, <2>1, <2>2 DEF Screen
<1>13. Downstream(s1, D)
    <2>1. \A d \in D : s1.p[d] = s.p[d]
        BY <1>7, <1>9
    <2> QED
        BY <1>4, <1>10, <2>1 DEF Downstream
<1>14. Single(s1.p, c, e, x, NULL) /\ Single(s1.p, c, k, x, e)
    BY <1>4, <1>6, <1>7, <1>9 DEF Single
<1>15. Separate(t, c, D, e, x, NULL, w) /\ Separate(t, c, D, k, x, e, w)
    <2>1. \A i \in 1 .. Len(t) : i \in 1 .. Len(b) - 1 /\ i + 1 \in 1 .. Len(b) /\ t[i] = b[i + 1]
        BY <1>1, <1>3
    <2>2. \A i, j \in 1 .. Len(t) : t[i] = t[j] => i = j
        <3> SUFFICES ASSUME NEW i \in 1 .. Len(t), NEW j \in 1 .. Len(t), t[i] = t[j]
                     PROVE  i = j
            OBVIOUS
        <3>1. i + 1 = j + 1
            BY <1>5, <2>1 DEF Separate
        <3> QED
            BY <1>1, <1>3, <3>1
    <2>3. \A i \in 1 .. Len(t) : t[i] \notin D /\ t[i] \notin {k, e, w, NULL}
        BY <1>1, <1>5, <1>7, <2>1 DEF Separate
    <2>4. \A i \in 1 .. Len(t) : t[i] = x => i = Len(t)
        <3> SUFFICES ASSUME NEW i \in 1 .. Len(t), t[i] = x
                     PROVE  i = Len(t)
            OBVIOUS
        <3>1. i + 1 = Len(b)
            BY <1>5, <2>1 DEF Separate
        <3> QED
            BY <1>1, <1>3, <3>1
    <2>5. \A i \in 1 .. Len(t), j \in 1 .. Len(c) : t[i] = c[j] => t[i] = x
        BY <1>5, <2>1 DEF Separate
    <2>6. /\ \A i \in 1 .. Len(c) : c[i] \in {e, NULL} => c[i] = x
          /\ \A i \in 1 .. Len(c) : c[i] \in {k, e} => c[i] = x
        BY <1>2, <1>5, <1>7 DEF Separate
    <2>7. NULL \notin D
        BY Queues
    <2> QED
        BY <1>5, <1>6, <1>7, <2>2, <2>3, <2>4, <2>5, <2>6, <2>7 DEF Separate
<1> QED
    BY <1>6, <1>11, <1>12, <1>13, <1>14, <1>15 DEF Threads, e, t, s1

(* What happens to the queue of crt_iproc when the link of x is cleared.   *)
Remains(c, D, x, c1, D1) ==
    /\ D \subseteq D1
    /\ \A d \in D1 : d \in D \/ \E i \in 1 .. Len(c) : d = c[i] /\ d # x
    /\ \A i \in 1 .. Len(c1) : i \in 1 .. Len(c) /\ c1[i] = c[i] /\ c1[i] \notin D1
    /\ (\E i \in 1 .. Len(c) : c[i] = x) => (\E i \in 1 .. Len(c1) : c1[i] = x)

(* The part of the queue up to x remains, the rest joins D.                *)
LEMMA Cut ==
    ASSUME NEW s \in Store(Env, EnvQueue), NEW s1 \in Store(Env, EnvQueue),
           NEW c \in Seq(Env), NEW D \in SUBSET Env, NEW x \in Env,
           Screen(s, c, D, x), Downstream(s, D), x \notin D,
           \A i, j \in 1 .. Len(c) : c[i] = c[j] => i = j,
           \A i \in 1 .. Len(c) : c[i] \notin D,
           s1.p[x] = NULL,
           \A i \in 1 .. Len(c) : c[i] # x => s1.p[c[i]] = s.p[c[i]],
           \A d \in D : s1.p[d] = s.p[d],
           s1.head[1] = s.head[1], s1.tail[1] = s.tail[1],
           s1.head[2] = s.head[2], s1.tail[2] = s.tail[2]
    PROVE  \E c1 \in Seq(Env), D1 \in SUBSET Env :
              Screen(s1, c1, D1, x) /\ Downstream(s1, D1) /\ Remains(c, D, x, c1, D1)
<1>1. /\ Len(c) \in Nat /\ (c = <<>> <=> Len(c) = 0)
      /\ \A i \in 1 .. Len(c) : c[i] \in Env /\ c[i] # NULL
      /\ c # <<>> => Len(c) \in 1 .. Len(c) /\ 1 \in 1 .. Len(c)
      /\ \A i \in 1 .. Len(c) - 1 : i \in 1 .. Len(c) /\ i + 1 \in 1 .. Len(c)
    BY EnvSeq
<1>2. CASE \A i \in 1 .. Len(c) : c[i] # x
    <2>1. \A i \in 1 .. Len(c) : s1.p[c[i]] = s.p[c[i]]
        BY <1>2
    <2>2. Chained(s1.p, c)
        BY <1>1, <2>1 DEF Screen, Chained
    <2>3. Screen(s1, c, D, x)
        BY <1>1, <2>1, <2>2 DEF Screen
    <2>4. Downstream(s1, D)
        BY DEF Downstream
    <2>5. Remains(c, D, x, c, D)
        BY <1>2 DEF Remains
    <2> QED
        BY <2>3, <2>4, <2>5
<1>3. CASE \E i \in 1 .. Len(c) : c[i] = x
    <2>1. PICK n \in 1 .. Len(c) : c[n] = x
        BY <1>3
    <2> DEFINE c1 == SubSeq(c, 1, n)
               D1 == D \cup { c[i] : i \in n + 1 .. Len(c) }
    <2>2. n \in Nat /\ n >= 1 /\ n <= Len(c) /\ 1 \in 1 .. n /\ n \in 1 .. n
        BY <1>1, <2>1
    <2>3. /\ c1 \in Seq(Env) /\ Len(c1) = n /\ c1 # <<>>
          /\ \A i \in 1 .. n : c1[i] = c[i] /\ i \in 1 .. Len(c)
        <3>1. \A i \in 1 .. n : i \in 1 .. Len(c) /\ c[i] \in Env
            BY <1>1, <2>2
        <3>2. c1 \in Seq(Env) /\ Len(c1) = n /\ \A i \in 1 .. n : c1[i] = c[i]
            BY <1>1, <2>2, <3>1, SubSeqProperties
        <3> QED
            BY <2>2, <3>1, <3>2, EmptySeq
    <2>4. /\ D1 \in SUBSET Env /\ D \subseteq D1
          /\ \A i \in n + 1 .. Len(c) : i \in 1 .. Len(c) /\ c[i] \in D1
          /\ \A d \in D1 : d \in D \/ \E i \in n + 1 .. Len(c) : d = c[i]
        BY <1>1, <2>2
    <2> HIDE DEF c1, D1
    <2>5. \A i \in n + 1 .. Len(c) : i # n /\ c[i] # x
        <3> SUFFICES ASSUME NEW i \in n + 1 .. Len(c)
                     PROVE  i # n /\ c[i] # x
            OBVIOUS
        <3>1. i # n /\ i \in 1 .. Len(c)
            BY <1>1, <2>2
        <3> QED
            BY <2>1, <3>1
    <2>6. \A i \in 1 .. n : i = n \/ (i \in 1 .. Len(c) - 1 /\ c[i] # x /\ i + 1 \in 1 .. n)
        <3> SUFFICES ASSUME NEW i \in 1 .. n, i # n
                     PROVE  i \in 1 .. Len(c) - 1 /\ c[i] # x /\ i + 1 \in 1 .. n
            OBVIOUS
        <3>1. i \in 1 .. Len(c) - 1 /\ i \in 1 .. Len(c) /\ i + 1 \in 1 .. n
            BY <1>1, <2>2
        <3> QED
            BY <2>1, <3>1
    <2>7. Screen(s1, c1, D1, x)
        <3>1. s1.head[1] = c1[1] /\ c1[n] = x /\ s1.p[c1[n]] = NULL
            BY <1>1, <2>1, <2>2, <2>3 DEF Screen
        <3>2. s1.tail[1] = x \/ s1.tail[1] \in D1
            <4>1. CASE n = Len(c)
                BY <1>1, <2>1, <2>4, <4>1 DEF Screen
            <4>2. CASE n # Len(c)
                <5>1. Len(c) \in n + 1 .. Len(c) /\ c # <<>>
                    BY <1>1, <2>2, <4>2
                <5>2. c[Len(c)] # x /\ c[Len(c)] \in D1
                    BY <2>4, <2>5, <5>1
                <5> QED
                    BY <5>1, <5>2 DEF Screen
            <4> QED
                BY <4>1, <4>2
        <3>3. Chained(s1.p, c1)
            <4>1. ASSUME NEW i \in 1 .. n - 1
                  PROVE  s1.p[c1[i]] = c1[i + 1]
                <5>1. i \in 1 .. n /\ i # n /\ i + 1 \in 1 .. n
                    BY <2>2
                <5>2. i \in 1 .. Len(c) - 1 /\ c[i] # x
                    BY <2>6, <5>1
                <5>3. s.p[c[i]] = c[i + 1] /\ s1.p[c[i]] = s.p[c[i]]
                    BY <1>1, <5>2 DEF Screen, Chained
                <5> QED
                    BY <2>3, <5>1, <5>3
            <4> QED
                BY <2>3, <4>1 DEF Chained
        <3>4. \A i \in 1 .. n : c1[i] # NULL
            BY <1>1, <2>3
        <3>5. s1.head[1] # NULL
            BY <2>2, <3>1, <3>4
        <3> QED
            BY <2>3, <3>1, <3>2, <3>3, <3>5 DEF Screen
    <2>8. Downstream(s1, D1)
        <3>1. ASSUME NEW i \in n + 1 .. Len(c)
              PROVE  s1.p[c[i]] \in D1 \cup {NULL}
            <4>1. s1.p[c[i]] = s.p[c[i]] /\ c # <<>> /\ i \in 1 .. Len(c)
                BY <1>1, <2>4, <2>5
            <4>2. CASE i = Len(c)
                BY <4>1, <4>2 DEF Screen
            <4>3. CASE i # Len(c)
                <5>1. i \in 1 .. Len(c) - 1 /\ i + 1 \in n + 1 .. Len(c)
                    BY <1>1, <2>2, <4>3
                <5> QED
                    BY <2>4, <4>1, <5>1 DEF Screen, Chained
            <4> QED
                BY <4>2, <4>3
        <3>2. \A d \in D : s1.p[d] \in D \cup {NULL}
            BY DEF Downstream
        <3> QED
            BY <2>4, <3>1, <3>2 DEF Downstream
    <2>9. Remains(c, D, x, c1, D1)
        <3>1. \A i \in 1 .. n : c1[i] \notin D1
            <4> SUFFICES ASSUME NEW i \in 1 .. n, c1[i] \in D1
                         PROVE  FALSE
                OBVIOUS
            <4>1. PICK j \in n + 1 .. Len(c) : c[i] = c[j]
                BY <2>3, <2>4
            <4>2. i = j
                BY <2>3, <2>4, <4>1
            <4> QED
                BY <1>1, <2>2, <4>2
        <3>2. \A d \in D1 : d \in D \/ \E i \in 1 .. Len(c) : d = c[i] /\ d # x
            BY <2>4, <2>5
        <3>3. \E i \in 1 .. n : c1[i] = x
            BY <2>1, <2>2, <2>3
        <3> QED
            BY <2>3, <2>4, <3>1, <3>2, <3>3 DEF Remains
    <2> QED
        BY <2>3, <2>4, <2>7, <2>8, <2>9
<1> QED
    BY <1>2, <1>3

(* The timer takes x itself, the last envelope of the pool: what follows   *)
(* it on the queue of crt_iproc becomes the pool, which is left alone      *)
(* until the second has been displayed.                                    *)
LEMMA PoolTakeText ==
    ASSUME NEW s \in Store(Env, EnvQueue), NEW b \in Seq(Env), NEW c \in Seq(Env),
           NEW D \in SUBSET Env, NEW k \in Env \cup {NULL}, NEW x \in Env,
           NEW w, w # NULL, Threads(s, b, c, D, k, x, NULL, w), b # <<>>, b[1] = x
    PROVE  /\ s.head[envelope_q] = x /\ Len(b) = 1
           /\ \E c1 \in Seq(Env), D1 \in SUBSET Env :
                 /\ Threads(env_DEQ(s, envelope_q), <<>>, c1, D1, k, x, x, w)
                 /\ Remains(c, D, x, c1, D1)
<1> DEFINE s1 == env_DEQ(s, envelope_q)
<1>1. Len(b) \in Nat /\ 1 \in 1 .. Len(b) /\ x # NULL
    BY EnvSeq, Queues
<1>2. \A i \in 1 .. Len(c) : c[i] \in Env /\ c[i] # NULL
    BY EnvSeq
<1>3. Pool(s, b, x) /\ Screen(s, c, D, x) /\ Downstream(s, D) /\ Single(s.p, c, k, x, NULL)
    BY <1>1 DEF Threads
<1>4. Separate(b, c, D, k, x, NULL, w)
    BY DEF Threads
<1>5. s.head[envelope_q] = x
    BY <1>3 DEF Pool
<1>6. Len(b) = 1
    BY <1>1, <1>4 DEF Separate
<1>7. x # k /\ x # w /\ x \notin D
    BY <1>1, <1>4 DEF Separate
<1>8. /\ s1 \in Store(Env, EnvQueue) /\ s1.p[x] = NULL
      /\ \A n \in Env : n # x => s1.p[n] = s.p[n]
      /\ \A r \in EnvQueue : r # envelope_q => s1.head[r] = s.head[r] /\ s1.tail[r] = s.tail[r]
    BY <1>1, <1>5, AfterDEQ, Queues
<1>9. s1.head[1] = s.head[1] /\ s1.tail[1] = s.tail[1] /\ s1.head[2] = s.head[2] /\ s1.tail[2] = s.tail[2]
    BY <1>8, Queues
<1> HIDE DEF s1
<1>10. PICK c1 \in Seq(Env), D1 \in SUBSET Env :
              Screen(s1, c1, D1, x) /\ Downstream(s1, D1) /\ Remains(c, D, x, c1, D1)
    <2>1. /\ \A i, j \in 1 .. Len(c) : c[i] = c[j] => i = j
          /\ \A i \in 1 .. Len(c) : c[i] \notin D
        BY <1>4 DEF Separate
    <2>2. /\ \A i \in 1 .. Len(c) : c[i] # x => s1.p[c[i]] = s.p[c[i]]
          /\ \A d \in D : s1.p[d] = s.p[d]
        BY <1>2, <1>7, <1>8
    <2> QED
        BY <1>3, <1>7, <1>8, <1>9, <2>1, <2>2, Cut
<1>11. Single(s1.p, c1, k, x, x)
    BY <1>3, <1>7, <1>8 DEF Single
<1>12. Separate(<<>>, c1, D1, k, x, x, w)
    <2>1. \A i \in 1 .. Len(c1) : i \in 1 .. Len(c) /\ c1[i] = c[i] /\ c1[i] \notin D1
        BY <1>10 DEF Remains
    <2>2. \A i, j \in 1 .. Len(c1) : c1[i] = c1[j] => i = j
        BY <1>4, <2>1 DEF Separate
    <2>3. \A i \in 1 .. Len(c1) : c1[i] # w /\ (c1[i] = k => c1[i] = x)
        BY <1>4, <2>1 DEF Separate
    <2>4. \A d \in D1 : d # k /\ d # x /\ d # w
        BY <1>4, <1>7, <1>10 DEF Remains, Separate
    <2>5. k # w
        BY <1>4 DEF Separate
    <2> QED
        BY <1>7, <2>1, <2>2, <2>3, <2>4, <2>5 DEF Separate
<1>13. Threads(s1, <<>>, c1, D1, k, x, x, w)
    BY <1>1, <1>10, <1>11, <1>12 DEF Threads
<1> QED
    BY <1>5, <1>6, <1>10, <1>13 DEF s1

(* Behind the last envelope of the pool comes e.                           *)
LEMMA PoolGrows ==
    ASSUME NEW s \in Store(Env, EnvQueue), NEW b \in Seq(Env), NEW e \in Env,
           Pool(s, b, NULL), \A i \in 1 .. Len(b) : b[i] # e,
           \A i, j \in 1 .. Len(b) : b[i] = b[j] => i = j,
           b = <<>> => s.p[e] = NULL
    PROVE  /\ Pool(env_ENQ(s, envelope_q, e), Append(b, e), NULL)
           /\ env_ENQ(s, envelope_q, e).p[e] = NULL
           /\ \A n \in Env : n = e \/ (\E i \in 1 .. Len(b) : n = b[i])
                             \/ env_ENQ(s, envelope_q, e).p[n] = s.p[n]
<1> DEFINE t  == Append(b, e)
           s1 == env_ENQ(s, envelope_q, e)
<1>1. /\ Len(b) \in Nat /\ (b = <<>> <=> Len(b) = 0) /\ e # NULL
      /\ b # <<>> => 1 \in 1 .. Len(b) /\ Len(b) \in 1 .. Len(b)
      /\ \A i \in 1 .. Len(b) : b[i] \in Env /\ b[i] # NULL
    BY EnvSeq, Queues
<1>2. /\ t \in Seq(Env) /\ Len(t) = Len(b) + 1 /\ t[Len(b) + 1] = e /\ t # <<>>
      /\ \A i \in 1 .. Len(b) : t[i] = b[i]
    BY EnvAppend
<1>3. /\ s1 \in Store(Env, EnvQueue) /\ s1.tail[envelope_q] = e
      /\ s.head[envelope_q] = NULL => s1.head[envelope_q] = e /\ s1.p = s.p
      /\ s.head[envelope_q] # NULL =>
            /\ s1.head[envelope_q] = s.head[envelope_q] /\ s1.p[e] = NULL
            /\ s.tail[envelope_q] # e /\ s.tail[envelope_q] \in Env => s1.p[s.tail[envelope_q]] = e
            /\ \A n \in Env : n # e /\ n # s.tail[envelope_q] => s1.p[n] = s.p[n]
    <2>1. envelope_q \in EnvQueue
        BY Queues
    <2> QED
        BY <2>1, AfterENQ
<1> HIDE DEF t, s1
<1>4. CASE b = <<>>
    <2>1. s1.head[envelope_q] = e /\ s1.p = s.p /\ s.p[e] = NULL
        BY <1>3, <1>4 DEF Pool
    <2>2. Len(t) = 1 /\ t[1] = e
        BY <1>1, <1>2, <1>4
    <2>3. Chained(s1.p, t)
        BY <2>2 DEF Chained
    <2> QED
        BY <1>1, <1>2, <1>3, <2>1, <2>2, <2>3 DEF Pool, t, s1
<1>5. CASE b # <<>>
    <2>1. /\ s.head[envelope_q] = b[1] /\ s.tail[envelope_q] = b[Len(b)] /\ b[1] # NULL
          /\ b[Len(b)] \in Env /\ b[Len(b)] # e
        BY <1>1, <1>5 DEF Pool
    <2>2. /\ s1.head[envelope_q] = b[1] /\ s1.p[e] = NULL /\ s1.p[b[Len(b)]] = e
          /\ \A n \in Env : n # e /\ n # b[Len(b)] => s1.p[n] = s.p[n]
        BY <1>3, <2>1
    <2>3. Chained(s1.p, t)
        <3>1. ASSUME NEW i \in 1 .. Len(b)
              PROVE  s1.p[t[i]] = t[i + 1]
            <4>1. CASE i = Len(b)
                BY <1>2, <2>2, <4>1
            <4>2. CASE i # Len(b)
                <5>1. i \in 1 .. Len(b) - 1 /\ i + 1 \in 1 .. Len(b)
                    BY <1>1, <4>2
                <5>2. s.p[b[i]] = b[i + 1] /\ b[i] # b[Len(b)] /\ b[i] # e
                    BY <1>1, <1>5, <4>2, <5>1 DEF Pool, Chained
                <5> QED
                    BY <1>1, <1>2, <2>2, <5>1, <5>2
            <4> QED
                BY <4>1, <4>2
        <3> QED
            BY <1>1, <1>2, <3>1 DEF Chained
    <2>4. t[1] = b[1]
        BY <1>1, <1>2, <1>5
    <2> QED
        BY <1>1, <1>2, <1>3, <1>5, <2>1, <2>2, <2>3, <2>4 DEF Pool, t, s1
<1> QED
    BY <1>4, <1>5

(* Heads and tails of the other queues when an envelope joins the pool.    *)
LEMMA HeadsAfterPoolGrows ==
    ASSUME NEW s \in Store(Env, EnvQueue), NEW e \in Env
    PROVE  /\ env_ENQ(s, envelope_q, e) \in Store(Env, EnvQueue)
           /\ \A r \in {1, 2} : /\ env_ENQ(s, envelope_q, e).head[r] = s.head[r]
                                /\ env_ENQ(s, envelope_q, e).tail[r] = s.tail[r]
BY AfterENQ, Queues

(* Sequences of different envelopes, and another one.                      *)
LEMMA ApartAppend ==
    ASSUME NEW b \in Seq(Env), NEW e \in Env, \A i \in 1 .. Len(b) : b[i] # e,
           \A i, j \in 1 .. Len(b) : b[i] = b[j] => i = j
    PROVE  /\ \A i, j \in 1 .. Len(Append(b, e)) : Append(b, e)[i] = Append(b, e)[j] => i = j
           /\ \A i \in 1 .. Len(Append(b, e)) :
                 \/ i \in 1 .. Len(b) /\ Append(b, e)[i] = b[i]
                 \/ i = Len(Append(b, e)) /\ Append(b, e)[i] = e
<1> DEFINE t == Append(b, e)
<1>1. /\ Len(t) = Len(b) + 1 /\ t[Len(b) + 1] = e /\ Len(b) \in Nat
      /\ \A i \in 1 .. Len(b) : t[i] = b[i]
    BY EnvAppend, EnvSeq
<1> HIDE DEF t
<1>2. \A i \in 1 .. Len(t) : \/ i \in 1 .. Len(b) /\ t[i] = b[i]
                             \/ i = Len(t) /\ t[i] = e
    BY <1>1
<1>3. \A i, j \in 1 .. Len(t) : t[i] = t[j] => i = j
    BY <1>1, <1>2
<1> QED
    BY <1>2, <1>3 DEF t

(* The CCI gives its envelope back.                                        *)
LEMMA PoolGive ==
    ASSUME NEW s \in Store(Env, EnvQueue), NEW b \in Seq(Env), NEW c \in Seq(Env),
           NEW D \in SUBSET Env, NEW k \in Env,
           NEW w, w # NULL, Threads(s, b, c, D, k, NULL, NULL, w)
    PROVE  Threads(env_ENQ(s, envelope_q, k), Append(b, k), c, D, NULL, NULL, NULL, w)
<1> DEFINE t  == Append(b, k)
           s1 == env_ENQ(s, envelope_q, k)
<1>1. /\ Pool(s, b, NULL) /\ Screen(s, c, D, NULL) /\ Downstream(s, D)
      /\ Single(s.p, c, k, NULL, NULL) /\ Separate(b, c, D, k, NULL, NULL, w)
    BY DEF Threads
<1>2. /\ Len(c) \in Nat /\ (c = <<>> <=> Len(c) = 0)
      /\ \A i \in 1 .. Len(c) : c[i] \in Env /\ c[i] # NULL
      /\ c # <<>> => Len(c) \in 1 .. Len(c) /\ 1 \in 1 .. Len(c)
      /\ \A i \in 1 .. Len(c) - 1 : i \in 1 .. Len(c)
      /\ \A i \in 1 .. Len(b) : b[i] # NULL
    BY EnvSeq
<1>3. /\ k # NULL /\ k # w /\ k \notin D /\ s.p[k] = NULL
      /\ \A i \in 1 .. Len(b) : b[i] # k /\ b[i] \notin D
      /\ \A i \in 1 .. Len(c) : c[i] # k
      /\ \A i \in 1 .. Len(b), j \in 1 .. Len(c) : b[i] # c[j]
    BY <1>1, <1>2, Queues DEF Separate, Single
<1>4. \A i, j \in 1 .. Len(b) : b[i] = b[j] => i = j
    BY <1>1 DEF Separate
<1>5. /\ Pool(s1, t, NULL)
      /\ \A n \in Env : n = k \/ (\E i \in 1 .. Len(b) : n = b[i]) \/ s1.p[n] = s.p[n]
    BY <1>1, <1>3, <1>4, PoolGrows
<1>6. s1.head[1] = s.head[1] /\ s1.tail[1] = s.tail[1] /\ s1.head[2] = s.head[2] /\ s1.tail[2] = s.tail[2]
    BY HeadsAfterPoolGrows
<1>7. /\ \A i, j \in 1 .. Len(t) : t[i] = t[j] => i = j
      /\ \A i \in 1 .. Len(t) : \/ i \in 1 .. Len(b) /\ t[i] = b[i]
                                \/ i = Len(t) /\ t[i] = k
    BY <1>3, <1>4, ApartAppend
<1> HIDE DEF t, s1
<1>8. \A i \in 1 .. Len(c) : s1.p[c[i]] = s.p[c[i]]
    BY <1>2, <1>3, <1>5
<1>9. \A d \in D : s1.p[d] = s.p[d]
    BY <1>3, <1>5
<1>10. Screen(s1, c, D, NULL)
    <2>1. Chained(s1.p, c)
        BY <1>1, <1>2, <1>8 DEF Screen, Chained
    <2> QED
        BY <1>1, <1>2, <1>6, <1>8, <2>1 DEF Screen
<1>11. Downstream(s1, D)
    BY <1>1, <1>6, <1>9 DEF Downstream
<1>12. Separate(t, c, D, NULL, NULL, NULL, w)
    <2>1. \A i \in 1 .. Len(t) : t[i] # NULL /\ t[i] \notin D /\ t[i] # w
        BY <1>1, <1>2, <1>3, <1>7 DEF Separate
    <2>2. \A i \in 1 .. Len(t), j \in 1 .. Len(c) : t[i] # c[j]
        BY <1>3, <1>7
    <2>3. NULL \notin D /\ NULL # w
        BY Queues
    <2> QED
        BY <1>1, <1>2, <1>7, <2>1, <2>2, <2>3 DEF Separate
<1>13. Single(s1.p, c, NULL, NULL, NULL)
    BY DEF Single
<1> QED
    BY <1>5, <1>10, <1>11, <1>12, <1>13 DEF Threads, t, s1

(* The CCI gives the envelope of the text it has just sent back, while it  *)
(* is still on its way to the CRT.                                         *)
LEMMA PoolGiveText ==
    ASSUME NEW s \in Store(Env, EnvQueue), NEW b \in Seq(Env), NEW c \in Seq(Env),
           NEW D \in SUBSET Env, NEW x \in Env,
           NEW w, w # NULL, Threads(s, b, c, D, x, x, NULL, w), b # <<>>
    PROVE  \E c1 \in Seq(Env), D1 \in SUBSET Env :
              /\ Threads(env_ENQ(s, envelope_q, x), Append(b, x), c1, D1, NULL, x, NULL, w)
              /\ Remains(c, D, x, c1, D1)
<1> DEFINE t  == Append(b, x)
           s1 == env_ENQ(s, envelope_q, x)
<1>1. /\ Pool(s, b, x) /\ Screen(s, c, D, x) /\ Downstream(s, D)
      /\ Separate(b, c, D, x, x, NULL, w)
    BY Queues DEF Threads
<1>2. /\ x # NULL /\ Len(b) \in 1 .. Len(b)
      /\ \A i \in 1 .. Len(c) : c[i] \in Env /\ c[i] # NULL
      /\ \A i \in 1 .. Len(b) : b[i] # NULL
    BY EnvSeq, Queues
<1>3. /\ x # w /\ x \notin D
      /\ \A i \in 1 .. Len(b) : b[i] # x /\ b[i] \notin D
      /\ \A i \in 1 .. Len(b), j \in 1 .. Len(c) : b[i] # c[j]
    BY <1>1 DEF Separate
<1>4. \A i, j \in 1 .. Len(b) : b[i] = b[j] => i = j
    BY <1>1 DEF Separate
<1>5. Pool(s, b, NULL)
    BY <1>1, <1>2, <1>3 DEF Pool
<1>6. /\ Pool(s1, t, NULL) /\ s1.p[x] = NULL
      /\ \A n \in Env : n = x \/ (\E i \in 1 .. Len(b) : n = b[i]) \/ s1.p[n] = s.p[n]
    BY <1>3, <1>4, <1>5, PoolGrows
<1>7. /\ s1 \in Store(Env, EnvQueue)
      /\ s1.head[1] = s.head[1] /\ s1.tail[1] = s.tail[1]
      /\ s1.head[2] = s.head[2] /\ s1.tail[2] = s.tail[2]
    BY HeadsAfterPoolGrows
<1>8. /\ \A i, j \in 1 .. Len(t) : t[i] = t[j] => i = j
      /\ \A i \in 1 .. Len(t) : \/ i \in 1 .. Len(b) /\ t[i] = b[i]
                                \/ i = Len(t) /\ t[i] = x
    BY <1>3, <1>4, ApartAppend
<1> HIDE DEF t, s1
<1>9. /\ \A i \in 1 .. Len(c) : c[i] # x => s1.p[c[i]] = s.p[c[i]]
      /\ \A d \in D : s1.p[d] = s.p[d]
    BY <1>2, <1>3, <1>6
<1>10. PICK c1 \in Seq(Env), D1 \in SUBSET Env :
              Screen(s1, c1, D1, x) /\ Downstream(s1, D1) /\ Remains(c, D, x, c1, D1)
    <2>1. /\ \A i, j \in 1 .. Len(c) : c[i] = c[j] => i = j
          /\ \A i \in 1 .. Len(c) : c[i] \notin D
        BY <1>1 DEF Separate
    <2> QED
        BY <1>1, <1>3, <1>6, <1>7, <1>9, <2>1, Cut
<1>11. Pool(s1, t, x)
    <2>1. \A i \in 1 .. Len(t) : t[i] # NULL
        BY <1>2, <1>8
    <2>2. t # <<>> /\ Len(t) \in 1 .. Len(t)
        BY EnvAppend, EnvSeq DEF t
    <2> QED
        BY <1>6, <2>1, <2>2 DEF Pool
<1>12. Single(s1.p, c1, NULL, x, NULL)
    BY <1>6 DEF Single
<1>13. Separate(t, c1, D1, NULL, x, NULL, w)
    <2>1. \A i \in 1 .. Len(c1) : i \in 1 .. Len(c) /\ c1[i] = c[i] /\ c1[i] \notin D1
        BY <1>10 DEF Remains
    <2>2. \A i, j \in 1 .. Len(c1) : c1[i] = c1[j] => i = j
        BY <1>1, <2>1 DEF Separate
    <2>3. \A i \in 1 .. Len(c1) : c1[i] # w /\ c1[i] # NULL
        BY <1>1, <1>2, <2>1 DEF Separate
    <2>4. \A d \in D1 : d # x /\ d # w /\ d # NULL
        BY <1>1, <1>2, <1>3, <1>10, Queues DEF Remains, Separate
    <2>5. \A i \in 1 .. Len(b) : b[i] \notin D1
        BY <1>3, <1>10 DEF Remains
    <2>6. \A i \in 1 .. Len(t) : t[i] \notin D1 /\ t[i] # NULL /\ t[i] # w
        BY <1>1, <1>2, <1>3, <1>8, <2>4, <2>5 DEF Separate
    <2>7. \A i \in 1 .. Len(t) : t[i] = x => i = Len(t)
        BY <1>3, <1>8
    <2>8. \A i \in 1 .. Len(t), j \in 1 .. Len(c1) : t[i] = c1[j] => t[i] = x
        BY <1>3, <1>8, <2>1
    <2> QED
        BY <1>2, <1>3, <1>8, <2>1, <2>2, <2>3, <2>4, <2>6, <2>7, <2>8 DEF Separate
<1> QED
    BY <1>2, <1>10, <1>11, <1>12, <1>13 DEF Threads, t, s1

(* The end of the queue of crt_iproc.                                      *)
LEMMA ScreenAfterENQ ==
    ASSUME NEW s \in Store(Env, EnvQueue), NEW e \in Env
    PROVE  /\ env_ENQ(s, 1, e) \in Store(Env, EnvQueue)
           /\ env_ENQ(s, 1, e).tail[1] = e
           /\ \A r \in {2, envelope_q} : /\ env_ENQ(s, 1, e).head[r] = s.head[r]
                                         /\ env_ENQ(s, 1, e).tail[r] = s.tail[r]
           /\ s.head[1] = NULL => env_ENQ(s, 1, e).head[1] = e /\ env_ENQ(s, 1, e).p = s.p
           /\ s.head[1] # NULL =>
                 /\ env_ENQ(s, 1, e).head[1] = s.head[1]
                 /\ env_ENQ(s, 1, e).p[e] = NULL
                 /\ s.tail[1] # e /\ s.tail[1] \in Env => env_ENQ(s, 1, e).p[s.tail[1]] = e
                 /\ \A n \in Env : n # e /\ n # s.tail[1] => env_ENQ(s, 1, e).p[n] = s.p[n]
<1>1. 1 \in EnvQueue /\ 2 \in EnvQueue /\ envelope_q \in EnvQueue /\ 2 # 1 /\ envelope_q # 1
    BY Queues
<1> QED
    BY <1>1, AfterENQ

(* Links of the envelopes that are not on the queue of crt_iproc, when one *)
(* joins it.                                                               *)
LEMMA ScreenLinks ==
    ASSUME NEW s \in Store(Env, EnvQueue), NEW c \in Seq(Env), NEW D \in SUBSET Env,
           NEW e \in Env, NEW x \in Env \cup {NULL}, Screen(s, c, D, x),
           c # <<>> => s.tail[1] = c[Len(c)], s.p[e] = NULL
    PROVE  /\ env_ENQ(s, 1, e).p[e] = NULL
           /\ \A n \in Env : (\A i \in 1 .. Len(c) : n # c[i])
                             => env_ENQ(s, 1, e).p[n] = s.p[n]
<1>1. c # <<>> => Len(c) \in 1 .. Len(c)
    BY EnvSeq
<1>2. c = <<>> <=> s.head[1] = NULL
    BY DEF Screen
<1>3. CASE c = <<>>
    BY <1>2, <1>3, ScreenAfterENQ
<1>4. CASE c # <<>>
    <2>1. s.head[1] # NULL /\ s.tail[1] = c[Len(c)]
        BY <1>2, <1>4
    <2>2. /\ env_ENQ(s, 1, e).p[e] = NULL
          /\ \A n \in Env : n # e /\ n # s.tail[1] => env_ENQ(s, 1, e).p[n] = s.p[n]
        BY <2>1, ScreenAfterENQ
    <2> QED
        BY <1>1, <1>4, <2>1, <2>2
<1> QED
    BY <1>3, <1>4

(* Something is sent to the CRT while no text is on its way there and in   *)
(* the pool as well.                                                       *)
LEMMA ScreenGrows ==
    ASSUME NEW s \in Store(Env, EnvQueue), NEW c \in Seq(Env), NEW D \in SUBSET Env,
           NEW e \in Env, NEW x \in Env \cup {NULL}, NEW y \in Env \cup {NULL}, Screen(s, c, D, x),
           c # <<>> => s.tail[1] = c[Len(c)],
           \A i \in 1 .. Len(c) : c[i] # e,
           \A i, j \in 1 .. Len(c) : c[i] = c[j] => i = j,
           s.p[e] = NULL
    PROVE  Screen(env_ENQ(s, 1, e), Append(c, e), D, y)
<1> DEFINE t  == Append(c, e)
           s1 == env_ENQ(s, 1, e)
<1>1. /\ Len(c) \in Nat /\ (c = <<>> <=> Len(c) = 0) /\ e # NULL
      /\ c # <<>> => 1 \in 1 .. Len(c) /\ Len(c) \in 1 .. Len(c)
      /\ \A i \in 1 .. Len(c) : c[i] \in Env /\ c[i] # NULL
    BY EnvSeq, Queues
<1>2. /\ t \in Seq(Env) /\ Len(t) = Len(c) + 1 /\ t[Len(c) + 1] = e /\ t # <<>>
      /\ \A i \in 1 .. Len(c) : t[i] = c[i]
    BY EnvAppend
<1>3. /\ s1 \in Store(Env, EnvQueue) /\ s1.tail[1] = e
      /\ s.head[1] = NULL => s1.head[1] = e /\ s1.p = s.p
      /\ s.head[1] # NULL =>
            /\ s1.head[1] = s.head[1] /\ s1.p[e] = NULL
            /\ s.tail[1] # e /\ s.tail[1] \in Env => s1.p[s.tail[1]] = e
            /\ \A n \in Env : n # e /\ n # s.tail[1] => s1.p[n] = s.p[n]
    BY ScreenAfterENQ
<1>4. (c = <<>> <=> s.head[1] = NULL) /\ Chained(s.p, c)
    BY DEF Screen
<1> HIDE DEF t, s1
<1>5. CASE c = <<>>
    <2>1. s1.head[1] = e /\ s1.p = s.p /\ s.p[e] = NULL
        BY <1>3, <1>4, <1>5
    <2>2. Len(t) = 1 /\ t[1] = e
        BY <1>1, <1>2, <1>5
    <2>3. Chained(s1.p, t)
        BY <2>2 DEF Chained
    <2> QED
        BY <1>1, <1>2, <1>3, <2>1, <2>2, <2>3 DEF Screen, t, s1
<1>6. CASE c # <<>>
    <2>1. /\ s.head[1] = c[1] /\ s.tail[1] = c[Len(c)] /\ c[1] # NULL
          /\ c[Len(c)] \in Env /\ c[Len(c)] # e
        BY <1>1, <1>6 DEF Screen
    <2>2. /\ s1.head[1] = c[1] /\ s1.p[e] = NULL /\ s1.p[c[Len(c)]] = e
          /\ \A n \in Env : n # e /\ n # c[Len(c)] => s1.p[n] = s.p[n]
        BY <1>3, <2>1
    <2>3. Chained(s1.p, t)
        <3>1. ASSUME NEW i \in 1 .. Len(c)
              PROVE  s1.p[t[i]] = t[i + 1]
            <4>1. CASE i = Len(c)
                BY <1>2, <2>2, <4>1
            <4>2. CASE i # Len(c)
                <5>1. i \in 1 .. Len(c) - 1 /\ i + 1 \in 1 .. Len(c)
                    BY <1>1, <4>2
                <5>2. s.p[c[i]] = c[i + 1] /\ c[i] # c[Len(c)] /\ c[i] # e
                    BY <1>1, <1>4, <1>6, <4>2, <5>1 DEF Chained
                <5> QED
                    BY <1>1, <1>2, <2>2, <5>1, <5>2
            <4> QED
                BY <4>1, <4>2
        <3> QED
            BY <1>1, <1>2, <3>1 DEF Chained
    <2>4. t[1] = c[1]
        BY <1>1, <1>2, <1>6
    <2> QED
        BY <1>1, <1>2, <1>3, <1>6, <2>1, <2>2, <2>3, <2>4 DEF Screen, t, s1
<1> QED
    BY <1>5, <1>6

(* The CCI sends a text.                                                   *)
LEMMA TextSent ==
    ASSUME NEW s \in Store(Env, EnvQueue), NEW b \in Seq(Env), NEW c \in Seq(Env),
           NEW D \in SUBSET Env, NEW k \in Env,
           NEW w, w # NULL, Threads(s, b, c, D, k, NULL, NULL, w)
    PROVE  Threads(env_ENQ(s, 1, k), b, Append(c, k), D, k, k, NULL, w)
<1> DEFINE t  == Append(c, k)
           s1 == env_ENQ(s, 1, k)
<1>1. /\ Pool(s, b, NULL) /\ Screen(s, c, D, NULL) /\ Downstream(s, D)
      /\ Single(s.p, c, k, NULL, NULL) /\ Separate(b, c, D, k, NULL, NULL, w)
    BY DEF Threads
<1>2. /\ k # NULL /\ Len(b) \in Nat
      /\ b # <<>> => Len(b) \in 1 .. Len(b)
      /\ c # <<>> => Len(c) \in 1 .. Len(c)
      /\ \A i \in 1 .. Len(b) : b[i] \in Env /\ b[i] # NULL
      /\ \A i \in 1 .. Len(b) - 1 : i \in 1 .. Len(b)
      /\ \A i \in 1 .. Len(c) : c[i] # NULL
    BY EnvSeq, Queues
<1>3. /\ k \notin D /\ k # w /\ s.p[k] = NULL
      /\ \A i \in 1 .. Len(c) : c[i] # k /\ c[i] \notin D /\ c[i] # w
      /\ \A i \in 1 .. Len(b) : b[i] # k
      /\ \A i \in 1 .. Len(b), j \in 1 .. Len(c) : b[i] # c[j]
    BY <1>1, <1>2 DEF Separate, Single
<1>4. \A i, j \in 1 .. Len(c) : c[i] = c[j] => i = j
    BY <1>1 DEF Separate
<1>5. c # <<>> => s.tail[1] = c[Len(c)]
    BY <1>1, <1>2 DEF Screen
<1>6. /\ Screen(s1, t, D, k) /\ s1.p[k] = NULL
      /\ \A n \in Env : (\A i \in 1 .. Len(c) : n # c[i]) => s1.p[n] = s.p[n]
    <2>1. /\ Screen(s, c, D, NULL) /\ s.p[k] = NULL
          /\ \A i \in 1 .. Len(c) : c[i] # k
        BY <1>1, <1>3
    <2>2. Screen(s1, t, D, k)
        BY <1>4, <1>5, <2>1, ScreenGrows
    <2>3. s1.p[k] = NULL
        BY <1>5, <2>1, ScreenLinks
    <2>4. \A n \in Env : (\A i \in 1 .. Len(c) : n # c[i]) => s1.p[n] = s.p[n]
        BY <1>5, <2>1, ScreenLinks
    <2> QED
        BY <2>2, <2>3, <2>4
<1>7. \A r \in {2, envelope_q} : s1.head[r] = s.head[r] /\ s1.tail[r] = s.tail[r]
    BY ScreenAfterENQ
<1>8. /\ \A i, j \in 1 .. Len(t) : t[i] = t[j] => i = j
      /\ \A i \in 1 .. Len(t) : \/ i \in 1 .. Len(c) /\ t[i] = c[i]
                                \/ i = Len(t) /\ t[i] = k
    BY <1>3, <1>4, ApartAppend
<1> HIDE DEF t, s1
<1>9. \A i \in 1 .. Len(b) : s1.p[b[i]] = s.p[b[i]]
    BY <1>2, <1>3, <1>6
<1>10. Pool(s1, b, k)
    <2>1. Chained(s1.p, b)
        BY <1>1, <1>2, <1>9 DEF Pool, Chained
    <2> QED
        BY <1>1, <1>2, <1>7, <1>9, <2>1 DEF Pool
<1>11. Downstream(s1, D)
    <2>1. \A d \in D : s1.p[d] = s.p[d]
        BY <1>3, <1>6
    <2> QED
        BY <1>1, <1>7, <2>1 DEF Downstream
<1>12. Single(s1.p, t, k, k, NULL)
    BY <1>6 DEF Single
<1>13. Separate(b, t, D, k, k, NULL, w)
    <2>1. \A i \in 1 .. Len(t) : t[i] \notin D /\ t[i] # w /\ t[i] # NULL
        BY <1>2, <1>3, <1>8
    <2>2. \A i \in 1 .. Len(b), j \in 1 .. Len(t) : b[i] # t[j]
        BY <1>3, <1>8
    <2> QED
        BY <1>1, <1>2, <1>3, <1>8, <2>1, <2>2 DEF Separate
<1> QED
    BY <1>2, <1>6, <1>10, <1>11, <1>12, <1>13 DEF Threads, t, s1

(* z comes behind the envelopes c of the queue, or where the queue is cut. *)
Joined(c, D, z, c1, D1) ==
    \/ c1 = Append(c, z) /\ D1 = D
    \/ c1 = c /\ D1 = D \cup {z}

(* The timer sends a second, behind the torn queue or at its end.          *)
LEMMA SecondSent ==
    ASSUME NEW s \in Store(Env, EnvQueue), NEW b \in Seq(Env), NEW c \in Seq(Env),
           NEW D \in SUBSET Env, NEW k \in Env \cup {NULL}, NEW x \in Env \cup {NULL},
           NEW z \in Env, z # x,
           NEW w, w # NULL, Threads(s, b, c, D, k, x, z, w)
    PROVE  \E c1 \in Seq(Env), D1 \in SUBSET Env :
              Threads(env_ENQ(s, 1, z), b, c1, D1, k, x, NULL, w) /\ Joined(c, D, z, c1, D1)
<1> DEFINE t  == Append(c, z)
           s1 == env_ENQ(s, 1, z)
<1>1. /\ Pool(s, b, x) /\ Screen(s, c, D, x) /\ Downstream(s, D)
      /\ Single(s.p, c, k, x, z) /\ Separate(b, c, D, k, x, z, w)
    BY DEF Threads
<1>2. /\ z # NULL /\ Len(b) \in Nat
      /\ b # <<>> => Len(b) \in 1 .. Len(b)
      /\ c # <<>> => Len(c) \in 1 .. Len(c)
      /\ \A i \in 1 .. Len(b) : b[i] \in Env /\ b[i] # NULL
      /\ \A i \in 1 .. Len(b) - 1 : i \in 1 .. Len(b)
      /\ \A i \in 1 .. Len(c) : c[i] \in Env /\ c[i] # NULL
      /\ \A i \in 1 .. Len(c) - 1 : i \in 1 .. Len(c)
    BY EnvSeq, Queues
<1>3. /\ z \notin D /\ z # w /\ s.p[z] = NULL /\ z # k
      /\ \A i \in 1 .. Len(c) : c[i] # z /\ c[i] \notin D /\ c[i] # w
      /\ \A i \in 1 .. Len(b) : b[i] # z /\ b[i] \notin D
      /\ \A i \in 1 .. Len(b), j \in 1 .. Len(c) : b[i] = c[j] => b[i] = x
    BY <1>1, <1>2, Queues DEF Separate, Single
<1>4. \A i, j \in 1 .. Len(c) : c[i] = c[j] => i = j
    BY <1>1 DEF Separate
<1>5. /\ s1 \in Store(Env, EnvQueue)
      /\ \A r \in {2, envelope_q} : s1.head[r] = s.head[r] /\ s1.tail[r] = s.tail[r]
    BY ScreenAfterENQ
<1> SUFFICES \E c1 \in Seq(Env), D1 \in SUBSET Env :
                /\ Threads(s1, b, c1, D1, k, x, NULL, w)
                /\ (c1 = t /\ D1 = D) \/ (c1 = c /\ D1 = D \cup {z})
    BY DEF t, s1, Joined
<1>6. CASE c # <<>> => s.tail[1] = c[Len(c)]
    <2>1. /\ Screen(s1, t, D, x) /\ s1.p[z] = NULL
          /\ \A n \in Env : (\A i \in 1 .. Len(c) : n # c[i]) => s1.p[n] = s.p[n]
        <3>1. /\ Screen(s, c, D, x) /\ s.p[z] = NULL
              /\ \A i \in 1 .. Len(c) : c[i] # z
            BY <1>1, <1>3
        <3>2. Screen(s1, t, D, x)
            BY <1>4, <1>6, <3>1, ScreenGrows
        <3>3. s1.p[z] = NULL
            BY <1>6, <3>1, ScreenLinks
        <3>4. \A n \in Env : (\A i \in 1 .. Len(c) : n # c[i]) => s1.p[n] = s.p[n]
            BY <1>6, <3>1, ScreenLinks
        <3> QED
            BY <3>2, <3>3, <3>4
    <2>2. /\ \A i, j \in 1 .. Len(t) : t[i] = t[j] => i = j
          /\ \A i \in 1 .. Len(t) : \/ i \in 1 .. Len(c) /\ t[i] = c[i]
                                    \/ i = Len(t) /\ t[i] = z
        BY <1>3, <1>4, ApartAppend
    <2>3. t \in Seq(Env) /\ \A i \in 1 .. Len(c) : i \in 1 .. Len(t) /\ t[i] = c[i]
        BY EnvAppend, EnvSeq
    <2> HIDE DEF t, s1
    <2>6. Threads(s1, b, t, D, k, x, NULL, w)
        <3>1. \A i \in 1 .. Len(b) : b[i] = x \/ s1.p[b[i]] = s.p[b[i]]
            BY <1>2, <1>3, <2>1
        <3>2. Pool(s1, b, x)
            <4>1. \A i \in 1 .. Len(b) - 1 : b[i] # x
                BY <1>1, <1>2 DEF Separate
            <4>2. Chained(s1.p, b)
                BY <1>1, <1>2, <3>1, <4>1 DEF Pool, Chained
            <4> QED
                BY <1>1, <1>2, <1>5, <3>1, <4>2 DEF Pool
        <3>3. Downstream(s1, D)
            <4>1. \A d \in D : s1.p[d] = s.p[d]
                BY <1>3, <2>1
            <4> QED
                BY <1>1, <1>5, <4>1 DEF Downstream
        <3>4. Single(s1.p, t, k, x, NULL)
            <4>1. k # NULL /\ k # x => s1.p[k] = NULL
                <5> SUFFICES ASSUME k # NULL, k # x
                             PROVE  s1.p[k] = NULL
                    OBVIOUS
                <5>1. s.p[k] = NULL /\ \A i \in 1 .. Len(c) : c[i] # k
                    BY <1>1 DEF Single, Separate
                <5> QED
                    BY <1>3, <2>1, <5>1
            <4>2. x # NULL /\ (\A i \in 1 .. Len(t) : t[i] # x) => s1.p[x] = NULL
                <5> SUFFICES ASSUME x # NULL, \A i \in 1 .. Len(t) : t[i] # x
                             PROVE  s1.p[x] = NULL
                    OBVIOUS
                <5>1. \A i \in 1 .. Len(c) : c[i] # x
                    BY <2>3
                <5> QED
                    BY <1>1, <2>1, <5>1 DEF Single
            <4> QED
                BY <4>1, <4>2 DEF Single
        <3>5. Separate(b, t, D, k, x, NULL, w)
            <4>1. \A i \in 1 .. Len(t) : t[i] \notin D /\ t[i] # w /\ t[i] # NULL
                BY <1>2, <1>3, <2>2
            <4>2. \A i \in 1 .. Len(b), j \in 1 .. Len(t) : b[i] = t[j] => b[i] = x
                BY <1>3, <2>2
            <4>3. \A i \in 1 .. Len(t) : t[i] = k => t[i] = x
                BY <1>1, <1>3, <2>2 DEF Separate
            <4>4. NULL \notin D
                BY Queues
            <4> QED
                BY <1>1, <1>2, <1>3, <2>2, <4>1, <4>2, <4>3, <4>4 DEF Separate
        <3> QED
            BY <1>2, <2>1, <3>2, <3>3, <3>4, <3>5 DEF Threads
    <2> QED
        BY <2>3, <2>6
<1>7. CASE c # <<>> /\ s.tail[1] # c[Len(c)]
    <2>1. c[Len(c)] = x /\ s.tail[1] \in D /\ s.head[1] # NULL /\ s.head[1] = c[1]
        BY <1>1, <1>7 DEF Screen
    <2>2. /\ s1.head[1] = c[1] /\ s1.p[z] = NULL /\ s1.p[s.tail[1]] = z /\ s1.tail[1] = z
          /\ \A n \in Env : n # z /\ n # s.tail[1] => s1.p[n] = s.p[n]
        <3>1. s.tail[1] \in Env /\ s.tail[1] # z
            BY <1>3, <2>1
        <3> QED
            BY <2>1, <3>1, ScreenAfterENQ
    <2> HIDE DEF s1
    <2>3. \A i \in 1 .. Len(c) : s1.p[c[i]] = s.p[c[i]]
        BY <1>2, <1>3, <2>1, <2>2
    <2>4. Screen(s1, c, D \cup {z}, x)
        <3>1. Chained(s1.p, c)
            BY <1>1, <1>2, <2>3 DEF Screen, Chained
        <3> QED
            BY <1>1, <1>2, <1>7, <2>1, <2>2, <2>3, <3>1 DEF Screen
    <2>5. Downstream(s1, D \cup {z})
        BY <1>1, <1>5, <2>2 DEF Downstream
    <2>6. Pool(s1, b, x)
        <3>1. \A i \in 1 .. Len(b) : s1.p[b[i]] = s.p[b[i]]
            BY <1>2, <1>3, <2>1, <2>2
        <3>2. Chained(s1.p, b)
            BY <1>1, <1>2, <3>1 DEF Pool, Chained
        <3> QED
            BY <1>1, <1>2, <1>5, <3>1, <3>2 DEF Pool
    <2>7. Single(s1.p, c, k, x, NULL)
        <3>1. k # s.tail[1] /\ x # s.tail[1]
            BY <1>1, <2>1 DEF Separate
        <3> QED
            BY <1>1, <1>3, <2>2, <3>1 DEF Single
    <2>8. Separate(b, c, D \cup {z}, k, x, NULL, w)
        <3>1. NULL \notin D /\ NULL # z
            BY <1>2, Queues
        <3> QED
            BY <1>1, <1>2, <1>3, <3>1 DEF Separate
    <2>9. Threads(s1, b, c, D \cup {z}, k, x, NULL, w)
        BY <1>2, <2>4, <2>5, <2>6, <2>7, <2>8 DEF Threads
    <2> QED
        BY <2>9
<1> QED
    BY <1>6, <1>7

(* The links are left alone, and so are the ends of the three queues.      *)
LEMMA SameThreads ==
    ASSUME NEW s \in Store(Env, EnvQueue), NEW s1 \in Store(Env, EnvQueue),
           \A n \in Env : s1.p[n] = s.p[n],
           \A r \in {1, 2, envelope_q} : s1.head[r] = s.head[r] /\ s1.tail[r] = s.tail[r],
           NEW b, NEW c, NEW D, NEW k, NEW x, NEW z, NEW w,
           Threads(s, b, c, D, k, x, z, w)
    PROVE  Threads(s1, b, c, D, k, x, z, w)
<1>1. s1.p = s.p
    BY DEF Store
<1>2. /\ s1.head[1] = s.head[1] /\ s1.head[2] = s.head[2]
      /\ s1.head[envelope_q] = s.head[envelope_q]
      /\ s1.tail[1] = s.tail[1] /\ s1.tail[2] = s.tail[2]
      /\ s1.tail[envelope_q] = s.tail[envelope_q]
    OBVIOUS
<1>3. Pool(s, b, x) => Pool(s1, b, x)
    BY <1>1, <1>2 DEF Pool
<1>4. Screen(s1, c, D, x)
    BY <1>1, <1>2 DEF Threads, Screen
<1>5. Downstream(s1, D)
    BY <1>1, <1>2 DEF Threads, Downstream
<1> QED
    BY <1>1, <1>3, <1>4, <1>5 DEF Threads

(* An envelope comes to, or leaves, the empty queue of another process.    *)
LEMMA ElsewhereENQ ==
    ASSUME NEW s \in Store(Env, EnvQueue), NEW q \in EnvQueue \ {1, 2, envelope_q},
           NEW e \in Env, s.head[q] = NULL,
           NEW b, NEW c, NEW D, NEW k, NEW x, NEW z, NEW w,
           Threads(s, b, c, D, k, x, z, w)
    PROVE  Threads(env_ENQ(s, q, e), b, c, D, k, x, z, w)
<1> DEFINE s1 == env_ENQ(s, q, e)
<1>1. 1 \in EnvQueue /\ 2 \in EnvQueue /\ envelope_q \in EnvQueue
    BY Queues
<1>2. s1 \in Store(Env, EnvQueue) /\ s1.p = s.p
    BY AfterENQ
<1>3. \A r \in {1, 2, envelope_q} : s1.head[r] = s.head[r] /\ s1.tail[r] = s.tail[r]
    BY <1>1, AfterENQ
<1> HIDE DEF s1
<1> QED
    BY <1>2, <1>3, SameThreads DEF s1

(* An envelope taken off another queue, where it was alone.                *)
LEMMA ElsewhereDEQ ==
    ASSUME NEW s \in Store(Env, EnvQueue), NEW q \in EnvQueue \ {1, 2, envelope_q},
           s.head[q] # NULL => s.p[s.head[q]] = NULL,
           NEW b, NEW c, NEW D, NEW k, NEW x, NEW z, NEW w,
           Threads(s, b, c, D, k, x, z, w)
    PROVE  Threads(env_DEQ(s, q), b, c, D, k, x, z, w)
<1> DEFINE s1 == env_DEQ(s, q)
<1>1. 1 \in EnvQueue /\ 2 \in EnvQueue /\ envelope_q \in EnvQueue
    BY Queues
<1>2. CASE s.head[q] = NULL
    BY <1>2 DEF env_DEQ
<1>3. CASE s.head[q] # NULL
    <2>1. s1 \in Store(Env, EnvQueue) /\ \A n \in Env : s1.p[n] = s.p[n]
        BY <1>3, AfterDEQ
    <2>2. \A r \in {1, 2, envelope_q} : s1.head[r] = s.head[r] /\ s1.tail[r] = s.tail[r]
        BY <1>1, <1>3, AfterDEQ
    <2> HIDE DEF s1
    <2> QED
        BY <2>1, <2>2, SameThreads DEF s1
<1> QED
    BY <1>2, <1>3

(* The envelope of a text has come back to the CCI.                        *)
LEMMA TextBack ==
    ASSUME NEW s, NEW b \in Seq(Env), NEW c \in Seq(Env), NEW D \in SUBSET Env,
           NEW k \in Env \cup {NULL}, NEW x \in Env, NEW z \in Env \cup {NULL}, NEW w, w # NULL,
           z # x, \A i \in 1 .. Len(c) : c[i] # x,
           Threads(s, b, c, D, k, x, z, w)
    PROVE  Threads(s, b, c, D, k, NULL, z, w)
<1>1. /\ Len(b) \in Nat /\ (b # <<>> => Len(b) \in 1 .. Len(b))
      /\ \A i \in 1 .. Len(b) : b[i] # NULL
      /\ Len(c) \in Nat /\ (c # <<>> => Len(c) \in 1 .. Len(c))
      /\ \A i \in 1 .. Len(c) : c[i] # NULL
      /\ x # NULL /\ NULL \notin D
    BY EnvSeq, Queues
<1>2. /\ Pool(s, b, x) /\ Screen(s, c, D, x) /\ Downstream(s, D) /\ Single(s.p, c, k, x, z)
      /\ Separate(b, c, D, k, x, z, w)
    BY DEF Threads
<1>3. Pool(s, b, NULL)
    BY <1>1, <1>2 DEF Pool, Single
<1>4. Screen(s, c, D, NULL)
    BY <1>1, <1>2 DEF Screen
<1>5. Single(s.p, c, k, NULL, z)
    BY <1>2 DEF Single
<1>6. Separate(b, c, D, k, NULL, z, w)
    <2>1. \A i \in 1 .. Len(c) : c[i] \notin {k, z}
        BY <1>2 DEF Separate
    <2>2. \A i \in 1 .. Len(b), j \in 1 .. Len(c) : b[i] # c[j]
        BY <1>2 DEF Separate
    <2> QED
        BY <1>1, <1>2, <2>1, <2>2 DEF Separate
<1> QED
    BY <1>2, <1>3, <1>4, <1>5, <1>6 DEF Threads

(* crt_iproc takes the first envelope of its queue.                        *)
LEMMA ScreenTake ==
    ASSUME NEW s \in Store(Env, EnvQueue), NEW b \in Seq(Env), NEW c \in Seq(Env),
           NEW D \in SUBSET Env, NEW k \in Env \cup {NULL}, NEW x \in Env \cup {NULL},
           NEW z \in Env \cup {NULL}, NEW w, w # NULL,
           Threads(s, b, c, D, k, x, z, w), c # <<>>,
           NEW D1 \in SUBSET Env, D1 = IF c[1] = x THEN D ELSE D \cup {c[1]}
    PROVE  /\ s.head[1] = c[1]
           /\ Threads(env_DEQ(s, 1), b, Tail(c), D1, k, x, z, w)
<1> DEFINE e  == c[1]
           t  == Tail(c)
           s1 == env_DEQ(s, 1)
<1>1. /\ Len(c) \in Nat /\ 1 \in 1 .. Len(c) /\ Len(c) \in 1 .. Len(c)
      /\ \A i \in 1 .. Len(c) : c[i] \in Env /\ c[i] # NULL
      /\ \A i \in 1 .. Len(c) - 1 : i \in 1 .. Len(c) /\ i + 1 \in 1 .. Len(c) /\ i + 1 # 1
    BY EnvSeq
<1>2. /\ Len(b) \in Nat /\ (b # <<>> => Len(b) \in 1 .. Len(b))
      /\ \A i \in 1 .. Len(b) : b[i] \in Env /\ b[i] # NULL
      /\ \A i \in 1 .. Len(b) - 1 : i \in 1 .. Len(b) /\ i # Len(b)
    BY EnvSeq
<1>3. /\ t \in Seq(Env) /\ Len(t) = Len(c) - 1 /\ (t = <<>> <=> Len(c) = 1)
      /\ \A i \in 1 .. Len(c) - 1 : t[i] = c[i + 1]
    BY EnvTail
<1>4. /\ Screen(s, c, D, x) /\ Downstream(s, D) /\ Single(s.p, c, k, x, z)
      /\ IF z # NULL /\ z = x THEN b = <<>> ELSE Pool(s, b, x)
    BY DEF Threads
<1>5. Separate(b, c, D, k, x, z, w)
    BY DEF Threads
<1>6. s.head[1] = e /\ e \in Env /\ e # NULL
    BY <1>1, <1>4 DEF Screen
<1>7. /\ e \notin D /\ e # w /\ (e = k => e = x) /\ (e = z => e = x)
      /\ \A i \in 1 .. Len(b) : b[i] = e => b[i] = x /\ i = Len(b)
      /\ \A i \in 1 .. Len(c) - 1 : c[i + 1] # e
    BY <1>1, <1>5 DEF Separate
<1>8. s.p[e] = IF Len(c) = 1 THEN NULL ELSE c[2]
    <2>1. CASE Len(c) = 1
        BY <1>1, <1>4, <2>1 DEF Screen
    <2>2. CASE Len(c) # 1
        <3>1. 1 \in 1 .. Len(c) - 1
            BY <1>1, <2>2, TwoOrMore
        <3> QED
            BY <1>4, <2>2, <3>1 DEF Screen, Chained
    <2> QED
        BY <2>1, <2>2
<1>9. /\ s1 \in Store(Env, EnvQueue) /\ s1.p[e] = NULL
      /\ \A n \in Env : n # e => s1.p[n] = s.p[n]
      /\ s1.head[1] = s.p[e]
      /\ s1.tail[1] = IF s.p[e] = NULL THEN NULL ELSE s.tail[1]
      /\ \A r \in EnvQueue : r # 1 => s1.head[r] = s.head[r] /\ s1.tail[r] = s.tail[r]
    BY <1>6, AfterDEQ, Queues
<1>10. /\ s1.head[2] = s.head[2] /\ s1.tail[2] = s.tail[2]
       /\ s1.head[envelope_q] = s.head[envelope_q] /\ s1.tail[envelope_q] = s.tail[envelope_q]
    BY <1>9, Queues
<1>11. e = c[1] /\ D \subseteq D1 /\ (e = x => D1 = D) /\ (e # x => D1 = D \cup {e})
    OBVIOUS
<1> HIDE DEF e, t, s1
<1>12. Screen(s1, t, D1, x)
    <2>1. CASE Len(c) = 1
        <3>1. t = <<>> /\ s1.head[1] = NULL /\ Len(t) = 0
            BY <1>3, <1>8, <1>9, <2>1
        <3> QED
            BY <3>1 DEF Screen, Chained
    <2>2. CASE Len(c) # 1
        <3>1. /\ 1 \in 1 .. Len(c) - 1 /\ Len(c) - 1 \in 1 .. Len(c) - 1
              /\ 1 + 1 = 2 /\ Len(c) - 1 + 1 = Len(c)
            BY <1>1, <2>2, TwoOrMore
        <3>2. t[1] = c[2] /\ t[Len(t)] = c[Len(c)] /\ c[2] # NULL /\ t # <<>>
            BY <1>1, <1>3, <2>2, <3>1
        <3>3. s1.p[c[Len(c)]] = s.p[c[Len(c)]]
            <4>1. c[Len(c)] # e
                BY <1>7, <3>1
            <4> QED
                BY <1>1, <1>9, <4>1
        <3>4. Chained(s1.p, t)
            <4>1. ASSUME NEW i \in 1 .. Len(t) - 1
                  PROVE  s1.p[t[i]] = t[i + 1]
                <5>1. i \in 1 .. Len(c) - 1 /\ i + 1 \in 1 .. Len(c) - 1
                    BY <1>1, <1>3
                <5>2. t[i] = c[i + 1] /\ t[i + 1] = c[i + 1 + 1] /\ c[i + 1] \in Env /\ c[i + 1] # e
                    BY <1>1, <1>3, <1>7, <5>1
                <5>3. s.p[c[i + 1]] = c[i + 1 + 1]
                    BY <1>4, <5>1 DEF Screen, Chained
                <5> QED
                    BY <1>9, <5>2, <5>3
            <4> QED
                BY <4>1 DEF Chained
        <3> QED
            BY <1>4, <1>8, <1>9, <1>11, <2>2, <3>2, <3>3, <3>4 DEF Screen
    <2> QED
        BY <2>1, <2>2
<1>13. Downstream(s1, D1)
    <2>1. \A d \in D : s1.p[d] = s.p[d]
        BY <1>7, <1>9
    <2> QED
        BY <1>4, <1>9, <1>10, <1>11, <2>1 DEF Downstream
<1>14. IF z # NULL /\ z = x THEN b = <<>> ELSE Pool(s1, b, x)
    <2> SUFFICES ASSUME Pool(s, b, x)
                 PROVE  Pool(s1, b, x)
        BY <1>4
    <2>1. \A i \in 1 .. Len(b) - 1 : s1.p[b[i]] = s.p[b[i]]
        BY <1>2, <1>7, <1>9
    <2>2. Chained(s1.p, b)
        BY <2>1 DEF Pool, Chained
    <2>3. b # <<>> => s1.p[b[Len(b)]] = NULL \/ b[Len(b)] = x
        BY <1>2, <1>7, <1>9 DEF Pool
    <2> QED
        BY <1>10, <2>2, <2>3 DEF Pool
<1>15. Single(s1.p, t, k, x, z)
    <2>1. k # NULL /\ k # x => s1.p[k] = NULL
        BY <1>4, <1>9 DEF Single
    <2>2. z # NULL /\ z # x => s1.p[z] = NULL
        BY <1>4, <1>9 DEF Single
    <2>3. x # NULL /\ (\A i \in 1 .. Len(t) : t[i] # x) => s1.p[x] = NULL
        <3> SUFFICES ASSUME x # NULL, \A i \in 1 .. Len(t) : t[i] # x, x # e
                     PROVE  s1.p[x] = NULL
            BY <1>9
        <3>1. ASSUME NEW i \in 1 .. Len(c), c[i] = x
              PROVE  FALSE
            <4>1. i = 1 \/ (i - 1 \in 1 .. Len(t) /\ i - 1 + 1 = i /\ i - 1 \in 1 .. Len(c) - 1)
                BY <1>1, <1>3
            <4>2. i # 1
                BY <1>11, <3>1
            <4>3. t[i - 1] = c[i]
                BY <1>3, <4>1, <4>2
            <4> QED
                BY <3>1, <4>1, <4>2, <4>3
        <3> QED
            BY <1>4, <1>9, <3>1 DEF Single
    <2> QED
        BY <2>1, <2>2, <2>3 DEF Single
<1>16. Separate(b, t, D1, k, x, z, w)
    <2>1. \A i \in 1 .. Len(t) : i \in 1 .. Len(c) - 1 /\ i + 1 \in 1 .. Len(c) /\ t[i] = c[i + 1]
        BY <1>1, <1>3
    <2>2. \A i, j \in 1 .. Len(t) : t[i] = t[j] => i = j
        <3> SUFFICES ASSUME NEW i \in 1 .. Len(t), NEW j \in 1 .. Len(t), t[i] = t[j]
                     PROVE  i = j
            OBVIOUS
        <3>1. i + 1 = j + 1
            BY <1>5, <2>1 DEF Separate
        <3> QED
            BY <1>1, <1>3, <3>1
    <2>3. \A i \in 1 .. Len(t) : t[i] \notin D1 /\ t[i] # w /\ (t[i] \in {k, z} => t[i] = x)
        BY <1>5, <1>7, <1>11, <2>1 DEF Separate
    <2>4. \A i \in 1 .. Len(b), j \in 1 .. Len(t) : b[i] = t[j] => b[i] = x
        BY <1>5, <2>1 DEF Separate
    <2>5. \A i \in 1 .. Len(b) : b[i] \notin D1
        BY <1>5, <1>7, <1>11 DEF Separate
    <2>6. k \notin D1 /\ x \notin D1 /\ z \notin D1 /\ w \notin D1
        BY <1>5, <1>7, <1>11 DEF Separate
    <2> QED
        BY <1>5, <2>2, <2>3, <2>4, <2>5, <2>6 DEF Separate
<1> QED
    BY <1>6, <1>12, <1>13, <1>14, <1>15, <1>16 DEF Threads, e, t, s1

(* What an envelope sent to timer_iproc changes.                           *)
LEMMA DownstreamAfterENQ ==
    ASSUME NEW s \in Store(Env, EnvQueue), NEW e \in Env
    PROVE  /\ env_ENQ(s, 2, e).tail[2] = e
           /\ \A r \in {1, envelope_q} : /\ env_ENQ(s, 2, e).head[r] = s.head[r]
                                         /\ env_ENQ(s, 2, e).tail[r] = s.tail[r]
           /\ s.head[2] = NULL => env_ENQ(s, 2, e).head[2] = e /\ env_ENQ(s, 2, e).p = s.p
           /\ s.head[2] # NULL =>
                 /\ env_ENQ(s, 2, e).head[2] = s.head[2]
                 /\ env_ENQ(s, 2, e).p[e] = NULL
                 /\ s.tail[2] # e /\ s.tail[2] \in Env => env_ENQ(s, 2, e).p[s.tail[2]] = e
                 /\ \A n \in Env : n # e /\ n # s.tail[2] => env_ENQ(s, 2, e).p[n] = s.p[n]
<1>1. 1 \in EnvQueue /\ 2 \in EnvQueue /\ envelope_q \in EnvQueue /\ 1 # 2 /\ envelope_q # 2
    BY Queues
<1> QED
    BY <1>1, AfterENQ

(* A printed second goes back to the timer, which takes it.                *)
LEMMA DownstreamENQ ==
    ASSUME NEW s \in Store(Env, EnvQueue), NEW b \in Seq(Env), NEW c \in Seq(Env),
           NEW D \in SUBSET Env, NEW k \in Env \cup {NULL}, NEW x \in Env \cup {NULL},
           NEW z \in Env \cup {NULL}, NEW w,
           Threads(s, b, c, D, k, x, z, w), NEW e \in D
    PROVE  Threads(env_ENQ(s, 2, e), b, c, D, k, x, z, w)
<1> DEFINE s1 == env_ENQ(s, 2, e)
<1>1. 1 \in EnvQueue /\ 2 \in EnvQueue /\ envelope_q \in EnvQueue /\ envelope_q # 2 /\ NULL \notin Env
      /\ e \in Env /\ 1 # 2
    BY Queues
<1>2. /\ \A i \in 1 .. Len(b) : b[i] \in Env
      /\ \A i \in 1 .. Len(c) : c[i] \in Env
      /\ b # <<>> => Len(b) \in 1 .. Len(b)
      /\ c # <<>> => Len(c) \in 1 .. Len(c)
      /\ \A i \in 1 .. Len(b) - 1 : i \in 1 .. Len(b)
      /\ \A i \in 1 .. Len(c) - 1 : i \in 1 .. Len(c)
    BY EnvSeq
<1>3. /\ Screen(s, c, D, x) /\ Downstream(s, D) /\ Single(s.p, c, k, x, z)
      /\ IF z # NULL /\ z = x THEN b = <<>> ELSE Pool(s, b, x)
      /\ Separate(b, c, D, k, x, z, w)
    BY DEF Threads
<1>4. \A r \in {1, envelope_q} : s1.head[r] = s.head[r] /\ s1.tail[r] = s.tail[r]
    BY <1>1, DownstreamAfterENQ
<1>5. /\ \A n \in Env : n \notin D => s1.p[n] = s.p[n]
      /\ \A d \in D : s1.p[d] \in D \cup {NULL}
      /\ s1.tail[2] = e /\ s1.head[2] \in D
    <2>1. CASE s.head[2] = NULL
        <3>1. s1.tail[2] = e /\ s1.head[2] = e /\ s1.p = s.p
            BY <1>1, <2>1, DownstreamAfterENQ
        <3> QED
            BY <1>3, <3>1 DEF Downstream
    <2>2. CASE s.head[2] # NULL
        <3>1. s.tail[2] \in D /\ s.head[2] \in D
            BY <1>3, <2>2 DEF Downstream
        <3>2. s1.tail[2] = e /\ s1.head[2] = s.head[2] /\ s1.p[e] = NULL
            BY <1>1, <2>2, DownstreamAfterENQ
        <3>3. s.tail[2] # e => s1.p[s.tail[2]] = e
            BY <1>1, <2>2, <3>1, DownstreamAfterENQ
        <3>4. \A n \in Env : n # e /\ n # s.tail[2] => s1.p[n] = s.p[n]
            BY <1>1, <2>2, DownstreamAfterENQ
        <3>5. \A n \in Env : n \notin D => s1.p[n] = s.p[n]
            BY <3>1, <3>4
        <3>6. \A d \in D : s1.p[d] \in D \cup {NULL}
            BY <1>3, <3>2, <3>3, <3>4 DEF Downstream
        <3> QED
            BY <3>1, <3>2, <3>5, <3>6
    <2> QED
        BY <2>1, <2>2
<1> HIDE DEF s1
<1>6. /\ \A i \in 1 .. Len(b) : s1.p[b[i]] = s.p[b[i]]
      /\ \A i \in 1 .. Len(c) : s1.p[c[i]] = s.p[c[i]]
      /\ (k # NULL => s1.p[k] = s.p[k]) /\ (x # NULL => s1.p[x] = s.p[x])
      /\ (z # NULL => s1.p[z] = s.p[z])
    BY <1>2, <1>3, <1>5 DEF Separate
<1>7. Pool(s, b, x) => Pool(s1, b, x)
    <2>1. Chained(s.p, b) => Chained(s1.p, b)
        BY <1>2, <1>6 DEF Chained
    <2> QED
        BY <1>2, <1>4, <1>6, <2>1 DEF Pool
<1>8. Screen(s1, c, D, x)
    <2>1. Chained(s1.p, c)
        BY <1>2, <1>3, <1>6 DEF Chained, Screen
    <2> QED
        BY <1>2, <1>3, <1>4, <1>6, <2>1 DEF Screen
<1>9. Downstream(s1, D)
    BY <1>5 DEF Downstream
<1>10. Single(s1.p, c, k, x, z)
    BY <1>3, <1>6 DEF Single
<1> QED
    BY <1>3, <1>7, <1>8, <1>9, <1>10 DEF Threads, s1

(* One of D is taken: what is left is still linked within D.               *)
LEMMA DownstreamDEQ ==
    ASSUME NEW s \in Store(Env, EnvQueue), NEW b \in Seq(Env), NEW c \in Seq(Env),
           NEW D \in SUBSET Env, NEW k \in Env \cup {NULL}, NEW x \in Env \cup {NULL},
           NEW z \in Env \cup {NULL}, NEW w,
           Threads(s, b, c, D, k, x, z, w)
    PROVE  Threads(env_DEQ(s, 2), b, c, D, k, x, z, w)
<1> DEFINE s1 == env_DEQ(s, 2)
           h  == s.head[2]
<1>1. 1 \in EnvQueue /\ 2 \in EnvQueue /\ envelope_q \in EnvQueue /\ envelope_q # 2 /\ NULL \notin Env
      /\ 1 # 2
    BY Queues
<1>2. /\ \A i \in 1 .. Len(b) : b[i] \in Env
      /\ \A i \in 1 .. Len(c) : c[i] \in Env
      /\ b # <<>> => Len(b) \in 1 .. Len(b)
      /\ c # <<>> => Len(c) \in 1 .. Len(c)
      /\ \A i \in 1 .. Len(b) - 1 : i \in 1 .. Len(b)
      /\ \A i \in 1 .. Len(c) - 1 : i \in 1 .. Len(c)
    BY EnvSeq
<1>3. /\ Screen(s, c, D, x) /\ Downstream(s, D) /\ Single(s.p, c, k, x, z)
      /\ IF z # NULL /\ z = x THEN b = <<>> ELSE Pool(s, b, x)
      /\ Separate(b, c, D, k, x, z, w)
    BY DEF Threads
<1>4. CASE h = NULL
    BY <1>4 DEF env_DEQ
<1>5. CASE h # NULL
    <2>1. h \in D /\ s.tail[2] \in D
        BY <1>3, <1>5 DEF Downstream
    <2>2. /\ \A r \in {1, envelope_q} : s1.head[r] = s.head[r] /\ s1.tail[r] = s.tail[r]
          /\ s1.p[h] = NULL /\ s1.head[2] = s.p[h]
          /\ s1.tail[2] = IF s.p[h] = NULL THEN NULL ELSE s.tail[2]
        BY <1>1, <1>5, AfterDEQ
    <2>3. \A n \in Env : n # h => s1.p[n] = s.p[n]
        BY <1>1, <1>5, AfterDEQ
    <2> HIDE DEF s1, h
    <2>4. /\ \A i \in 1 .. Len(b) : s1.p[b[i]] = s.p[b[i]]
          /\ \A i \in 1 .. Len(c) : s1.p[c[i]] = s.p[c[i]]
          /\ (k # NULL => s1.p[k] = s.p[k]) /\ (x # NULL => s1.p[x] = s.p[x])
          /\ (z # NULL => s1.p[z] = s.p[z])
        <3>1. /\ \A i \in 1 .. Len(b) : b[i] # h
              /\ \A i \in 1 .. Len(c) : c[i] # h
              /\ k # h /\ x # h /\ z # h
            BY <1>3, <2>1 DEF Separate
        <3> QED
            BY <1>2, <2>3, <3>1
    <2>5. Pool(s, b, x) => Pool(s1, b, x)
        <3>1. Chained(s.p, b) => Chained(s1.p, b)
            BY <1>2, <2>4 DEF Chained
        <3> QED
            BY <1>2, <2>2, <2>4, <3>1 DEF Pool
    <2>6. Screen(s1, c, D, x)
        <3>1. Chained(s1.p, c)
            BY <1>2, <1>3, <2>4 DEF Chained, Screen
        <3> QED
            BY <1>2, <1>3, <2>2, <2>4, <3>1 DEF Screen
    <2>7. Downstream(s1, D)
        BY <1>3, <2>1, <2>2, <2>3 DEF Downstream
    <2>8. Single(s1.p, c, k, x, z)
        BY <1>3, <2>4 DEF Single
    <2> QED
        BY <1>3, <2>5, <2>6, <2>7, <2>8 DEF Threads, s1
<1> QED
    BY <1>4, <1>5

(* An envelope counts one, none counts nothing.                            *)
One(e) == IF e = NULL THEN 0 ELSE 1

(* Nothing leads to the envelope f.                                        *)
Unlinked(s, f) ==
    /\ \A q \in EnvQueue : s.head[q] # f
    /\ \A e \in Env : s.p[e] # f

(* The CCI has begun its loop, and its variable first is not referred to   *)
(* by anything else.                                                       *)
Begun ==
    /\ pc[CCI] \notin {"env", "first"} /\ env[CCI] # NULL /\ first # NULL
    /\ Unlinked(envs, first)
    /\ \A p \in Client : env[p] # first
    /\ \A i \in 1 .. Len(frames) : frames[i].env # first

(* Neither env_DEQ nor env_ENQ of another envelope leads to f.             *)
LEMMA UnlinkedDEQ ==
    ASSUME NEW s \in Store(Env, EnvQueue), NEW q \in EnvQueue, NEW f, f # NULL, Unlinked(s, f)
    PROVE  Unlinked(env_DEQ(s, q), f)
<1> DEFINE s1 == env_DEQ(s, q)
           e  == s.head[q]
<1>1. CASE e = NULL
    BY <1>1 DEF env_DEQ
<1>2. CASE e # NULL
    <2>1. e \in Env /\ s1.p[e] = NULL /\ (\A n \in Env : n # e => s1.p[n] = s.p[n])
        BY <1>2, AfterDEQ
    <2>2. s1.head[q] = s.p[e] /\ (\A r \in EnvQueue : r # q => s1.head[r] = s.head[r])
        BY <1>2, AfterDEQ
    <2> HIDE DEF s1, e
    <2>3. \A n \in Env : s1.p[n] # f
        BY <2>1 DEF Unlinked
    <2>4. \A r \in EnvQueue : s1.head[r] # f
        BY <2>1, <2>2 DEF Unlinked
    <2> QED
        BY <2>3, <2>4 DEF Unlinked, s1
<1> QED
    BY <1>1, <1>2

LEMMA UnlinkedENQ ==
    ASSUME NEW s \in Store(Env, EnvQueue), NEW q, NEW e \in Env \cup {NULL},
           NEW f, f # NULL, e # f, Unlinked(s, f)
    PROVE  Unlinked(env_ENQ(s, q, e), f)
<1>1. CASE e = NULL
    BY <1>1 DEF env_ENQ, PCB_ENQ
<1>2. CASE s.head[q] = NULL
    BY <1>2 DEF Store, env_ENQ, PCB_ENQ, Unlinked
<1>3. CASE s.head[q] # NULL /\ e # NULL
    <2>1. env_ENQ(s, q, e) = [s EXCEPT !.p = [@ EXCEPT ![s.tail[q]] = e, ![e] = NULL],
                                       !.tail[q] = e]
        BY <1>3 DEF env_ENQ, PCB_ENQ
    <2> QED
        BY <2>1 DEF Store, Unlinked
<1> QED
    BY <1>1, <1>2, <1>3

(* The handler on top of the stack is given another envelope.              *)
LEMMA TopSet ==
    ASSUME NEW fr \in Seq(Frame), fr # <<>>, NEW e \in Env \cup {NULL},
           NEW fr1, fr1 = [fr EXCEPT ![Len(fr)].env = e]
    PROVE  /\ fr1 \in Seq(Frame) /\ Len(fr1) = Len(fr) /\ fr1 # <<>>
           /\ Len(fr) \in Nat \ {0} /\ Len(fr) \in 1 .. Len(fr)
           /\ \A i \in 1 .. Len(fr) : i # Len(fr) => fr1[i] = fr[i]
           /\ fr1[Len(fr)].env = e
           /\ \A i \in 1 .. Len(fr) : /\ fr1[i].pid = fr[i].pid
                                      /\ fr1[i].interrupted = fr[i].interrupted
<1> DEFINE n == Len(fr)
           f == [fr[n] EXCEPT !.env = e]
<1>1. n \in Nat \ {0} /\ n \in 1 .. n
    BY EmptySeq
<1>2. fr[n] \in Frame
    BY <1>1, ElementOfSeq
<1>3. f \in Frame /\ f.pid = fr[n].pid /\ f.interrupted = fr[n].interrupted /\ f.env = e
    BY <1>2 DEF Frame
<1>4. fr1 = [fr EXCEPT ![n] = f]
    OBVIOUS
<1> HIDE DEF f
<1>5. /\ fr1 \in Seq(Frame) /\ Len(fr1) = n /\ fr1[n] = f
      /\ \A i \in 1 .. n : i # n => fr1[i] = fr[i]
    BY <1>1, <1>3, <1>4, ExceptSeq
<1>6. fr1 # <<>>
    BY <1>1, <1>5, EmptySeq
<1> QED
    BY <1>1, <1>3, <1>5, <1>6

(* The call of the handler on top of the stack, and what a handler that    *)
(* returns or arrives leaves of the stack.                                 *)
LEMMA TopCalls ==
    ASSUME NEW h \in Seq(Call), NEW n \in Nat \ {0}, Len(h) = n, NEW c \in Call,
           NEW h1, h1 = [h EXCEPT ![Len(h)] = c]
    PROVE  /\ h1 \in Seq(Call) /\ Len(h1) = n /\ h1[n] = c
           /\ \A i \in 1 .. n : i # n => h1[i] = h[i]
<1>1. n \in 1 .. n
    OBVIOUS
<1> QED
    BY <1>1, ExceptSeq

LEMMA TopGone ==
    ASSUME NEW S, NEW fr \in Seq(S), fr # <<>>,
           NEW fr1, fr1 = SubSeq(fr, 1, Len(fr) - 1)
    PROVE  /\ fr1 \in Seq(S) /\ Len(fr) \in Nat \ {0} /\ Len(fr1) = Len(fr) - 1
           /\ \A i \in 1 .. Len(fr1) : i \in 1 .. Len(fr) /\ i # Len(fr) /\ fr1[i] = fr[i]
           /\ \A i \in 1 .. Len(fr) : i # Len(fr) => i \in 1 .. Len(fr1)
<1>1. Len(fr) \in Nat \ {0}
    BY EmptySeq
<1>2. /\ fr1 \in Seq(S) /\ Len(fr1) = Len(fr) - 1
      /\ \A i \in 1 .. Len(fr) - 1 : fr1[i] = fr[i]
    BY <1>1, WithoutLast
<1> QED
    BY <1>1, <1>2

LEMMA TopNew ==
    ASSUME NEW S, NEW fr \in Seq(S), NEW f \in S, NEW fr1, fr1 = Append(fr, f)
    PROVE  /\ fr1 \in Seq(S) /\ Len(fr) \in Nat /\ Len(fr1) = Len(fr) + 1 /\ fr1 # <<>>
           /\ fr1[Len(fr1)] = f /\ Len(fr1) \in 1 .. Len(fr1)
           /\ \A i \in 1 .. Len(fr) : i \in 1 .. Len(fr1) /\ i # Len(fr1) /\ fr1[i] = fr[i]
           /\ \A i \in 1 .. Len(fr1) : i # Len(fr1) => i \in 1 .. Len(fr)
<1>1. /\ fr1 \in Seq(S) /\ Len(fr1) = Len(fr) + 1 /\ fr1[Len(fr) + 1] = f /\ Len(fr) \in Nat
      /\ \A i \in 1 .. Len(fr) : fr1[i] = fr[i]
    BY AppendProperties
<1>2. fr1 # <<>>
    BY <1>1, EmptySeq
<1> QED
    BY <1>1, <1>2

-----------------------------------------------------------------------------
(* What a call that may block returns.                                     *)
LEMMA RequestResult ==
    ASSUME RTXInv, NEW p \in Client, RequestEnv(p)
    PROVE  /\ Runs(p) /\ UNCHANGED <<frames, sender_id>>
           /\ at'[p] = "user" => /\ envs.head[envelope_q] # NULL
                                 /\ envs' = env_DEQ(envs, envelope_q)
           /\ at'[p] # "user" => envs.head[envelope_q] = NULL /\ UNCHANGED envs
           /\ at'[p] # "emptied" /\ at[p] # "emptied"
<1>1. at \in [User -> Place] /\ p \in User
    BY Processes DEF RTXInv, KernelInv, TypeOK
<1>2. Runs(p) /\ UNCHANGED <<frames, sender_id>>
    BY DEF RequestEnv
<1>5. at[p] # "emptied"
    BY DEF RequestEnv
<1>3. CASE envs.head[envelope_q] # NULL
    BY <1>1, <1>2, <1>3, <1>5 DEF RequestEnv
<1>4. CASE envs.head[envelope_q] = NULL
    <2>1. at' = [at EXCEPT ![curr_process] = "request"] /\ UNCHANGED envs
        BY <1>4 DEF RequestEnv, process_switch
    <2> QED
        BY <1>1, <1>2, <1>4, <1>5, <2>1 DEF Runs
<1> QED
    BY <1>3, <1>4

(* What a call of receive_message returns, ...                             *)
LEMMA ReceiveResult ==
    ASSUME RTXInv, NEW p \in Client, ReceiveMessage(p) \/ ResumeReceive(p)
    PROVE  /\ Runs(p) /\ UNCHANGED <<frames, sender_id>>
           /\ at'[p] = "user" => envs.head[p] # NULL /\ envs' = env_DEQ(envs, p)
           /\ at'[p] # "user" => UNCHANGED envs
           /\ at[p] # "emptied" /\ \A r \in User : at'[r] = "emptied" => at[r] = "emptied"
<1>1. at \in [User -> Place] /\ p \in User
    BY Processes DEF RTXInv, KernelInv, TypeOK
<1>2. Runs(p) /\ UNCHANGED <<frames, sender_id>> /\ at[p] # "emptied"
    BY DEF ReceiveMessage, ResumeReceive
<1>3. CASE envs' = env_DEQ(envs, p) /\ at' = [at EXCEPT ![p] = "user"] /\ envs.head[p] # NULL
    BY <1>1, <1>2, <1>3
<1>4. CASE UNCHANGED envs /\ at' = [at EXCEPT ![p] = "receive"]
    BY <1>1, <1>2, <1>4
<1>5. CASE UNCHANGED envs /\ at' = [at EXCEPT ![p] = "taking"]
    BY <1>1, <1>2, <1>5
<1>6. CASE UNCHANGED <<envs, at>> /\ at[p] = "receive"
    BY <1>1, <1>2, <1>6
<1>7. CASE ReceiveMessage(p)
    <2>1. CASE envs.head[p] # NULL
        BY <1>3, <1>7, <2>1 DEF ReceiveMessage, TakeMessage
    <2>2. CASE envs.head[p] = NULL
        BY <1>2, <1>4, <1>7, <2>2 DEF ReceiveMessage, process_switch, Runs
    <2> QED
        BY <2>1, <2>2
<1>8. CASE ResumeReceive(p)
    BY <1>3, <1>5, <1>6, <1>8 DEF ResumeReceive, TakeMessage
<1> QED
    BY <1>7, <1>8

(* ... and what the two stores of a dequeue that is not atomic do.         *)
LEMMA StoreHeadResult ==
    ASSUME RTXInv, NEW p \in Client, StoreHead(p)
    PROVE  /\ Runs(p) /\ UNCHANGED <<frames, sender_id>> /\ envs.head[p] \in Env
           /\ at[p] = "taking" /\ at' = [at EXCEPT ![p] = "emptied"]
           /\ envs' \in Store(Env, EnvQueue) /\ envs'.tail = envs.tail
           /\ envs'.p = [envs.p EXCEPT ![envs.head[p]] = NULL]
           /\ envs'.head = [envs.head EXCEPT ![p] = NULL]
<1>1. /\ p \in User /\ p \in EnvQueue /\ KernelInv /\ NULL \notin Env
      /\ envs \in Store(Env, EnvQueue)
    BY Processes, Domains DEF RTXInv, KernelInv, TypeOK
<1>2. /\ Runs(p) /\ UNCHANGED <<frames, sender_id>>
      /\ at[p] = "taking" /\ at' = [at EXCEPT ![p] = "emptied"]
      /\ envs' = [envs EXCEPT !.head[p] = NULL, !.p[envs.head[p]] = NULL]
    BY DEF StoreHead
<1>3. envs.head[p] \in Env
    BY <1>1, <1>2 DEF KernelInv, Taking, Store
<1>4. /\ envs'.p = [envs.p EXCEPT ![envs.head[p]] = NULL]
      /\ envs'.head = [envs.head EXCEPT ![p] = NULL] /\ envs'.tail = envs.tail
    BY <1>1, <1>2 DEF Store
<1>5. envs' \in Store(Env, EnvQueue)
    BY <1>1, StoreHeadGood DEF KernelInv, TypeOK
<1> QED
    BY <1>2, <1>3, <1>4, <1>5

LEMMA StoreTailResult ==
    ASSUME RTXInv, NEW p \in Client, StoreTail(p)
    PROVE  /\ Runs(p) /\ UNCHANGED <<frames, sender_id>>
           /\ at[p] = "emptied" /\ at' = [at EXCEPT ![p] = "user"]
           /\ envs' \in Store(Env, EnvQueue)
           /\ envs'.p = envs.p /\ envs'.head = envs.head
           /\ \A r \in EnvQueue : r # p => envs'.tail[r] = envs.tail[r]
<1>1. /\ p \in User /\ p \in EnvQueue /\ KernelInv /\ envs \in Store(Env, EnvQueue)
    BY Processes, Domains DEF RTXInv, KernelInv, TypeOK
<1>2. /\ Runs(p) /\ UNCHANGED <<frames, sender_id>>
      /\ at[p] = "emptied" /\ at' = [at EXCEPT ![p] = "user"]
      /\ envs' = [envs EXCEPT !.tail[p] = NULL]
    BY DEF StoreTail
<1>3. envs' \in Store(Env, EnvQueue)
    BY <1>1, StoreTailGood DEF KernelInv, TypeOK
<1> QED
    BY <1>1, <1>2, <1>3 DEF Store

-----------------------------------------------------------------------------
(* The envelope that the CCI asks for and never uses.                      *)

(* What the CCI does in its loop, and what the others do, in terms of the  *)
(* envelopes: nothing, ...                                                 *)
PcOnly ==
    /\ UNCHANGED <<envs, env, frames, first>>
    /\ \/ pc' = pc
       \/ \E p \in Client, next \in Point \ {"env", "first"} : pc' = [pc EXCEPT ![p] = next]

(* Begun is kept by steps that only move a program, ...                    *)
LEMMA BegunPcOnly ==
    ASSUME RTXInv, Begun, PcOnly
    PROVE  Begun'
<1>1. pc \in [Client -> Point] /\ CCI \in Client
    BY Processes DEF RTXInv, Programs
<1>2. pc'[CCI] \notin {"env", "first"}
    BY <1>1 DEF PcOnly, Begun
<1> QED
    BY <1>2 DEF PcOnly, Begun, Unlinked

(* ... by calls that return an envelope, ...                               *)
LEMMA BegunObtains ==
    ASSUME RTXInv, Begun, NEW p \in Client, NEW q \in EnvQueue,
           NEW next \in Point \ {"env", "first"}, Obtains(p, q, next),
           at'[p] = "user" => envs.head[q] # NULL /\ envs' = env_DEQ(envs, q),
           at'[p] # "user" => UNCHANGED envs,
           UNCHANGED <<frames, first>>
    PROVE  Begun'
<1>1. pc \in [Client -> Point] /\ env \in [Client -> Env \cup {NULL}] /\ CCI \in Client
    BY Processes DEF RTXInv, Programs
<1>2. CASE at'[p] = "user"
    <2>1. /\ env' = [env EXCEPT ![p] = envs.head[q]] /\ pc' = [pc EXCEPT ![p] = next]
          /\ envs' = env_DEQ(envs, q) /\ envs.head[q] # NULL
        BY <1>2 DEF Obtains, Goto
    <2>2. envs \in Store(Env, EnvQueue) /\ envs.head[q] # first
        BY DEF RTXInv, KernelInv, TypeOK, Begun, Unlinked
    <2>3. Unlinked(envs', first')
        BY <2>1, <2>2, UnlinkedDEQ DEF Begun
    <2>4. /\ pc'[CCI] \notin {"env", "first"} /\ env'[CCI] # NULL
          /\ \A r \in Client : env'[r] # first
        BY <1>1, <2>1, <2>2 DEF Begun
    <2> QED
        BY <2>3, <2>4 DEF Begun
<1>3. CASE at'[p] # "user"
    <2>1. PcOnly
        BY <1>3 DEF Obtains, PcOnly
    <2> QED
        BY <2>1, BegunPcOnly
<1> QED
    BY <1>2, <1>3

(* ... by the stores of a dequeue, ...                                     *)
LEMMA BegunStores ==
    ASSUME RTXInv, Begun, NEW p \in Client, NEW next \in Point \ {"env", "first"},
           \/ StoreHead(p) /\ env' = [env EXCEPT ![p] = envs.head[p]] /\ UNCHANGED pc
           \/ StoreTail(p) /\ Goto(p, next) /\ UNCHANGED env,
           UNCHANGED first
    PROVE  Begun'
<1>1. /\ pc \in [Client -> Point] /\ env \in [Client -> Env \cup {NULL}] /\ CCI \in Client
      /\ envs \in Store(Env, EnvQueue) /\ p \in EnvQueue
    BY Processes, Domains DEF RTXInv, Programs, KernelInv, TypeOK
<1>2. CASE StoreHead(p) /\ env' = [env EXCEPT ![p] = envs.head[p]] /\ UNCHANGED pc
    <2>1. /\ envs.head[p] \in Env /\ UNCHANGED frames
          /\ envs'.p = [envs.p EXCEPT ![envs.head[p]] = NULL]
          /\ envs'.head = [envs.head EXCEPT ![p] = NULL]
        BY <1>2, StoreHeadResult
    <2>2. Unlinked(envs', first) /\ envs.head[p] # first
        BY <1>1, <2>1 DEF Begun, Unlinked, Store
    <2>3. envs.head[p] # NULL
        BY <2>1, Queues
    <2>4. /\ pc'[CCI] \notin {"env", "first"} /\ env'[CCI] # NULL
          /\ \A r \in Client : env'[r] # first
        BY <1>1, <1>2, <2>2, <2>3 DEF Begun
    <2> QED
        BY <2>1, <2>2, <2>4 DEF Begun
<1>3. CASE StoreTail(p) /\ Goto(p, next) /\ UNCHANGED env
    <2>1. UNCHANGED frames /\ envs'.p = envs.p /\ envs'.head = envs.head
        BY <1>3, StoreTailResult
    <2>2. pc'[CCI] \notin {"env", "first"}
        BY <1>1, <1>3 DEF Goto, Begun
    <2> QED
        BY <1>3, <2>1, <2>2 DEF Begun, Unlinked
<1> QED
    BY <1>2, <1>3

LEMMA BegunFrames ==
    ASSUME RTXInv, Begun, UNCHANGED <<pc, env, first>>,
           Unlinked(envs', first),
           \A i \in 1 .. Len(frames') : frames'[i].env # first
    PROVE  Begun'
BY DEF Begun

(* ... by every step of a program, ...                                     *)
LEMMA BegunProgram ==
    ASSUME RTXInv, Begun, Program
    PROVE  Begun'
<1>1. /\ envs \in Store(Env, EnvQueue) /\ pc \in [Client -> Point]
      /\ env \in [Client -> Env \cup {NULL}]
      /\ CCI \in Client /\ A \in Client /\ B \in Client
      /\ held \in [User -> SUBSET Env] /\ Client \subseteq User
      /\ envelope_q \in EnvQueue /\ PID \subseteq EnvQueue /\ Client \subseteq PID
    BY Processes, Queues DEF RTXInv, KernelInv, TypeOK, Programs
<1>2. {"ask", "receive", "execute", "start", "print", "release", "renew", "yield", "console",
       "dequeue", "request", "send"} \subseteq Point \ {"env", "first"}
    BY DEF Point
<1>3. ASSUME NEW p \in Client, NEW here, NEW next \in Point \ {"env", "first"},
             Requests(p, here, next)
      PROVE  Begun'
    <2>1. RequestEnv(p) /\ Obtains(p, envelope_q, next) /\ UNCHANGED first
        BY <1>3 DEF Requests
    <2> QED
        BY <1>1, <2>1, RequestResult, BegunObtains
<1>4. ASSUME NEW p \in Client, NEW here, NEW dest_id \in PID, NEW next \in Point \ {"env", "first"},
             Sends(p, here, dest_id, next)
      PROVE  Begun'
    <2>1. /\ envs' = env_ENQ(envs, dest_id, env[p]) /\ env[p] \in held[p]
          /\ UNCHANGED <<frames, env, first>> /\ pc' = [pc EXCEPT ![p] = next]
        BY <1>4 DEF Sends, SendMessage, k_send_message, Goto
    <2>2. env[p] \in Env /\ env[p] # first /\ first # NULL
        BY <1>1, <2>1 DEF Begun
    <2>3. Unlinked(envs', first)
        BY <1>1, <2>1, <2>2, UnlinkedENQ DEF Begun
    <2>4. pc'[CCI] \notin {"env", "first"}
        BY <1>1, <2>1 DEF Begun
    <2> QED
        BY <2>1, <2>3, <2>4 DEF Begun
<1>5. ASSUME NEW p \in Client, NEW next \in Point \ {"env", "first"}, Receives(p, next)
      PROVE  Begun'
    <2>1. UNCHANGED first /\ p \in EnvQueue
        BY <1>1, <1>5 DEF Receives
    <2>2. CASE (ReceiveMessage(p) \/ ResumeReceive(p)) /\ Obtains(p, p, next)
        BY <2>1, <2>2, ReceiveResult, BegunObtains
    <2>3. CASE \/ StoreHead(p) /\ env' = [env EXCEPT ![p] = envs.head[p]] /\ UNCHANGED pc
               \/ StoreTail(p) /\ Goto(p, next) /\ UNCHANGED env
        BY <2>1, <2>3, BegunStores
    <2> QED
        BY <1>5, <2>2, <2>3 DEF Receives
<1>6. ASSUME NEW p \in Client, NEW next \in Point \ {"env", "first"}, Yields(p, next)
      PROVE  Begun'
    <2>1. PcOnly
        BY <1>6 DEF Yields, ReleaseProcessor, Goto, PcOnly
    <2> QED
        BY <2>1, BegunPcOnly
<1>7. CASE CCIStep
    <2>1. ~ Requests(CCI, "env", "first") /\ ~ CCIFirst
        BY DEF Begun, Requests, CCIFirst
    <2>2. CASE CCIReceive
        BY <1>1, <1>2, <1>5, <2>2 DEF CCIReceive
    <2>3. CASE CCIClock \/ CCIChange
        <3>1. UNCHANGED <<envs, env, frames, first>> /\ Goto(CCI, "release")
            BY <2>3 DEF CCIClock, CCIChange, ChangePriority, vars
        <3>2. PcOnly
            BY <1>1, <1>2, <3>1 DEF PcOnly, Goto
        <3> QED
            BY <3>2, BegunPcOnly
    <2>4. ASSUME NEW c, NEW next \in {"start", "print"}, CCIRenew(c, next)
          PROVE  Begun'
        <3>1. RequestEnv(CCI) /\ Obtains(CCI, envelope_q, next) /\ UNCHANGED first
            BY <2>4 DEF CCIRenew
        <3> QED
            BY <1>1, <1>2, <3>1, RequestResult, BegunObtains
    <2>5. CASE CCIRelease
        <3>1. /\ envs' = env_ENQ(envs, envelope_q, env[CCI])
              /\ UNCHANGED <<frames, env, first>> /\ pc' = [pc EXCEPT ![CCI] = "renew"]
            BY <2>5 DEF CCIRelease, k_release_msg_env, Goto
        <3>2. env[CCI] \in Env \cup {NULL} /\ env[CCI] # first /\ first # NULL
            BY <1>1 DEF Begun
        <3>3. Unlinked(envs', first)
            BY <1>1, <3>1, <3>2, UnlinkedENQ DEF Begun
        <3>4. pc'[CCI] = "renew"
            BY <1>1, <3>1
        <3> QED
            BY <3>1, <3>3, <3>4 DEF Begun
    <2> QED
        BY <1>1, <1>2, <1>3, <1>4, <1>6, <1>7, <2>1, <2>2, <2>3, <2>4, <2>5, Processes DEF CCIStep
<1>8. CASE AStep
    <2>1. CASE ADequeue
        <3>1. A \in EnvQueue /\ A # CCI /\ UNCHANGED first
            BY <1>1, <2>1, Processes DEF ADequeue
        <3>2. CASE /\ envs' = env_DEQ(envs, A) /\ env' = [env EXCEPT ![A] = envs.head[A]]
                   /\ UNCHANGED frames /\ pc' = [pc EXCEPT ![A] = "request"]
            <4>1. Unlinked(envs', first)
                BY <1>1, <3>1, <3>2, UnlinkedDEQ DEF Begun
            <4>2. /\ pc'[CCI] \notin {"env", "first"} /\ env'[CCI] # NULL
                  /\ \A r \in Client : env'[r] # first
                BY <1>1, <3>1, <3>2 DEF Begun, Unlinked
            <4> QED
                BY <3>1, <3>2, <4>1, <4>2 DEF Begun
        <3>3. CASE UNCHANGED <<envs, env, pc, frames>>
            BY <3>1, <3>3, BegunPcOnly DEF PcOnly
        <3>4. CASE \/ StoreHead(A) /\ env' = [env EXCEPT ![A] = envs.head[A]] /\ UNCHANGED pc
                   \/ StoreTail(A) /\ Goto(A, "request") /\ UNCHANGED env
            BY <1>1, <1>2, <3>1, <3>4, BegunStores
        <3> QED
            BY <2>1, <3>2, <3>3, <3>4 DEF ADequeue, Goto
    <2> QED
        BY <1>1, <1>2, <1>3, <1>4, <1>5, <1>6, <1>8, <2>1, Processes DEF AStep
<1>9. CASE BStep
    BY <1>1, <1>2, <1>4, <1>5, <1>6, <1>9, Processes DEF BStep
<1>10. CASE NullStep
    <2>1. PICK p \in NullProcs : (NullDrain(p) \/ ReleaseProcessor(p)) /\ UNCHANGED rtx
        BY <1>10 DEF NullStep
    <2>2. UNCHANGED <<pc, env, first, frames>>
        BY <2>1 DEF NullDrain, ReleaseProcessor, rtx
    <2>3. NULLPID \in EnvQueue
        BY Queues
    <2>4. Unlinked(envs', first)
        <3>1. envs' = envs \/ envs' = env_DEQ(envs, NULLPID)
            BY <2>1 DEF NullDrain, ReleaseProcessor
        <3> QED
            BY <1>1, <2>3, <3>1, UnlinkedDEQ DEF Begun
    <2> QED
        BY <2>2, <2>4 DEF Begun
<1> QED
    BY <1>7, <1>8, <1>9, <1>10 DEF Program

(* ... and by every step of a handler.                                     *)
LEMMA BegunHandler ==
    ASSUME RTXInv, Begun, HandlerStep \/ Signal
    PROVE  Begun'
<1>1. /\ envs \in Store(Env, EnvQueue) /\ frames \in Seq(Frame) /\ first # NULL
      /\ sender_id \in [Env -> PID \cup {-1}]
      /\ 0 \in EnvQueue /\ 1 \in EnvQueue /\ 2 \in EnvQueue /\ envelope_q \in EnvQueue
      /\ 0 \in Iproc /\ 1 \in Iproc /\ 2 \in Iproc /\ curr_process \in PID
      /\ \A q \in EnvQueue : envs.head[q] \in Env \cup {NULL} /\ envs.head[q] # first
    BY Processes, Queues DEF RTXInv, KernelInv, TypeOK, Begun, Unlinked, Store
<1>2. CASE KbdTransfer \/ CrtTransfer \/ ClockSend
    <2>1. PICK q : envs' = env_ENQ(envs, q, Top.env)
        BY <1>2 DEF KbdTransfer, CrtTransfer, ClockSend, Reply, k_send_message
    <2>2. /\ frames # <<>> /\ frames' = [frames EXCEPT ![Len(frames)].env = NULL]
          /\ UNCHANGED <<pc, env, first>>
        BY <1>2 DEF KbdTransfer, CrtTransfer, ClockSend, Reply, Doing
    <2>3. /\ Len(frames) \in 1 .. Len(frames) /\ Len(frames') = Len(frames)
          /\ \A i \in 1 .. Len(frames) : frames'[i] = frames[i] \/ frames'[i].env = NULL
        BY <1>1, <2>2, TopSet
    <2>4. Top.env \in Env \cup {NULL} /\ Top.env # first
        <3>1. frames[Len(frames)] \in Frame
            BY <1>1, <2>3, ElementOfSeq
        <3> QED
            BY <2>3, <3>1 DEF Top, Frame, Begun
    <2>5. Unlinked(envs', first)
        BY <1>1, <2>1, <2>4, UnlinkedENQ DEF Begun
    <2>6. \A i \in 1 .. Len(frames') : frames'[i].env # first
        BY <1>1, <2>3 DEF Begun
    <2> QED
        BY <2>2, <2>5, <2>6, BegunFrames
<1>3. CASE KbdDrop \/ CrtDrop \/ HandlerReturn
    <2>1. /\ frames # <<>> /\ frames' = SubSeq(frames, 1, Len(frames) - 1)
          /\ UNCHANGED <<envs, pc, env, first>>
        BY <1>3 DEF KbdDrop, CrtDrop, HandlerReturn, Return
    <2>2. \A i \in 1 .. Len(frames') : i \in 1 .. Len(frames) /\ frames'[i] = frames[i]
        BY <1>1, <2>1, TopGone
    <2>3. /\ \A i \in 1 .. Len(frames') : frames'[i].env # first
          /\ Unlinked(envs', first)
        BY <2>1, <2>2 DEF Begun
    <2> QED
        BY <2>1, <2>3, BegunFrames
<1>4. CASE ClockRequest \/ TimerReceive
    <2>1. frames # <<>> /\ UNCHANGED <<pc, env, first>>
        BY <1>4 DEF ClockRequest, TimerReceive, Doing
    <2>2. \/ UNCHANGED <<envs, frames>>
          \/ \E q \in {2, envelope_q} : /\ envs' = env_DEQ(envs, q)
                                        /\ frames' = [frames EXCEPT ![Len(frames)].env = envs.head[q]]
        BY <1>4 DEF ClockRequest, TimerReceive
    <2>3. CASE UNCHANGED <<envs, frames>>
        BY <2>1, <2>3 DEF Begun
    <2>4. ASSUME NEW q \in {2, envelope_q}, envs' = env_DEQ(envs, q),
                 frames' = [frames EXCEPT ![Len(frames)].env = envs.head[q]]
          PROVE  Begun'
        <3>1. q \in EnvQueue /\ envs.head[q] \in Env \cup {NULL} /\ envs.head[q] # first
            BY <1>1
        <3>2. /\ Len(frames') = Len(frames)
              /\ \A i \in 1 .. Len(frames) : frames'[i] = frames[i] \/ frames'[i].env = envs.head[q]
            BY <1>1, <2>1, <2>4, <3>1, TopSet
        <3>3. \A i \in 1 .. Len(frames') : frames'[i].env # first
            BY <3>1, <3>2 DEF Begun
        <3>4. Unlinked(envs', first)
            BY <1>1, <2>4, <3>1, UnlinkedDEQ DEF Begun
        <3> QED
            BY <2>1, <3>3, <3>4, BegunFrames
    <2> QED
        BY <2>2, <2>3, <2>4
<1>5. CASE Signal
    <2>1. PICK i \in {0, 1, 2}, e \in Env \cup {NULL} :
             /\ e # first /\ frames' = Append(frames, [ pid |-> i, interrupted |-> curr_process, env |-> e ])
             /\ envs' = envs \/ envs' = env_DEQ(envs, i)
        <3>1. CASE TimerSignal
            BY <1>1, <3>1 DEF TimerSignal
        <3>2. CASE KbdSignal
            BY <1>1, <3>2 DEF KbdSignal, Interrupt
        <3>3. CASE CrtSignal
            BY <1>1, <3>3 DEF CrtSignal, Interrupt
        <3> QED
            BY <1>5, <3>1, <3>2, <3>3 DEF Signal
    <2>2. UNCHANGED <<pc, env, first>>
        BY <1>5 DEF Signal, KbdSignal, CrtSignal, TimerSignal
    <2> DEFINE f == [ pid |-> i, interrupted |-> curr_process, env |-> e ]
    <2>3. f \in Frame /\ f.env = e /\ frames' = Append(frames, f)
        BY <1>1, <2>1 DEF Frame
    <2> HIDE DEF f
    <2>4. \A j \in 1 .. Len(frames') :
              frames'[j] = f \/ (j \in 1 .. Len(frames) /\ frames'[j] = frames[j])
        BY <1>1, <2>3, TopNew
    <2>5. \A j \in 1 .. Len(frames') : frames'[j].env # first
        BY <2>1, <2>3, <2>4 DEF Begun
    <2>6. Unlinked(envs', first)
        BY <1>1, <2>1, UnlinkedDEQ DEF Begun
    <2> QED
        BY <2>2, <2>5, <2>6, BegunFrames
<1> QED
    BY <1>2, <1>3, <1>4, <1>5 DEF HandlerStep

-----------------------------------------------------------------------------
(* What spends an envelope.                                                *)

(* Only two actions spend an envelope.                                     *)
LEMMA SpentCounts == RTXInv => posted["s"] \in Nat /\ posted["print"] \in Nat /\ shown \in Nat /\ Spent \in Nat
<1> SUFFICES ASSUME RTXInv
             PROVE  posted["s"] \in Nat /\ posted["print"] \in Nat /\ shown \in Nat /\ Spent \in Nat
    OBVIOUS
<1>1. posted \in [{"s", "print"} -> Nat] /\ shown \in 0 .. MaxShown /\ MaxShown \in Nat
    BY Processes DEF RTXInv, Programs, Stack
<1>2. posted["s"] \in Nat /\ posted["print"] \in Nat /\ shown \in Nat
    BY <1>1
<1> QED
    BY <1>2 DEF Spent

(* The commands s, ps, b and e are counted when they have their new        *)
(* envelope.                                                               *)
LEMMA RenewCounts ==
    ASSUME RTXInv, NEW c \in {"s", "print"}, NEW next, CCIRenew(c, next)
    PROVE  /\ at'[CCI] # "user" => posted' = posted
           /\ at'[CCI] = "user" => /\ posted'[c] = posted[c] + 1
                                   /\ \A d \in {"s", "print"} : d # c => posted'[d] = posted[d]
BY DEF CCIRenew, RTXInv, Programs

(* What has been spent changes in these actions only, ...                  *)
LEMMA Unsent ==
    ASSUME RTXInv, SendsNowhere
    PROVE  /\ ~ ClockSend /\ ~ CCIRenew("s", "start") /\ ~ CCIRenew("print", "print")
           /\ fault = "none" /\ fault' = "null_tail" /\ UNCHANGED rtx
           /\ UNCHANGED <<curr_process, state, priority, pcbs, envs, sender_id, held, at, frames, lost>>
<1>1. /\ fault = "none" /\ fault' = "null_tail" /\ UNCHANGED rtx
      /\ UNCHANGED <<curr_process, state, priority, pcbs, envs, sender_id, held, at, frames, lost>>
    BY DEF SendsNowhere, SendFaults
<1>2. ~ ClockSend
    BY <1>1 DEF ClockSend
<1>3. ASSUME NEW c, NEW next PROVE ~ CCIRenew(c, next)
    <2> SUFFICES ASSUME CCIRenew(c, next) PROVE FALSE
        OBVIOUS
    <2>1. RequestEnv(CCI)
        BY DEF CCIRenew
    <2>2. CASE envs.head[envelope_q] # NULL
        BY <1>1, <2>1, <2>2 DEF RequestEnv
    <2>3. CASE envs.head[envelope_q] = NULL
        BY <1>1, <2>1, <2>3 DEF RequestEnv, process_switch
    <2> QED
        BY <2>2, <2>3
<1> QED
    BY <1>1, <1>2, <1>3

LEMMA History ==
    ASSUME RTXInv, RTXNext
    PROVE  /\ UNCHANGED <<posted, shown>> \/ ClockSend \/ CCIRenew("s", "start") \/ CCIRenew("print", "print")
           /\ ClockSend => shown' = shown + 1 /\ posted' = posted
           /\ CCIRenew("s", "start") \/ CCIRenew("print", "print") => shown' = shown
<1>1. CASE Program
    BY <1>1 DEF Program, CCIStep, AStep, BStep, NullStep, Requests, Sends, Receives, Yields,
                CCIFirst, CCIReceive, CCIClock, CCIChange, CCIRenew, CCIRelease, ADequeue, rtx, ClockSend
<1>2. CASE HandlerStep
    BY <1>2 DEF HandlerStep, KbdTransfer, KbdDrop, CrtTransfer, CrtDrop, ClockRequest, ClockSend,
                TimerReceive, HandlerReturn, CCIRenew
<1>3. CASE Signal
    BY <1>3 DEF Signal, KbdSignal, CrtSignal, TimerSignal, CCIRenew, ClockSend
<1>4. CASE SendsNowhere
    BY <1>4, Unsent DEF SendsNowhere, rtx
<1>5. CASE \E c \in Commands : Type(c)
    BY <1>5 DEF Type, CCIRenew, ClockSend
<1> QED
    BY <1>1, <1>2, <1>3, <1>4, <1>5 DEF RTXNext

(* ... and never decreases.                                                *)
LEMMA HistoryGrows ==
    ASSUME RTXInv, [RTXNext]_all
    PROVE  posted'["s"] >= posted["s"] /\ Spent' >= Spent
<1>1. posted["s"] \in Nat /\ posted["print"] \in Nat /\ shown \in Nat
    BY SpentCounts
<1>2. CASE UNCHANGED <<posted, shown>>
    BY <1>1, <1>2 DEF Spent
<1>3. CASE ClockSend /\ RTXNext
    <2>1. shown' = shown + 1 /\ posted' = posted
        BY <1>3, History
    <2> QED
        BY <1>1, <2>1 DEF Spent
<1>4. ASSUME NEW c \in {"s", "print"}, NEW next, CCIRenew(c, next)
      PROVE  posted'["s"] >= posted["s"] /\ Spent' >= Spent
    <2>1. shown' = shown
        BY <1>4 DEF CCIRenew
    <2>2. /\ posted'["s"] = posted["s"] \/ posted'["s"] = posted["s"] + 1
          /\ posted'["print"] = posted["print"] \/ posted'["print"] = posted["print"] + 1
        BY <1>4, RenewCounts
    <2> QED
        BY <1>1, <2>1, <2>2 DEF Spent
<1>5. CASE UNCHANGED all
    BY <1>1, <1>5 DEF all, rtx, Spent
<1> QED
    BY <1>2, <1>3, <1>4, <1>5, History

(* A program is in the middle of a dequeue from one store to the next.     *)
Rest(p) ==
    \E v : at' = [at EXCEPT ![p] = v] /\ v # "emptied" /\ at[p] \notin {"taking", "emptied"}

LEMMA Between ==
    ASSUME RTXInv, [RTXNext]_all, NEW r \in User
    PROVE  /\ at'[r] = "emptied" => at[r] = "emptied" \/ StoreHead(r)
           /\ at[r] = "taking" => at'[r] = "taking" \/ StoreHead(r)
           /\ at[r] = "emptied" => at'[r] = "emptied" \/ StoreTail(r)
           /\ at[A] = "emptied" /\ pc[A] = "receive" => at'[A] = "emptied" \/ pc'[A] # "receive"
<1>1. /\ at \in [User -> Place] /\ Client \subseteq User /\ NullProcs \subseteq User
      /\ pc \in [Client -> Point] /\ A \in Client
    BY Processes DEF RTXInv, KernelInv, TypeOK, Programs
<1>2. ASSUME NEW p \in User, RequestEnv(p) PROVE Rest(p)
    <2>1. CASE envs.head[envelope_q] # NULL
        BY <1>2, <2>1 DEF RequestEnv, Rest
    <2>2. CASE envs.head[envelope_q] = NULL
        BY <1>2, <2>2 DEF RequestEnv, process_switch, Runs, Rest
    <2> QED
        BY <2>1, <2>2
<1>3. ASSUME NEW p \in User, ReleaseProcessor(p) PROVE Rest(p)
    BY <1>3 DEF ReleaseProcessor, process_switch, Runs, Rest
<1>4. ASSUME NEW p \in Client, ReceiveMessage(p) \/ ResumeReceive(p) PROVE Rest(p) \/ at' = at
    <2>1. CASE ReceiveMessage(p) /\ envs.head[p] # NULL
        BY <2>1 DEF ReceiveMessage, TakeMessage, Rest
    <2>2. CASE ReceiveMessage(p) /\ envs.head[p] = NULL
        BY <2>2 DEF ReceiveMessage, process_switch, Runs, Rest
    <2>3. CASE ResumeReceive(p)
        BY <2>3 DEF ResumeReceive, TakeMessage, Rest
    <2> QED
        BY <1>4, <2>1, <2>2, <2>3
<1>5. ASSUME NEW p \in Client, NEW next, Receives(p, next)
      PROVE  Rest(p) \/ at' = at
             \/ (StoreHead(p) /\ at[p] = "taking" /\ at' = [at EXCEPT ![p] = "emptied"])
             \/ (Goto(p, next) /\ StoreTail(p) /\ at[p] = "emptied" /\ at' = [at EXCEPT ![p] = "user"])
    <2> QED
        BY <1>4, <1>5 DEF Receives, StoreHead, StoreTail
<1>6. ADequeue => \/ Rest(A) \/ at' = at
                  \/ StoreHead(A) /\ at[A] = "taking" /\ at' = [at EXCEPT ![A] = "emptied"]
                  \/ StoreTail(A) /\ at[A] = "emptied" /\ at' = [at EXCEPT ![A] = "user"]
    <2> SUFFICES ASSUME ADequeue
                 PROVE  \/ Rest(A) \/ at' = at
                        \/ StoreHead(A) /\ at[A] = "taking" /\ at' = [at EXCEPT ![A] = "emptied"]
                        \/ StoreTail(A) /\ at[A] = "emptied" /\ at' = [at EXCEPT ![A] = "user"]
        OBVIOUS
    <2>1. CASE Runs(A) /\ at[A] = "user" /\ (at' = at \/ at' = [at EXCEPT ![A] = "taking"])
        BY <2>1 DEF Rest
    <2>2. CASE StoreHead(A) \/ StoreTail(A)
        BY <2>2 DEF StoreHead, StoreTail
    <2> QED
        BY <2>1, <2>2 DEF ADequeue
<1>7. CASE \E p \in User : Rest(p)
    BY <1>1, <1>7 DEF Rest
<1>8. CASE at' = at
    BY <1>1, <1>8
<1>9. CASE \E p \in Client : StoreHead(p) /\ at[p] = "taking" /\ at' = [at EXCEPT ![p] = "emptied"]
    BY <1>1, <1>9
<1>10. ASSUME NEW p \in Client, StoreTail(p), at[p] = "emptied", at' = [at EXCEPT ![p] = "user"],
              p # A \/ pc[A] # "receive" \/ Goto(A, "console")
       PROVE  /\ at'[r] = "emptied" => at[r] = "emptied" \/ StoreHead(r)
              /\ at[r] = "taking" => at'[r] = "taking" \/ StoreHead(r)
              /\ at[r] = "emptied" => at'[r] = "emptied" \/ StoreTail(r)
              /\ at[A] = "emptied" /\ pc[A] = "receive" => at'[A] = "emptied" \/ pc'[A] # "receive"
    BY <1>1, <1>10 DEF Goto
<1>11. CASE CCIStep
    <2>1. CASE \E next : Receives(CCI, next)
        BY <1>1, <1>5, <1>7, <1>8, <1>9, <1>10, <2>1, Processes
    <2>2. CASE RequestEnv(CCI) \/ ReleaseProcessor(CCI)
        BY <1>1, <1>2, <1>3, <1>7, <2>2, Processes
    <2> QED
        BY <1>8, <1>11, <2>1, <2>2
           DEF CCIStep, Requests, Sends, SendMessage, CCIReceive, Yields, CCIFirst, CCIClock,
               CCIChange, ChangePriority, CCIRenew, CCIRelease, vars
<1>12. CASE AStep
    <2>1. CASE Receives(A, "console")
        BY <1>1, <1>5, <1>7, <1>8, <1>9, <1>10, <2>1, Processes
    <2>2. CASE RequestEnv(A) \/ ReleaseProcessor(A)
        BY <1>1, <1>2, <1>3, <1>7, <2>2, Processes
    <2>3. CASE ADequeue
        <3>1. pc[A] # "receive"
            BY <2>3 DEF ADequeue
        <3> QED
            BY <1>1, <1>6, <1>7, <1>8, <1>9, <1>10, <2>3, <3>1, Processes
    <2> QED
        BY <1>8, <1>12, <2>1, <2>2, <2>3 DEF AStep, Requests, Sends, SendMessage, Yields
<1>13. CASE BStep
    <2>1. CASE \E next : Receives(B, next)
        <3>1. A # B
            BY DEF A, B
        <3> QED
            BY <1>1, <1>5, <1>7, <1>8, <1>9, <1>10, <2>1, <3>1, Processes
    <2>2. CASE ReleaseProcessor(B)
        BY <1>1, <1>3, <1>7, <2>2, Processes
    <2> QED
        BY <1>8, <1>13, <2>1, <2>2 DEF BStep, Sends, SendMessage, Yields
<1>14. CASE NullStep
    <2>1. PICK p \in NullProcs : NullDrain(p) \/ ReleaseProcessor(p)
        BY <1>14 DEF NullStep
    <2>2. NullDrain(p) => Rest(p) \/ at' = at
        BY DEF NullDrain, Rest
    <2> QED
        BY <1>1, <1>3, <1>7, <1>8, <2>1, <2>2
<1>15. CASE HandlerStep
    BY <1>8, <1>15 DEF HandlerStep, KbdTransfer, KbdDrop, CrtTransfer, CrtDrop, HandlerReturn,
        ClockRequest, ClockSend, TimerReceive, Reply, Return
<1>16. CASE Signal \/ SendsNowhere \/ (\E c \in Commands : Type(c)) \/ UNCHANGED all
    BY <1>8, <1>16 DEF Signal, KbdSignal, CrtSignal, TimerSignal, Interrupt, SendsNowhere,
        SendFaults, Type, all, vars
<1> QED
    BY <1>11, <1>12, <1>13, <1>14, <1>15, <1>16 DEF RTXNext, Program

(* Nothing calls off the flood, ...                                        *)
LEMMA FloodedStays ==
    ASSUME RTXInv, [RTXNext]_all, Flooded
    PROVE  Flooded'
<1>1. /\ pc \in [Client -> Point] /\ A \in Client /\ CCI \in Client /\ B \in Client
      /\ A # CCI /\ A # B /\ A \in User
    BY Processes DEF RTXInv, Programs, A, B
<1>2. CASE posted["s"] > 1
    <2>1. posted'["s"] \in Nat /\ posted["s"] \in Nat
        <3>1. posted' \in [{"s", "print"} -> Nat]
            BY NextRTXInv DEF RTXInv, Programs
        <3> QED
            BY <3>1, SpentCounts
    <2> QED
        BY <1>2, <2>1, HistoryGrows DEF Flooded
<1>3. CASE pc[A] # "receive"
    <2>1. pc' = pc \/ (\E p \in Client \ {A} : \E next : pc' = [pc EXCEPT ![p] = next])
          \/ (\E next : pc' = [pc EXCEPT ![A] = next] /\ next # "receive")
        <3>1. CASE CCIStep
            BY <1>1, <3>1 DEF CCIStep, Requests, Sends, Receives, Yields, Obtains, Goto,
                CCIFirst, CCIReceive, CCIClock, CCIChange, CCIRenew, CCIRelease
        <3>2. CASE AStep
            BY <1>1, <3>2 DEF AStep, Requests, Sends, Receives, Yields, Obtains, Goto, ADequeue
        <3>3. CASE BStep
            BY <1>1, <3>3 DEF BStep, Requests, Sends, Receives, Yields, Obtains, Goto
        <3>4. CASE NullStep
            BY <3>4 DEF NullStep, rtx
        <3>5. CASE HandlerStep
            BY <3>5 DEF HandlerStep, KbdTransfer, KbdDrop, CrtTransfer, CrtDrop, ClockRequest,
                ClockSend, TimerReceive, HandlerReturn
        <3>6. CASE Signal \/ SendsNowhere \/ (\E c \in Commands : Type(c)) \/ UNCHANGED all
            BY <3>6 DEF Signal, KbdSignal, CrtSignal, TimerSignal, SendsNowhere, Type, all, rtx
        <3> QED
            BY <3>1, <3>2, <3>3, <3>4, <3>5, <3>6 DEF RTXNext, Program
    <2>2. pc'[A] # "receive"
        BY <1>1, <1>3, <2>1
    <2> QED
        BY <2>2 DEF Flooded
<1>4. CASE at[A] = "taking"
    <2>1. at'[A] = "taking" \/ StoreHead(A)
        BY <1>1, <1>4, Between
    <2>2. StoreHead(A) => at'[A] = "emptied"
        BY <1>1 DEF StoreHead, RTXInv, KernelInv, TypeOK
    <2> QED
        BY <2>1, <2>2 DEF Flooded
<1>5. CASE at[A] = "emptied" /\ pc[A] = "receive"
    <2>1. at'[A] = "emptied" \/ pc'[A] # "receive"
        BY <1>1, <1>5, Between
    <2> QED
        BY <2>1 DEF Flooded
<1> QED
    BY <1>2, <1>3, <1>4, <1>5 DEF Flooded

(* ... and a line typed ahead stays one.                                   *)
LEMMA ExcusedStays ==
    ASSUME RTXInv, [RTXNext]_all, Excused
    PROVE  Excused'
<1>1. ahead => ahead'
    <2>1. CASE Program
        BY <2>1 DEF Program, CCIStep, AStep, BStep, NullStep, Requests, Sends, Receives, Yields,
            CCIFirst, CCIReceive, CCIClock, CCIChange, CCIRenew, CCIRelease, ADequeue, rtx
    <2>2. CASE HandlerStep
        BY <2>2 DEF HandlerStep, KbdTransfer, KbdDrop, CrtTransfer, CrtDrop, ClockRequest,
            ClockSend, TimerReceive, HandlerReturn
    <2>3. CASE Signal \/ SendsNowhere \/ (\E c \in Commands : Type(c)) \/ UNCHANGED all
        BY <2>3 DEF Signal, KbdSignal, CrtSignal, TimerSignal, SendsNowhere, Type, all, rtx
    <2> QED
        BY <2>1, <2>2, <2>3 DEF RTXNext
<1> QED
    BY <1>1, FloodedStays DEF Excused

-----------------------------------------------------------------------------
(* Which process runs.                                                     *)

(* Handlers nest, and each runs as its own i-process.                      *)
Nested ==
    /\ frames # <<>> => curr_process = Top.pid
    /\ \A k \in 2 .. Len(frames) : frames[k].interrupted = frames[k - 1].pid

LEMMA NestedNext ==
    ASSUME RTXInv, Nested, [RTXNext]_all
    PROVE  Nested'
<1>1. /\ frames \in Seq(Frame) /\ frames \in Seq(Frame) /\ curr_process \in PID
      /\ \A i \in {0, 1, 2}, e \in Env \cup {NULL} :
            [ pid |-> i, interrupted |-> curr_process, env |-> e ] \in Frame
      /\ \A q \in EnvQueue : envs.head[q] \in Env \cup {NULL}
    BY Processes DEF RTXInv, KernelInv, TypeOK, Frame, Store
<1>2. CASE frames' = frames /\ (frames # <<>> => curr_process' = curr_process)
    BY <1>2 DEF Nested, Top
<1>3. CASE HandlerStep
    <2>1. CASE KbdDrop \/ CrtDrop \/ HandlerReturn
        <3>1. /\ frames # <<>> /\ frames' = SubSeq(frames, 1, Len(frames) - 1)
              /\ curr_process' = Top.interrupted
            BY <2>1 DEF KbdDrop, CrtDrop, HandlerReturn, Return
        <3>2. /\ frames' \in Seq(Frame) /\ Len(frames) \in Nat \ {0} /\ Len(frames') = Len(frames) - 1
              /\ \A i \in 1 .. Len(frames') : frames'[i] = frames[i]
            <4>1. frames \in Seq(Frame) /\ Len(frames) \in Nat \ {0}
                BY <1>1, <3>1, EmptySeq
            <4> DEFINE n == Len(frames)
            <4>2. n \in Nat \ {0} /\ frames' = SubSeq(frames, 1, n - 1)
                BY <3>1, <4>1
            <4>3. /\ SubSeq(frames, 1, n - 1) \in Seq(Frame)
                  /\ Len(SubSeq(frames, 1, n - 1)) = n - 1
                  /\ \A k \in 1 .. n - 1 : SubSeq(frames, 1, n - 1)[k] = frames[k]
                BY <4>1, WithoutLast
            <4> QED
                BY <4>2, <4>3
        <3>3. frames' # <<>> => /\ Len(frames) \in 2 .. Len(frames)
                                /\ Len(frames') \in 1 .. Len(frames')
                                /\ Len(frames) - 1 = Len(frames')
            BY <3>2, EmptySeq
        <3>4. frames' # <<>> => curr_process' = frames'[Len(frames')].pid
            BY <3>1, <3>2, <3>3 DEF Nested, Top
        <3>5. ASSUME NEW k \in 2 .. Len(frames')
              PROVE  frames'[k].interrupted = frames'[k - 1].pid
            <4>1. k \in 2 .. Len(frames) /\ k \in 1 .. Len(frames') /\ k - 1 \in 1 .. Len(frames')
                BY <3>2
            <4> QED
                BY <3>2, <4>1 DEF Nested
        <3> QED
            BY <3>4, <3>5 DEF Nested, Top
    <2>2. CASE ~ (KbdDrop \/ CrtDrop \/ HandlerReturn)
        <3>1. /\ frames # <<>> /\ curr_process' = curr_process
              /\ \/ frames' = frames
                 \/ \E e \in Env \cup {NULL} : frames' = [frames EXCEPT ![Len(frames)].env = e]
            <4>1. 2 \in EnvQueue /\ envelope_q \in EnvQueue
                BY Queues
            <4> QED
                BY <1>1, <1>3, <2>2, <4>1
                   DEF HandlerStep, KbdTransfer, CrtTransfer, ClockSend, ClockRequest, TimerReceive,
                       Reply, Doing
        <3>2. CASE frames' = frames
            BY <1>2, <3>1, <3>2
        <3>3. ASSUME NEW e \in Env \cup {NULL}, frames' = [frames EXCEPT ![Len(frames)].env = e]
              PROVE  Nested'
            <4>1. /\ Len(frames') = Len(frames) /\ Len(frames) \in 1 .. Len(frames)
                  /\ Len(frames) \in Nat
                  /\ \A i \in 1 .. Len(frames) : /\ frames'[i].pid = frames[i].pid
                                                 /\ frames'[i].interrupted = frames[i].interrupted
                BY <1>1, <3>1, <3>3, TopSet
            <4>2. \A k \in 2 .. Len(frames) : k \in 1 .. Len(frames) /\ k - 1 \in 1 .. Len(frames)
                BY <4>1
            <4> QED
                BY <3>1, <4>1, <4>2 DEF Nested, Top
        <3> QED
            BY <3>1, <3>2, <3>3
    <2> QED
        BY <2>1, <2>2
<1>4. CASE Signal
    <2>1. PICK f \in Frame : /\ f.pid = curr_process' /\ f.interrupted = curr_process
                             /\ frames' = Append(frames, f)
        <3>1. 0 \in EnvQueue /\ 1 \in EnvQueue
            BY Queues
        <3>2. CASE KbdSignal \/ CrtSignal
            BY <1>1, <3>1, <3>2 DEF KbdSignal, CrtSignal, Interrupt
        <3>3. CASE TimerSignal
            BY <1>1, <3>3 DEF TimerSignal
        <3> QED
            BY <1>4, <3>2, <3>3 DEF Signal
    <2>2. /\ Len(frames) \in Nat /\ Len(frames') = Len(frames) + 1 /\ frames' # <<>>
          /\ frames'[Len(frames')] = f
          /\ \A i \in 1 .. Len(frames) : frames'[i] = frames[i]
        BY <1>1, <2>1, TopNew
    <2>3. ASSUME NEW k \in 2 .. Len(frames')
          PROVE  frames'[k].interrupted = frames'[k - 1].pid
        <3>1. CASE k = Len(frames')
            <4>1. k - 1 = Len(frames) /\ Len(frames) \in 1 .. Len(frames)
                BY <2>2, <3>1
            <4>2. frames # <<>>
                BY <4>1, EmptySeq, <1>1
            <4> QED
                BY <2>1, <2>2, <3>1, <4>1, <4>2 DEF Nested, Top
        <3>2. CASE k # Len(frames')
            <4>1. k \in 2 .. Len(frames) /\ k \in 1 .. Len(frames) /\ k - 1 \in 1 .. Len(frames)
                BY <2>2, <3>2
            <4> QED
                BY <2>2, <4>1 DEF Nested
        <3> QED
            BY <3>1, <3>2
    <2> QED
        BY <2>1, <2>2, <2>3 DEF Nested, Top
<1>5. CASE Program
    <2>1. frames' = frames /\ frames = <<>>
        <3>1. CASE CCIStep
            BY <3>1 DEF CCIStep, Requests, RequestEnv, Sends, SendMessage, Receives, ReceiveMessage,
                ResumeReceive, StoreHead, StoreTail, Yields, ReleaseProcessor, CCIFirst, CCIReceive,
                CCIClock, CCIChange, ChangePriority, CCIRenew, CCIRelease, Runs, vars
        <3>2. CASE AStep \/ BStep \/ NullStep
            BY <3>2 DEF AStep, BStep, NullStep, Requests, RequestEnv, Sends, SendMessage, Receives,
                ReceiveMessage, ResumeReceive, StoreHead, StoreTail, Yields, ReleaseProcessor,
                ADequeue, NullDrain, Runs
        <3> QED
            BY <1>5, <3>1, <3>2 DEF Program
    <2> QED
        BY <1>2, <2>1
<1>6. CASE UNCHANGED vars
    BY <1>2, <1>6 DEF vars
<1>7. CASE SendsNowhere
    BY <1>2, <1>7, Unsent
<1> QED
    BY <1>3, <1>4, <1>5, <1>6, <1>7 DEF RTXNext, Type, all

-----------------------------------------------------------------------------
(* The process that runs, or was interrupted, waits for nothing, and the   *)
(* CCI blocks on receive only where its program receives, before it has    *)
(* begun to take an envelope.                                              *)
Alive == {"RUNNING", "READY"}

Awake ==
    /\ fault = "none" => state[Interrupted] \in Alive
    /\ state[CCI] = "BLK_ON_RCV" => pc[CCI] = "receive" /\ at[CCI] # "emptied"

(* process_switch marks the process it dispatches RUNNING and blocks       *)
(* nobody.                                                                 *)
LEMMA SwitchAwake ==
    ASSUME RTXInv, NEW st \in [User -> States], NEW q \in Store(User, PcbQueue),
           NEW resume, NEW otherwise, curr_process \in User,
           otherwise = "none" => st[curr_process] \in Alive,
           process_switch(st, q, resume, otherwise),
           frames = <<>>, frames' = <<>>
    PROVE  /\ fault' = "none" => state'[Interrupted'] \in Alive
           /\ \A p \in User, v \in {"BLK_ON_RCV", "BLK_ON_ENV"} : state'[p] = v => st[p] = v
<1> DEFINE ready == { l \in Level : q.head[l] # NULL }
           level == First(ready)
           new   == q.head[level]
           old   == IF st[curr_process] = "RUNNING" THEN "READY" ELSE st[curr_process]
<1>1. Interrupted' = curr_process'
    BY DEF Interrupted
<1>2. CASE ready = {}
    <2>1. state' = st /\ fault' = otherwise /\ curr_process' = curr_process
        BY <1>2 DEF process_switch
    <2> QED
        BY <1>1, <2>1
<1>3. CASE ready # {}
    <2>1. state' = [st EXCEPT ![curr_process] = old, ![new] = "RUNNING"] /\ curr_process' = new
        BY <1>3 DEF process_switch
    <2>2. level \in ready
        <3>1. ready \subseteq Nat
            BY Domains
        <3> HIDE DEF ready
        <3> QED
            BY <1>3, <3>1, FirstOf
    <2>3. new \in User
        BY <2>2, Domains DEF Store
    <2> HIDE DEF new, level, ready
    <2>4. state'[new] = "RUNNING"
        BY <2>1, <2>3
    <2>5. \A p \in User : p # new => state'[p] = IF p = curr_process THEN old ELSE st[p]
        BY <2>1
    <2>6. old = "READY" \/ old = st[curr_process]
        OBVIOUS
    <2> HIDE DEF old
    <2>7. \A p \in User, v \in {"BLK_ON_RCV", "BLK_ON_ENV"} : state'[p] = v => st[p] = v
        BY <2>4, <2>5, <2>6
    <2> QED
        BY <1>1, <2>1, <2>4, <2>7 DEF Alive
<1> QED
    BY <1>2, <1>3

(* A step that wakes at most one process.                                  *)
LEMMA WakeAwake ==
    ASSUME RTXInv, Awake, Interrupted' = Interrupted,
           state' = state \/ \E p \in User : state' = [state EXCEPT ![p] = "READY"],
           fault' = "none" => fault = "none",
           pc'[CCI] = "receive" \/ pc'[CCI] = pc[CCI] \/ state[CCI] # "BLK_ON_RCV",
           at'[CCI] = "emptied" => at[CCI] = "emptied" \/ state[CCI] # "BLK_ON_RCV"
    PROVE  Awake'
<1>1. state \in [User -> States] /\ CCI \in User
    BY Processes DEF RTXInv, KernelInv, TypeOK, States
<1>2. state'[CCI] = "BLK_ON_RCV" => state[CCI] = "BLK_ON_RCV"
    BY <1>1
<1>3. state[Interrupted] \in Alive => state'[Interrupted] \in Alive
    <2>1. CASE state' = state
        BY <2>1
    <2>2. ASSUME NEW p \in User, state' = [state EXCEPT ![p] = "READY"]
          PROVE  state[Interrupted] \in Alive => state'[Interrupted] \in Alive
        <3>1. CASE p = Interrupted
            BY <1>1, <2>2, <3>1 DEF Alive
        <3>2. CASE p # Interrupted
            BY <1>1, <2>2, <3>2
        <3> QED
            BY <3>1, <3>2
    <2> QED
        BY <2>1, <2>2
<1> QED
    BY <1>2, <1>3 DEF Awake

(* A program gives up the processor in the state v.                        *)
LEMMA SwitchingAwake ==
    ASSUME RTXInv, Awake, NEW p \in User, Runs(p), UNCHANGED frames,
           NEW v \in States, NEW q \in Store(User, PcbQueue), NEW resume, NEW otherwise,
           process_switch([state EXCEPT ![p] = v], q, resume, otherwise),
           otherwise = "none" => v \in Alive, resume # "emptied",
           \/ p # CCI /\ pc'[CCI] = pc[CCI]
           \/ p = CCI /\ v # "BLK_ON_RCV"
           \/ p = CCI /\ pc'[CCI] = "receive"
    PROVE  Awake'
<1> DEFINE st == [state EXCEPT ![p] = v]
<1>1. /\ state \in [User -> States] /\ CCI \in User /\ curr_process = p
      /\ frames = <<>> /\ frames' = <<>>
    BY Processes DEF RTXInv, KernelInv, TypeOK, States, Runs
<1>2. st \in [User -> States] /\ st[p] = v /\ (p # CCI => st[CCI] = state[CCI])
    BY <1>1
<1> HIDE DEF st
<1>3. /\ fault' = "none" => state'[Interrupted'] \in Alive
      /\ state'[CCI] = "BLK_ON_RCV" => st[CCI] = "BLK_ON_RCV"
    BY <1>1, <1>2, SwitchAwake DEF st
<1>4. at' = [at EXCEPT ![p] = resume] /\ at \in [User -> Place]
    BY <1>1 DEF process_switch, RTXInv, KernelInv, TypeOK
<1>5. state'[CCI] = "BLK_ON_RCV" => pc'[CCI] = "receive" /\ at'[CCI] # "emptied"
    BY <1>1, <1>2, <1>3, <1>4 DEF Awake
<1> QED
    BY <1>3, <1>5 DEF Awake

LEMMA ProgramAwake ==
    ASSUME RTXInv, Awake, Program
    PROVE  Awake'
<1>1. /\ CCI \in User /\ A \in User /\ B \in User /\ Client \subseteq User /\ CCI \in Client
      /\ NullProcs \subseteq User
      /\ pc \in [Client -> Point] /\ pcbs \in Store(User, PcbQueue) /\ priority \in [User -> Level]
      /\ Level \subseteq PcbQueue /\ blocked_on_envelope \in PcbQueue
    BY Processes, Domains DEF RTXInv, Programs, KernelInv, TypeOK
<1>2. \A p \in User, q \in PcbQueue : /\ PCB_ENQ(pcbs, q, p) \in Store(User, PcbQueue)
                                      /\ PCB_DEQ(pcbs, q) \in Store(User, PcbQueue)
    BY <1>1, Domains, ENQType, DEQType
<1>3. "BLK_ON_ENV" \in States /\ "BLK_ON_RCV" \in States /\ "READY" \in States /\ "READY" \in Alive
    BY DEF States, Alive
<1>4. ASSUME NEW p \in User, Runs(p)
      PROVE  /\ curr_process = p /\ Interrupted = p /\ state[p] # "BLK_ON_RCV" /\ fault = "none"
             /\ UNCHANGED <<frames, curr_process>> => Interrupted' = Interrupted
             /\ at'[CCI] = "emptied" => at[CCI] = "emptied" \/ state[CCI] # "BLK_ON_RCV"
    <2>1. /\ curr_process = p /\ Interrupted = p /\ state[p] # "BLK_ON_RCV" /\ fault = "none"
          /\ UNCHANGED <<frames, curr_process>> => Interrupted' = Interrupted
        BY <1>4 DEF Runs, Interrupted, Awake, Alive
    <2>2. at'[CCI] = "emptied" => at[CCI] = "emptied" \/ StoreHead(CCI)
        BY <1>1, Between DEF RTXNext
    <2>3. StoreHead(CCI) => p = CCI
        BY <2>1 DEF StoreHead, Runs
    <2> QED
        BY <2>1, <2>2, <2>3
<1>5. ASSUME NEW p \in Client, RequestEnv(p), p = CCI \/ pc'[CCI] = pc[CCI]
      PROVE  Awake'
    <2>1. Runs(p) /\ UNCHANGED frames
        BY <1>5 DEF RequestEnv
    <2>2. CASE envs.head[envelope_q] # NULL
        <3>1. UNCHANGED <<curr_process, state, fault>>
            BY <1>5, <2>2 DEF RequestEnv
        <3> QED
            BY <1>1, <1>4, <1>5, <2>1, <3>1, WakeAwake
    <2>3. CASE envs.head[envelope_q] = NULL
        <3>1. process_switch([state EXCEPT ![p] = "BLK_ON_ENV"],
                             PCB_ENQ(pcbs, blocked_on_envelope, p), "request", "spin")
            BY <1>5, <2>3 DEF RequestEnv
        <3> QED
            BY <1>1, <1>2, <1>3, <1>5, <2>1, <3>1, SwitchingAwake
    <2> QED
        BY <2>2, <2>3
<1>6. ASSUME NEW p \in Client, NEW here, NEW next, Requests(p, here, next)
      PROVE  Awake'
    <2>1. RequestEnv(p) /\ (pc' = pc \/ pc' = [pc EXCEPT ![p] = next])
        BY <1>6 DEF Requests, Obtains, Goto
    <2>2. p = CCI \/ pc'[CCI] = pc[CCI]
        BY <1>1, <2>1
    <2> QED
        BY <1>5, <2>1, <2>2
<1>7. ASSUME NEW p \in Client, NEW here, NEW dest_id \in PID, NEW next, Sends(p, here, dest_id, next)
      PROVE  Awake'
    <2>1. /\ Runs(p) /\ UNCHANGED <<frames, curr_process, fault>>
          /\ state' = state \/ \E d \in User : state' = [state EXCEPT ![d] = "READY"]
          /\ pc' = [pc EXCEPT ![p] = next]
        BY <1>7 DEF Sends, SendMessage, k_send_message, Goto
    <2>2. p = CCI \/ pc'[CCI] = pc[CCI]
        BY <1>1, <2>1
    <2> QED
        BY <1>1, <1>4, <2>1, <2>2, WakeAwake
<1>8. ASSUME NEW p \in Client, NEW next, Receives(p, next)
      PROVE  Awake'
    <2>1. /\ pc[p] = "receive"
          /\ (ReceiveMessage(p) /\ Obtains(p, p, next)) \/ (ResumeReceive(p) /\ Obtains(p, p, next))
             \/ (StoreHead(p) /\ UNCHANGED pc) \/ (StoreTail(p) /\ Goto(p, next))
          /\ Runs(p) /\ UNCHANGED frames
        BY <1>8 DEF Receives, ReceiveMessage, ResumeReceive, StoreHead, StoreTail
    <2>2. CASE ReceiveMessage(p) /\ envs.head[p] = NULL
        <3>1. process_switch([state EXCEPT ![p] = "BLK_ON_RCV"],
                             PCB_DEQ(pcbs, priority[p]), "receive", "null_env")
            BY <2>2 DEF ReceiveMessage
        <3>2. at'[p] # "user"
            BY <2>1, <2>2, ReceiveResult
        <3>3. pc' = pc
            BY <2>1, <2>2, <3>2 DEF Obtains, ReceiveMessage, StoreHead, StoreTail
        <3>4. \/ p # CCI /\ pc'[CCI] = pc[CCI]
              \/ p = CCI /\ pc'[CCI] = "receive"
            BY <2>1, <3>3
        <3>5. p \in User /\ priority[p] \in PcbQueue
            BY <1>1
        <3> QED
            BY <1>2, <1>3, <2>1, <3>1, <3>4, <3>5, SwitchingAwake
    <2>3. CASE ~ (ReceiveMessage(p) /\ envs.head[p] = NULL)
        <3>1. UNCHANGED <<curr_process, state>> /\ (fault' = "none" => fault = "none")
            BY <1>4, <2>1, <2>3 DEF ReceiveMessage, ResumeReceive, TakeMessage, StoreHead, StoreTail,
                Runs
        <3>2. p = CCI \/ pc'[CCI] = pc[CCI]
            BY <1>1, <2>1 DEF Obtains, Goto
        <3> QED
            BY <1>1, <1>4, <2>1, <3>1, <3>2, WakeAwake
    <2> QED
        BY <2>2, <2>3
<1>9. ASSUME NEW p \in User, ReleaseProcessor(p), p = CCI \/ pc'[CCI] = pc[CCI]
      PROVE  Awake'
    <2>1. /\ Runs(p) /\ UNCHANGED frames
          /\ process_switch([state EXCEPT ![p] = "READY"], PCB_ENQ(pcbs, priority[p], p), "user", "none")
          /\ priority[p] \in PcbQueue
        BY <1>1, <1>9 DEF ReleaseProcessor
    <2> QED
        BY <1>2, <1>3, <1>9, <2>1, SwitchingAwake
<1>10. ASSUME NEW p \in Client, NEW next, Yields(p, next)
      PROVE  Awake'
    <2>1. ReleaseProcessor(p) /\ pc' = [pc EXCEPT ![p] = next]
        BY <1>10 DEF Yields, Goto
    <2>2. p = CCI \/ pc'[CCI] = pc[CCI]
        BY <1>1, <2>1
    <2> QED
        BY <1>1, <1>9, <2>1, <2>2
<1>11. CASE CCIStep
    <2>1. CASE CCIFirst
        BY <1>1, <1>5, <2>1 DEF CCIFirst
    <2>2. CASE CCIReceive
        BY <1>1, <1>8, <2>2 DEF CCIReceive
    <2>3. CASE CCIClock \/ CCIChange
        <3>1. /\ Runs(CCI) /\ UNCHANGED <<curr_process, frames, fault, state>>
            BY <2>3 DEF CCIClock, CCIChange, ChangePriority, vars
        <3> QED
            BY <1>1, <1>4, <3>1, WakeAwake
    <2>4. ASSUME NEW c, NEW next, CCIRenew(c, next)
          PROVE  Awake'
        BY <1>1, <1>5, <2>4 DEF CCIRenew
    <2>5. CASE CCIRelease
        <3>1. Runs(CCI) /\ k_release_msg_env(env[CCI]) /\ UNCHANGED <<curr_process, frames, fault>>
            BY <2>5 DEF CCIRelease
        <3>2. pcbs.head[blocked_on_envelope] \in User \cup {NULL}
            BY <1>1 DEF Store
        <3>3. state' = state \/ \E d \in User : state' = [state EXCEPT ![d] = "READY"]
            BY <3>1, <3>2 DEF k_release_msg_env
        <3> QED
            BY <1>1, <1>4, <3>1, <3>3, WakeAwake
    <2> QED
        BY <1>1, <1>6, <1>7, <1>10, <1>11, <2>1, <2>2, <2>3, <2>4, <2>5, Processes DEF CCIStep
<1>12. CASE AStep
    <2>1. CASE ADequeue
        <3>1. Runs(A) /\ UNCHANGED <<curr_process, frames, fault, state>> /\ pc'[CCI] = pc[CCI]
            BY <1>1, <2>1, Processes DEF ADequeue, Goto, StoreHead, StoreTail, Runs
        <3> QED
            BY <1>1, <1>4, <3>1, WakeAwake
    <2> QED
        BY <1>6, <1>7, <1>8, <1>10, <1>12, <2>1, Processes DEF AStep
<1>13. CASE BStep
    BY <1>7, <1>8, <1>10, <1>13, Processes DEF BStep
<1>14. CASE NullStep
    <2>1. PICK p \in NullProcs : (NullDrain(p) \/ ReleaseProcessor(p)) /\ UNCHANGED rtx
        BY <1>14 DEF NullStep
    <2>2. pc' = pc /\ p \in User
        BY <1>1, <2>1 DEF rtx
    <2>3. CASE NullDrain(p)
        <3>1. Runs(p) /\ UNCHANGED <<curr_process, frames, fault, state>>
            BY <2>3 DEF NullDrain
        <3> QED
            BY <1>4, <2>2, <3>1, WakeAwake
    <2>4. CASE ReleaseProcessor(p)
        BY <1>9, <2>2, <2>4
    <2> QED
        BY <2>1, <2>3, <2>4
<1> QED
    BY <1>11, <1>12, <1>13, <1>14 DEF Program

LEMMA AwakeNext ==
    ASSUME RTXInv, Awake, [RTXNext]_all
    PROVE  Awake'
<1>0. at'[CCI] = "emptied" => at[CCI] = "emptied" \/ state[CCI] # "BLK_ON_RCV"
    <2>1. at'[CCI] = "emptied" => at[CCI] = "emptied" \/ StoreHead(CCI)
        BY Between, Processes
    <2>2. StoreHead(CCI) => state[CCI] # "BLK_ON_RCV"
        BY DEF StoreHead, Runs, Awake, Interrupted, Alive
    <2> QED
        BY <2>1, <2>2
<1>1. CASE Program
    BY <1>1, ProgramAwake
<1>2. CASE HandlerStep
    <2>1. Interrupted' = Interrupted
        <3>1. CASE KbdDrop \/ CrtDrop \/ HandlerReturn
            <4>1. /\ frames # <<>> /\ frames' = SubSeq(frames, 1, Len(frames) - 1)
                  /\ curr_process' = Top.interrupted
                BY <3>1 DEF KbdDrop, CrtDrop, HandlerReturn, Return
            <4> QED
                BY <4>1, PopKeeps
        <3>2. CASE ~ (KbdDrop \/ CrtDrop \/ HandlerReturn)
            <4>1. /\ frames # <<>> /\ curr_process' = curr_process
                  /\ \/ frames' = frames
                     \/ \E e : frames' = [frames EXCEPT ![Len(frames)].env = e]
                BY <1>2, <3>2
                   DEF HandlerStep, KbdTransfer, CrtTransfer, ClockSend, ClockRequest, TimerReceive,
                       Reply, Doing
            <4>2. CASE frames' = frames
                BY <4>1, <4>2 DEF Interrupted
            <4> QED
                BY <4>1, <4>2, SetKeeps
        <3> QED
            BY <3>1, <3>2
    <2>2. fault = "none" /\ pc' = pc
        BY <1>2 DEF HandlerStep, KbdTransfer, CrtTransfer, KbdDrop, CrtDrop, HandlerReturn, ClockSend,
                    ClockRequest, TimerReceive, Reply, Return
    <2>3. state' = state \/ \E p \in User : state' = [state EXCEPT ![p] = "READY"]
        BY <1>2 DEF HandlerStep, KbdTransfer, CrtTransfer, KbdDrop, CrtDrop, HandlerReturn, ClockSend,
                    ClockRequest, TimerReceive, Reply, Return, k_send_message
    <2> QED
        BY <1>0, <2>1, <2>2, <2>3, WakeAwake
<1>3. CASE Signal
    <2>1. UNCHANGED <<state, fault, pc>>
        BY <1>3 DEF Signal, KbdSignal, CrtSignal, TimerSignal, Interrupt
    <2>2. Interrupted' = Interrupted
        <3>1. /\ \A i \in Iproc, e \in Env \cup {NULL} :
                     [ pid |-> i, interrupted |-> curr_process, env |-> e ] \in Frame
              /\ \A q \in EnvQueue : envs.head[q] \in Env \cup {NULL}
              /\ 0 \in EnvQueue /\ 1 \in EnvQueue /\ 0 \in Iproc /\ 1 \in Iproc /\ 2 \in Iproc
            BY Processes, Domains DEF Frame, RTXInv, KernelInv, TypeOK, Store
        <3>2. PICK i \in Iproc, e \in Env \cup {NULL} :
                 frames' = Append(frames, [ pid |-> i, interrupted |-> curr_process, env |-> e ])
            BY <1>3, <3>1 DEF Signal, KbdSignal, CrtSignal, TimerSignal, Interrupt
        <3> DEFINE f == [ pid |-> i, interrupted |-> curr_process, env |-> e ]
        <3>3. f \in Frame /\ f.interrupted = curr_process /\ frames' = Append(frames, f)
            BY <3>1, <3>2
        <3> HIDE DEF f
        <3> QED
            BY <3>3, PushKeeps
    <2> QED
        BY <1>0, <2>1, <2>2, WakeAwake
<1>4. CASE UNCHANGED <<vars, pc>>
    BY <1>4 DEF vars, Interrupted, Awake
<1>5. CASE SendsNowhere
    BY <1>5, Unsent DEF Awake, Interrupted, rtx
<1> QED
    BY <1>1, <1>2, <1>3, <1>4, <1>5 DEF RTXNext, Type, all, rtx

-----------------------------------------------------------------------------
(* The envelope x is neither on the queue of crt_iproc nor in its hands.   *)
Off(c, x, ch) == ch # x /\ \A i \in 1 .. Len(c) : c[i] # x

(* Where the envelope of the console is: with the CCI, and while it waits  *)
(* for a line at the keyboard, in the hands of kbd_iproc, on its queue, or *)
(* off its queue and inside the dequeue.  Inside the dequeue of an         *)
(* acknowledgement it is at the keyboard still.                            *)
Console(c, k, x, kh, ch) ==
    /\ k = NULL <=> pc[CCI] = "renew"
    /\ pc[CCI] \notin {"renew", "receive"} => env[CCI] = k
    /\ pc[CCI] # "receive" => envs.head[0] = NULL /\ kh = NULL /\ envs.head[CCI] \in {NULL, x}
    /\ pc[CCI] = "receive" =>
          \/ /\ envs.head[0] = k /\ kh = NULL /\ envs.head[CCI] \in {NULL, x} /\ sender_id[k] = CCI
             /\ at[CCI] = "emptied" => x = NULL /\ env[CCI] \in Env /\ content[env[CCI]] = "ack"
          \/ /\ envs.head[0] = NULL /\ kh = k /\ envs.head[CCI] = NULL /\ sender_id[k] = CCI
             /\ x = NULL \/ Off(c, x, ch)
             /\ at[CCI] # "emptied"
          \/ /\ envs.head[0] = NULL /\ kh = NULL /\ envs.head[CCI] = k /\ content[k] \in Commands
             /\ x = NULL \/ Off(c, x, ch)
             /\ at[CCI] # "emptied"
          \/ /\ envs.head[0] = NULL /\ kh = NULL /\ envs.head[CCI] = NULL /\ x = NULL
             /\ env[CCI] = k /\ content[k] \in Commands
             /\ at[CCI] = "emptied"

(* Where the envelope of a text is on its way to the CRT and back.  When   *)
(* crt_iproc drops the text it is in the pool only, and while the timer    *)
(* has it in its hands not even there.                                     *)
Text(b, c, k, x, z, ch) ==
    x # NULL =>
       /\ \/ pc[CCI] = "release" /\ x = k
          \/ /\ pc[CCI] \in {"renew", "yield", "ask", "receive"} /\ x # k
             /\ x = z \/ \E i \in 1 .. Len(b) : x = b[i]
       /\ \/ (\E i \in 1 .. Len(c) : c[i] = x) /\ ch # x /\ envs.head[CCI] # x
          \/ (\A i \in 1 .. Len(c) : c[i] # x) /\ ch = x /\ envs.head[CCI] # x
          \/ /\ (\A i \in 1 .. Len(c) : c[i] # x) /\ ch # x
             /\ envs.head[CCI] = x /\ content[x] = "ack"
          \/ /\ (\A i \in 1 .. Len(c) : c[i] # x) /\ ch # x
             /\ envs.head[CCI] # x /\ x = z

(* Who gets the envelopes crt_iproc has printed.                           *)
Senders(c, D, x, ch) ==
    /\ \A i \in 1 .. Len(c) : sender_id[c[i]] = IF c[i] = x THEN CCI ELSE 2
    /\ ch \in D \cup {NULL, x}
    /\ ch # NULL => sender_id[ch] = IF ch = x THEN CCI ELSE 2

(* What the handlers on the stack fr, h have in their hands.               *)
Hands(fr, h, kh, ch, z) ==
    /\ \A i \in 1 .. Len(fr) :
          /\ fr[i].pid = 0 => h[i] \in {"transfer", "return"} /\ fr[i].env = kh
          /\ fr[i].pid = 1 => h[i] \in {"transfer", "return"} /\ fr[i].env = ch
          /\ fr[i].pid \in {0, 1} /\ h[i] = "return" => fr[i].env = NULL
          /\ h[i] = "display" => fr[i].env = z
    /\ kh # NULL => \E i \in 1 .. Len(fr) : fr[i].pid = 0
    /\ ch # NULL => \E i \in 1 .. Len(fr) : fr[i].pid = 1
    /\ z # NULL  => \E i \in 1 .. Len(fr) : h[i] = "display"

(* Processes A and B have not run, and A has been sent nothing or one      *)
(* envelope.                                                               *)
Others ==
    /\ pc[A] = "receive" /\ pc[B] = "receive"
    /\ envs.head[B] = NULL /\ envs.head[NULLPID] = NULL
    /\ posted["s"] = 0 \/ pc[CCI] = "start" => envs.head[A] = NULL
    /\ pc[CCI] = "start" => posted["s"] # 0

(* The envelopes that are not spent: the pool, the one of the console, the *)
(* one of a second to display, and the one the CCI never uses.             *)
Enough(b, k, z) == NUM_ENV <= Len(b) + One(k) + One(z) + 1 + Spent

(* All of it together.                                                     *)
Layout(b, c, D, k, x, z, kh, ch) ==
    /\ Threads(envs, b, c, D, k, x, z, first)
    /\ Enough(b, k, z)
    /\ Console(c, k, x, kh, ch)
    /\ Text(b, c, k, x, z, ch)
    /\ Senders(c, D, x, ch)
    /\ Hands(frames, hpc, kh, ch, z)
    /\ Others

(* The state has this shape, with some contents of the queues and of the   *)
(* hands.                                                                  *)
Shape ==
    /\ at[B] # "emptied"
    /\ \E b, c \in Seq(Env), D \in SUBSET Env :
       \E k, x, z, kh, ch \in Env \cup {NULL} : Layout(b, c, D, k, x, z, kh, ch)

(* A handler arrives with its envelope, or without one.                    *)
LEMMA HandsPush ==
    ASSUME NEW fr \in Seq(Frame), NEW h \in Seq(Call), Len(h) = Len(fr),
           NEW kh, NEW ch, NEW z, Hands(fr, h, kh, ch, z),
           NEW f \in Frame, \A i \in 1 .. Len(fr) : fr[i].pid # f.pid,
           NEW call \in Call, call \notin {"display", "return"}, NEW kh1, NEW ch1,
           \/ f.pid = 0 /\ call = "transfer" /\ kh1 = f.env /\ ch1 = ch
           \/ f.pid = 1 /\ call = "transfer" /\ kh1 = kh /\ ch1 = f.env
           \/ f.pid = 2 /\ kh1 = kh /\ ch1 = ch
    PROVE  Hands(Append(fr, f), Append(h, call), kh1, ch1, z)
<1> DEFINE n  == Len(fr)
           fr1 == Append(fr, f)
           h1 == Append(h, call)
<1>1. /\ n \in Nat /\ Len(fr1) = n + 1 /\ fr1[n + 1] = f /\ h1[n + 1] = call
      /\ \A i \in 1 .. n : fr1[i] = fr[i] /\ h1[i] = h[i]
    BY AppendProperties
<1> HIDE DEF fr1, h1
<1>2. /\ n + 1 \in 1 .. n + 1 /\ (\A i \in 1 .. n : i \in 1 .. n + 1)
      /\ \A i \in 1 .. n + 1 : i \in 1 .. n \/ i = n + 1
    BY <1>1
<1>3. \A i \in 1 .. n :
          /\ fr[i].pid = 0 => h[i] \in {"transfer", "return"} /\ fr[i].env = kh
          /\ fr[i].pid = 1 => h[i] \in {"transfer", "return"} /\ fr[i].env = ch
          /\ fr[i].pid \in {0, 1} /\ h[i] = "return" => fr[i].env = NULL
          /\ h[i] = "display" => fr[i].env = z
    BY DEF Hands
<1>4. /\ kh # NULL => \E i \in 1 .. n : fr[i].pid = 0
      /\ ch # NULL => \E i \in 1 .. n : fr[i].pid = 1
      /\ z # NULL  => \E i \in 1 .. n : h[i] = "display"
    BY DEF Hands
<1> HIDE DEF n
<1>5. \A i \in 1 .. n + 1 :
          /\ fr1[i].pid = 0 => h1[i] \in {"transfer", "return"} /\ fr1[i].env = kh1
          /\ fr1[i].pid = 1 => h1[i] \in {"transfer", "return"} /\ fr1[i].env = ch1
          /\ fr1[i].pid \in {0, 1} /\ h1[i] = "return" => fr1[i].env = NULL
          /\ h1[i] = "display" => fr1[i].env = z
    <2> SUFFICES ASSUME NEW i \in 1 .. n + 1
                 PROVE  /\ fr1[i].pid = 0 => h1[i] \in {"transfer", "return"} /\ fr1[i].env = kh1
                        /\ fr1[i].pid = 1 => h1[i] \in {"transfer", "return"} /\ fr1[i].env = ch1
                        /\ fr1[i].pid \in {0, 1} /\ h1[i] = "return" => fr1[i].env = NULL
                        /\ h1[i] = "display" => fr1[i].env = z
        OBVIOUS
    <2>1. CASE i \in 1 .. n
        BY <1>1, <1>3, <2>1 DEF n
    <2>2. CASE i = n + 1
        BY <1>1, <2>2
    <2> QED
        BY <1>2, <2>1, <2>2
<1>6. /\ kh1 # NULL => \E i \in 1 .. n + 1 : fr1[i].pid = 0
      /\ ch1 # NULL => \E i \in 1 .. n + 1 : fr1[i].pid = 1
      /\ z # NULL  => \E i \in 1 .. n + 1 : h1[i] = "display"
    BY <1>1, <1>2, <1>4
<1> QED
    BY <1>1, <1>5, <1>6 DEF Hands, fr1, h1

(* A handler returns with empty hands, or crt_iproc with the envelope.     *)
LEMMA HandsPop ==
    ASSUME NEW fr \in Seq(Frame), NEW h \in Seq(Call), Len(h) = Len(fr), fr # <<>>,
           NEW kh, NEW ch, NEW z, Hands(fr, h, kh, ch, z), h[Len(fr)] # "display", NEW ch1,
           \/ ch1 = ch /\ (fr[Len(fr)].pid \in {0, 1} => fr[Len(fr)].env = NULL)
           \/ /\ ch1 = NULL /\ fr[Len(fr)].pid = 1
              /\ \A i \in 1 .. Len(fr) : fr[i].pid = 1 => i = Len(fr)
    PROVE  Hands(SubSeq(fr, 1, Len(fr) - 1), SubSeq(h, 1, Len(h) - 1), kh, ch1, z)
<1> DEFINE n  == Len(fr)
           fr1 == SubSeq(fr, 1, n - 1)
           h1 == SubSeq(h, 1, n - 1)
<1>1. n \in Nat \ {0}
    BY EmptySeq
<1>2. Len(fr1) = n - 1 /\ \A i \in 1 .. n - 1 : fr1[i] = fr[i]
    BY <1>1, WithoutLast
<1>3. \A i \in 1 .. n - 1 : h1[i] = h[i]
    BY <1>1, WithoutLast
<1>4. \A i \in 1 .. n :
          /\ fr[i].pid = 0 => h[i] \in {"transfer", "return"} /\ fr[i].env = kh
          /\ fr[i].pid = 1 => h[i] \in {"transfer", "return"} /\ fr[i].env = ch
          /\ fr[i].pid \in {0, 1} /\ h[i] = "return" => fr[i].env = NULL
          /\ h[i] = "display" => fr[i].env = z
    BY DEF Hands
<1>5. /\ kh # NULL => \E i \in 1 .. n : fr[i].pid = 0
      /\ ch # NULL => \E i \in 1 .. n : fr[i].pid = 1
      /\ z # NULL  => \E i \in 1 .. n : h[i] = "display"
    BY DEF Hands
<1>6. /\ h[n] # "display"
      /\ \/ ch1 = ch /\ (fr[n].pid \in {0, 1} => fr[n].env = NULL)
         \/ ch1 = NULL /\ fr[n].pid = 1 /\ \A i \in 1 .. n : fr[i].pid = 1 => i = n
      /\ SubSeq(h, 1, Len(h) - 1) = h1
    OBVIOUS
<1> HIDE DEF fr1, h1, n
<1>7. /\ \A i \in 1 .. n - 1 : i \in 1 .. n
      /\ \A i \in 1 .. n : i = n \/ i \in 1 .. n - 1
      /\ n \in 1 .. n /\ n \notin 1 .. n - 1
    BY <1>1
<1>8. /\ kh # NULL => fr[n].pid # 0
      /\ ch1 # NULL => ch1 = ch /\ fr[n].pid # 1
    BY <1>4, <1>6, <1>7
<1>9. \A i \in 1 .. n - 1 :
          /\ fr1[i].pid = 0 => h1[i] \in {"transfer", "return"} /\ fr1[i].env = kh
          /\ fr1[i].pid = 1 => h1[i] \in {"transfer", "return"} /\ fr1[i].env = ch1
          /\ fr1[i].pid \in {0, 1} /\ h1[i] = "return" => fr1[i].env = NULL
          /\ h1[i] = "display" => fr1[i].env = z
    BY <1>2, <1>3, <1>4, <1>6, <1>7
<1>10. /\ kh # NULL => \E i \in 1 .. n - 1 : fr1[i].pid = 0
       /\ ch1 # NULL => \E i \in 1 .. n - 1 : fr1[i].pid = 1
       /\ z # NULL  => \E i \in 1 .. n - 1 : h1[i] = "display"
    BY <1>2, <1>3, <1>5, <1>6, <1>7, <1>8
<1>11. Hands(fr1, h1, kh, ch1, z)
    BY <1>2, <1>9, <1>10 DEF Hands
<1> QED
    BY <1>6, <1>11 DEF fr1, n

(* The handler on top goes on to another call, with the envelope e.        *)
LEMMA HandsSet ==
    ASSUME NEW fr \in Seq(Frame), NEW h \in Seq(Call), Len(h) = Len(fr), fr # <<>>,
           \A i, j \in 1 .. Len(fr) : fr[i].pid = fr[j].pid => i = j,
           \A i \in 1 .. Len(fr) : h[i] = "display" => fr[i].pid = 2,
           NEW kh, NEW ch, NEW z, Hands(fr, h, kh, ch, z),
           NEW e \in Env \cup {NULL}, NEW call \in Call, NEW kh1, NEW ch1, NEW z1,
           \/ fr[Len(fr)].pid = 0 /\ call = "return" /\ e = NULL /\ kh1 = NULL /\ ch1 = ch /\ z1 = z
           \/ fr[Len(fr)].pid = 1 /\ call = "return" /\ e = NULL /\ kh1 = kh /\ ch1 = NULL /\ z1 = z
           \/ /\ fr[Len(fr)].pid = 2 /\ kh1 = kh /\ ch1 = ch
              /\ IF call = "display" THEN z1 = e
                 ELSE IF h[Len(fr)] = "display" THEN z1 = NULL ELSE z1 = z
    PROVE  Hands([fr EXCEPT ![Len(fr)].env = e], [h EXCEPT ![Len(h)] = call], kh1, ch1, z1)
<1> DEFINE n  == Len(fr)
           fr1 == [fr EXCEPT ![n].env = e]
           h1 == [h EXCEPT ![Len(h)] = call]
<1>1. /\ Len(fr1) = n /\ n \in Nat \ {0} /\ n \in 1 .. n
      /\ \A i \in 1 .. n : i # n => fr1[i] = fr[i]
      /\ fr1[n].env = e /\ fr1[n].pid = fr[n].pid
    BY TopSet
<1>2. /\ h1[n] = call /\ \A i \in 1 .. n : i # n => h1[i] = h[i]
    BY <1>1, TopCalls
<1>4. \A i \in 1 .. n :
          /\ fr[i].pid = 0 => h[i] \in {"transfer", "return"} /\ fr[i].env = kh
          /\ fr[i].pid = 1 => h[i] \in {"transfer", "return"} /\ fr[i].env = ch
          /\ fr[i].pid \in {0, 1} /\ h[i] = "return" => fr[i].env = NULL
          /\ h[i] = "display" => fr[i].env = z
    BY DEF Hands
<1>5. /\ kh # NULL => \E i \in 1 .. n : fr[i].pid = 0
      /\ ch # NULL => \E i \in 1 .. n : fr[i].pid = 1
      /\ z # NULL  => \E i \in 1 .. n : h[i] = "display"
    BY DEF Hands
<1>6. /\ \A i \in 1 .. n : i # n => fr[i].pid # fr[n].pid
      /\ \A i \in 1 .. n : h[i] = "display" => fr[i].pid = 2
    BY <1>1
<1>7. \/ fr[n].pid = 0 /\ call = "return" /\ e = NULL /\ kh1 = NULL /\ ch1 = ch /\ z1 = z
      \/ fr[n].pid = 1 /\ call = "return" /\ e = NULL /\ kh1 = kh /\ ch1 = NULL /\ z1 = z
      \/ /\ fr[n].pid = 2 /\ kh1 = kh /\ ch1 = ch
         /\ IF call = "display" THEN z1 = e
            ELSE IF h[n] = "display" THEN z1 = NULL ELSE z1 = z
    OBVIOUS
<1> HIDE DEF fr1, h1, n
<1>9. ASSUME NEW i \in 1 .. n
      PROVE  /\ fr1[i].pid = 0 => h1[i] \in {"transfer", "return"} /\ fr1[i].env = kh1
             /\ fr1[i].pid = 1 => h1[i] \in {"transfer", "return"} /\ fr1[i].env = ch1
             /\ fr1[i].pid \in {0, 1} /\ h1[i] = "return" => fr1[i].env = NULL
             /\ h1[i] = "display" => fr1[i].env = z1
    <2>1. CASE i = n
        BY <1>1, <1>2, <1>7, <2>1
    <2>2. CASE i # n
        BY <1>1, <1>2, <1>4, <1>6, <1>7, <2>2
    <2> QED
        BY <2>1, <2>2
<1>10. kh1 # NULL => \E i \in 1 .. n : fr1[i].pid = 0
    BY <1>1, <1>5, <1>7
<1>11. ch1 # NULL => \E i \in 1 .. n : fr1[i].pid = 1
    BY <1>1, <1>5, <1>7
<1>12. z1 # NULL => \E i \in 1 .. n : h1[i] = "display"
    BY <1>1, <1>2, <1>5, <1>6, <1>7
<1>13. Hands(fr1, h1, kh1, ch1, z1)
    BY <1>1, <1>9, <1>10, <1>11, <1>12 DEF Hands
<1> QED
    BY <1>13 DEF fr1, h1, n

LEMMA HandsReplied ==
    ASSUME NEW fr \in Seq(Frame), NEW h \in Seq(Call), Len(h) = Len(fr), fr # <<>>,
           \A i, j \in 1 .. Len(fr) : fr[i].pid = fr[j].pid => i = j,
           \A i \in 1 .. Len(fr) : h[i] = "display" => fr[i].pid = 2,
           NEW kh, NEW ch, NEW z, Hands(fr, h, kh, ch, z), fr[Len(fr)].pid = 0
    PROVE  Hands([fr EXCEPT ![Len(fr)].env = NULL], [h EXCEPT ![Len(h)] = "return"], NULL, ch, z)
<1>1. ASSUME NEW e \in Env \cup {NULL}, NEW call \in Call, NEW kh1, e = NULL, call = "return", kh1 = NULL
      PROVE  Hands([fr EXCEPT ![Len(fr)].env = e], [h EXCEPT ![Len(h)] = call], kh1, ch, z)
    BY <1>1, HandsSet
<1>2. NULL \in Env \cup {NULL} /\ "return" \in Call
    BY DEF Call
<1> QED
    BY <1>1, <1>2

-----------------------------------------------------------------------------
(* Steps that leave the envelopes where they are.                          *)
LEMMA Stocked ==
    ASSUME RTXInv
    PROVE  /\ envs \in Store(Env, EnvQueue) /\ NULL \notin Env
           /\ pc \in [Client -> Point] /\ env \in [Client -> Env \cup {NULL}]
           /\ sender_id \in [Env -> PID \cup {-1}] /\ content \in [Env -> Content]
           /\ frames \in Seq(Frame) /\ hpc \in Seq(Call) /\ Len(hpc) = Len(frames)
           /\ \A i, j \in 1 .. Len(frames) : frames[i].pid = frames[j].pid => i = j
           /\ \A i \in 1 .. Len(frames) : hpc[i] = "display" => frames[i].pid = 2
           /\ posted \in [{"s", "print"} -> Nat] /\ Spent \in Nat /\ NUM_ENV \in Nat
           /\ \A q \in EnvQueue : envs.head[q] \in Env \cup {NULL}
BY Domains, Queues, SpentCounts, SizeAssumption
   DEF RTXInv, KernelInv, TypeOK, Programs, Stack, Store

(* To show that the shape is kept it is enough to name what the queues and *)
(* the hands contain.                                                      *)
LEMMA ShapeFrom ==
    ASSUME NEW b \in Seq(Env), NEW c \in Seq(Env), NEW D \in SUBSET Env,
           NEW k \in Env \cup {NULL}, NEW x \in Env \cup {NULL}, NEW z \in Env \cup {NULL},
           NEW kh \in Env \cup {NULL}, NEW ch \in Env \cup {NULL},
           Layout(b, c, D, k, x, z, kh, ch)', at'[B] # "emptied"
    PROVE  Shape'
BY DEF Shape

(* Process B does not begin to take an envelope.                           *)
LEMMA OutOfB ==
    ASSUME RTXInv, [RTXNext]_all, at[B] # "emptied", Others
    PROVE  at'[B] # "emptied"
<1>1. at'[B] = "emptied" => StoreHead(B)
    BY Between, Processes
<1>2. StoreHead(B) => envs.head[B] \in Env
    BY StoreHeadResult, Processes
<1> QED
    BY <1>1, <1>2, Stocked DEF Others

(* A step that changes none of it.                                         *)
LEMMA SameLayout ==
    ASSUME NEW b \in Seq(Env), NEW c \in Seq(Env), NEW D \in SUBSET Env,
           NEW k \in Env \cup {NULL}, NEW x \in Env \cup {NULL}, NEW z \in Env \cup {NULL},
           NEW kh \in Env \cup {NULL}, NEW ch \in Env \cup {NULL},
           Layout(b, c, D, k, x, z, kh, ch),
           UNCHANGED <<envs, pc, env, first, content, sender_id, frames, hpc, posted, shown>>,
           at'[CCI] = "emptied" <=> at[CCI] = "emptied"
    PROVE  Layout(b, c, D, k, x, z, kh, ch)'
<1>1. Threads(envs', b, c, D, k, x, z, first') /\ Hands(frames', hpc', kh, ch, z)
    BY DEF Layout
<1>2. Enough(b, k, z)' /\ Console(c, k, x, kh, ch)' /\ Text(b, c, k, x, z, ch)' /\ Senders(c, D, x, ch)' /\ Others'
    BY DEF Layout, Enough, Spent, Console, Text, Senders, Others
<1> QED
    BY <1>1, <1>2 DEF Layout

(* The CCI goes on within the part of its loop where it has the envelope.  *)
LEMMA PcMoves ==
    ASSUME RTXInv, NEW b \in Seq(Env), NEW c \in Seq(Env), NEW D \in SUBSET Env,
           NEW k \in Env \cup {NULL}, NEW x \in Env \cup {NULL}, NEW z \in Env \cup {NULL},
           NEW kh \in Env \cup {NULL}, NEW ch \in Env \cup {NULL},
           Layout(b, c, D, k, x, z, kh, ch), NEW next,
           \/ pc[CCI] = "execute" /\ next = "release"
           \/ pc[CCI] = "yield" /\ next = "ask",
           pc' = [pc EXCEPT ![CCI] = next],
           UNCHANGED <<envs, env, first, content, sender_id, frames, hpc, posted, shown>>
    PROVE  Layout(b, c, D, k, x, z, kh, ch)'
<1>1. Threads(envs', b, c, D, k, x, z, first') /\ Hands(frames', hpc', kh, ch, z)
    BY DEF Layout
<1>2. pc'[CCI] = next /\ pc'[A] = pc[A] /\ pc'[B] = pc[B]
    BY Stocked, Processes
<1>3. Enough(b, k, z)' /\ Senders(c, D, x, ch)'
    BY DEF Layout, Enough, Spent, Senders
<1>4. Console(c, k, x, kh, ch)'
    BY <1>2 DEF Layout, Console
<1>5. Text(b, c, k, x, z, ch)'
    BY <1>2 DEF Layout, Text
<1>6. Others'
    BY <1>2 DEF Layout, Others
<1> QED
    BY <1>1, <1>3, <1>4, <1>5, <1>6 DEF Layout

(* While a program runs no handler has anything in its hands.              *)
LEMMA HandsFree ==
    ASSUME frames = <<>>, NEW kh, NEW ch, NEW z, Hands(frames, hpc, kh, ch, z)
    PROVE  kh = NULL /\ ch = NULL /\ z = NULL
<1>1. Len(frames) = 0
    BY EmptySeq
<1> QED
    BY <1>1 DEF Hands

(* The head of another queue, ...                                          *)
LEMMA HeadENQ ==
    ASSUME NEW s \in Store(Env, EnvQueue), NEW q \in EnvQueue, NEW e \in Env
    PROVE  /\ s.head[q] = NULL => env_ENQ(s, q, e).head[q] = e
           /\ s.head[q] # NULL => env_ENQ(s, q, e).head[q] = s.head[q]
           /\ \A r \in EnvQueue : r # q => env_ENQ(s, q, e).head[r] = s.head[r]
BY AfterENQ

(* ... when one is appended to or taken from.                              *)
LEMMA HeadDEQ ==
    ASSUME NEW s \in Store(Env, EnvQueue), NEW q \in EnvQueue, s.head[q] # NULL
    PROVE  /\ env_DEQ(s, q).head[q] = s.p[s.head[q]]
           /\ \A r \in EnvQueue : r # q => env_DEQ(s, q).head[r] = s.head[r]
BY AfterDEQ

(* The envelope of the console is on no other queue, but for that of a     *)
(* text that has just been sent.                                           *)
LEMMA ConsoleApart ==
    ASSUME NEW s, NEW b, NEW c, NEW D, NEW k, NEW x, NEW z, NEW w, Threads(s, b, c, D, k, x, z, w),
           k # x
    PROVE  /\ \A i \in 1 .. Len(c) : c[i] # k
           /\ \A i \in 1 .. Len(b) : b[i] # k
           /\ k \notin D
           /\ k # NULL => s.p[k] = NULL
BY DEF Threads, Separate, Single

-----------------------------------------------------------------------------
(* The steps of the CCI.                                                   *)
LEMMA AskLayout ==
    ASSUME RTXInv, NEW b \in Seq(Env), NEW c \in Seq(Env), NEW D \in SUBSET Env,
           NEW k \in Env \cup {NULL}, NEW x \in Env \cup {NULL},
           Layout(b, c, D, k, x, NULL, NULL, NULL), Sends(CCI, "ask", 0, "receive")
    PROVE  Layout(b, c, D, k, x, NULL, NULL, NULL)'
<1>1. /\ pc[CCI] = "ask" /\ pc' = [pc EXCEPT ![CCI] = "receive"] /\ curr_process = CCI
      /\ sender_id' = [sender_id EXCEPT ![env[CCI]] = CCI] /\ envs' = env_ENQ(envs, 0, env[CCI])
      /\ at[CCI] = "user" /\ UNCHANGED <<at, env, first, content, frames, hpc, posted, shown>>
    BY DEF Sends, SendMessage, k_send_message, Goto, Runs
<1>2. /\ env[CCI] = k /\ k \in Env /\ envs.head[0] = NULL /\ envs.head[CCI] \in {NULL, x}
      /\ x # NULL => x # k
    BY <1>1 DEF Layout, Console, Text
<1>3. pc'[CCI] = "receive" /\ pc'[A] = pc[A] /\ pc'[B] = pc[B]
    BY <1>1, Stocked, Processes
<1>4. /\ 0 \in EnvQueue \ {1, 2, envelope_q} /\ envs \in Store(Env, EnvQueue)
      /\ Threads(envs, b, c, D, k, x, NULL, first)
    BY Queues, Stocked DEF Layout
<1>5. Threads(envs', b, c, D, k, x, NULL, first')
    BY <1>1, <1>2, <1>4, ElsewhereENQ
<1>6. /\ envs'.head[0] = k /\ envs'.head[CCI] = envs.head[CCI] /\ envs'.head[A] = envs.head[A]
      /\ envs'.head[B] = envs.head[B] /\ envs'.head[NULLPID] = envs.head[NULLPID]
    <2>1. /\ env_ENQ(envs, 0, k).head[0] = k
          /\ \A r \in EnvQueue : r # 0 => env_ENQ(envs, 0, k).head[r] = envs.head[r]
        BY <1>2, <1>4, HeadENQ
    <2> QED
        BY <1>1, <1>2, <2>1, Queues
<1>7. sender_id'[k] = CCI /\ \A e \in Env : e # k => sender_id'[e] = sender_id[e]
    BY <1>1, <1>2, Stocked
<1>8. Enough(b, k, NULL)' /\ Hands(frames', hpc', NULL, NULL, NULL)
    BY <1>1 DEF Layout, Enough, Spent
<1>9. Console(c, k, x, NULL, NULL)'
    BY <1>1, <1>2, <1>3, <1>6, <1>7, Queues DEF Console
<1>10. Text(b, c, k, x, NULL, NULL)'
    <2>1. Text(b, c, k, x, NULL, NULL)
        BY DEF Layout
    <2> QED
        BY <1>1, <1>3, <1>6, <2>1 DEF Text
<1>11. Senders(c, D, x, NULL)'
    <2>1. Senders(c, D, x, NULL)
        BY DEF Layout
    <2>2. \A i \in 1 .. Len(c) : c[i] \in Env /\ c[i] # k
        BY <1>2, <1>4, ConsoleApart, EnvSeq
    <2> QED
        BY <1>7, <2>1, <2>2 DEF Senders
<1>12. Others'
    BY <1>1, <1>3, <1>6 DEF Layout, Others
<1> QED
    BY <1>5, <1>8, <1>9, <1>10, <1>11, <1>12 DEF Layout

(* What is at the head of the queue of the CCI while its program runs.     *)
LEMMA Incoming ==
    ASSUME RTXInv, NEW b \in Seq(Env), NEW c \in Seq(Env), NEW D \in SUBSET Env,
           NEW k \in Env \cup {NULL}, NEW x \in Env \cup {NULL},
           Layout(b, c, D, k, x, NULL, NULL, NULL), pc[CCI] = "receive", at[CCI] # "emptied",
           NEW e, e = envs.head[CCI], e # NULL
    PROVE  /\ e \in Env /\ k # NULL /\ Threads(envs, b, c, D, k, x, NULL, first)
           /\ envs.p[e] = NULL
           /\ \/ /\ envs.head[0] = k /\ e = x /\ sender_id[k] = CCI /\ x # k
                 /\ (\A i \in 1 .. Len(c) : c[i] # x) /\ content[x] = "ack"
              \/ envs.head[0] = NULL /\ e = k /\ x = NULL /\ content[k] \in Commands
<1>1. e \in Env /\ k # NULL /\ Threads(envs, b, c, D, k, x, NULL, first)
    BY Queues, Stocked DEF Layout, Console
<1>2. x # NULL => /\ x # k
                  /\ \/ \E i \in 1 .. Len(c) : c[i] = x
                     \/ (\A i \in 1 .. Len(c) : c[i] # x) /\ envs.head[CCI] = x /\ content[x] = "ack"
    BY DEF Layout, Text
<1>3. \/ envs.head[0] = k /\ e = x /\ sender_id[k] = CCI
      \/ envs.head[0] = NULL /\ e = k /\ content[k] \in Commands /\ (x = NULL \/ Off(c, x, NULL))
    BY DEF Layout, Console
<1>4. \/ /\ envs.head[0] = k /\ e = x /\ sender_id[k] = CCI /\ x # k
         /\ (\A i \in 1 .. Len(c) : c[i] # x) /\ content[x] = "ack"
      \/ envs.head[0] = NULL /\ e = k /\ x = NULL /\ content[k] \in Commands
    <2>1. CASE envs.head[0] = k /\ e = x /\ sender_id[k] = CCI
        <3>1. Text(b, c, k, x, NULL, NULL)
            BY DEF Layout
        <3> QED
            BY <1>2, <2>1, <3>1 DEF Text
    <2>2. CASE envs.head[0] = NULL /\ e = k /\ content[k] \in Commands /\ (x = NULL \/ Off(c, x, NULL))
        BY <1>2, <2>2 DEF Off
    <2> QED
        BY <1>3, <2>1, <2>2
<1>5. envs.p[e] = NULL
    <2>1. CASE e = x
        BY <1>1, <1>4, <2>1 DEF Threads, Single
    <2>2. CASE e = k /\ x = NULL
        BY <1>1, <2>2, ConsoleApart
    <2> QED
        BY <1>4, <2>1, <2>2
<1> QED
    BY <1>1, <1>4, <1>5

(* The CCI receives the line, or the acknowledgement of its text, which it *)
(* forgets: its variable is all that referred to the envelope, which is in *)
(* the pool.                                                               *)
LEMMA CCIReceiveLayout ==
    ASSUME RTXInv, NEW b \in Seq(Env), NEW c \in Seq(Env), NEW D \in SUBSET Env,
           NEW k \in Env \cup {NULL}, NEW x \in Env \cup {NULL}, first # NULL,
           Layout(b, c, D, k, x, NULL, NULL, NULL), CCIReceive
    PROVE  \E x1 \in Env \cup {NULL} : Layout(b, c, D, k, x1, NULL, NULL, NULL)'
<1> DEFINE e    == IF at[CCI] = "emptied" THEN env[CCI] ELSE envs.head[CCI]
           next == IF e \in Env /\ content[e] \in Commands THEN "execute" ELSE "receive"
           L(x1) == Layout(b, c, D, k, x1, NULL, NULL, NULL)'
<1>1. /\ pc[CCI] = "receive" /\ UNCHANGED <<first, content, hpc, posted, shown>>
      /\ \/ (ReceiveMessage(CCI) \/ ResumeReceive(CCI)) /\ Obtains(CCI, CCI, next)
         \/ StoreHead(CCI) /\ env' = [env EXCEPT ![CCI] = envs.head[CCI]] /\ UNCHANGED pc
         \/ StoreTail(CCI) /\ Goto(CCI, next) /\ UNCHANGED env
    BY DEF CCIReceive, Receives
<1>2. /\ CCI \in EnvQueue \ {1, 2, envelope_q} /\ envs \in Store(Env, EnvQueue) /\ CCI \in User
      /\ at \in [User -> Place] /\ NULL \notin Env /\ "ack" \notin Commands
    BY Queues, Stocked, Processes, RTXAssumption DEF RTXInv, KernelInv, TypeOK
<1>3. ASSUME UNCHANGED <<frames, sender_id>>, pc'[A] = pc[A], pc'[B] = pc[B], k # NULL,
             \A r \in EnvQueue : r # CCI => envs'.head[r] = envs.head[r],
             NEW x1 \in Env \cup {NULL}, x1 = NULL,
             x # NULL => \A i \in 1 .. Len(c) : c[i] # x,
             Threads(envs', b, c, D, k, x1, NULL, first'), Console(c, k, x1, NULL, NULL)',
             pc'[CCI] # "start"
      PROVE  L(x1)
    <2>1. /\ envs'.head[0] = envs.head[0] /\ envs'.head[A] = envs.head[A]
          /\ envs'.head[B] = envs.head[B] /\ envs'.head[NULLPID] = envs.head[NULLPID]
        BY <1>3, Queues
    <2>2. Enough(b, k, NULL)' /\ Hands(frames', hpc', NULL, NULL, NULL)
        BY <1>1, <1>3 DEF Layout, Enough, Spent
    <2>3. Others'
        BY <1>1, <1>3, <2>1 DEF Layout, Others
    <2>4. Text(b, c, k, x1, NULL, NULL)'
        BY <1>3 DEF Text
    <2>5. Senders(c, D, x1, NULL)'
        <3>1. \A i \in 1 .. Len(c) : c[i] # NULL /\ sender_id[c[i]] = 2
            BY <1>3, EnvSeq DEF Layout, Senders
        <3> QED
            BY <1>3, <3>1 DEF Senders
    <2> QED
        BY <1>3, <2>2, <2>3, <2>4, <2>5 DEF Layout
<1>4. CASE (ReceiveMessage(CCI) \/ ResumeReceive(CCI)) /\ Obtains(CCI, CCI, next)
    <2>1. /\ UNCHANGED <<frames, sender_id>> /\ at[CCI] # "emptied" /\ at'[CCI] # "emptied"
          /\ at'[CCI] = "user" => envs.head[CCI] # NULL /\ envs' = env_DEQ(envs, CCI)
          /\ at'[CCI] # "user" => UNCHANGED envs
        BY <1>2, <1>4, Processes, ReceiveResult
    <2>2. CASE at'[CCI] # "user"
        <3>1. UNCHANGED <<envs, pc, env, first, content, sender_id, frames, hpc, posted, shown>>
            BY <1>1, <1>4, <2>1, <2>2 DEF Obtains
        <3>2. L(x)
            BY <2>1, <3>1, SameLayout
        <3> QED
            BY <3>2
    <2>3. CASE at'[CCI] = "user"
        <3>1. /\ e = envs.head[CCI] /\ e # NULL /\ envs' = env_DEQ(envs, CCI)
              /\ env' = [env EXCEPT ![CCI] = e] /\ pc' = [pc EXCEPT ![CCI] = next]
            BY <1>4, <2>1, <2>3 DEF Obtains, Goto
        <3> HIDE DEF e
        <3>2. /\ e \in Env /\ k # NULL /\ Threads(envs, b, c, D, k, x, NULL, first)
              /\ envs.p[e] = NULL
              /\ \/ /\ envs.head[0] = k /\ e = x /\ sender_id[k] = CCI /\ x # k
                    /\ (\A i \in 1 .. Len(c) : c[i] # x) /\ content[x] = "ack"
                 \/ envs.head[0] = NULL /\ e = k /\ x = NULL /\ content[k] \in Commands
            BY <1>1, <2>1, <3>1, Incoming
        <3>3. /\ envs'.head[CCI] = NULL
              /\ \A r \in EnvQueue : r # CCI => envs'.head[r] = envs.head[r]
            BY <1>2, <3>1, <3>2, AfterDEQ
        <3>4. Threads(envs', b, c, D, k, x, NULL, first')
            BY <1>1, <1>2, <3>1, <3>2, ElsewhereDEQ
        <3>5. pc'[CCI] = next /\ pc'[A] = pc[A] /\ pc'[B] = pc[B] /\ env'[CCI] = e
            BY <3>1, Stocked, Processes
        <3>6. envs'.head[0] = envs.head[0] /\ next # "start"
            BY <3>3, Queues
        <3>7. CASE e = x
            <4>1. next = "receive"
                BY <1>2, <3>2, <3>7
            <4>2. Threads(envs', b, c, D, k, NULL, NULL, first')
                BY <1>1, <1>2, <3>2, <3>4, <3>7, TextBack
            <4>3. Console(c, k, NULL, NULL, NULL)'
                BY <1>2, <2>1, <3>2, <3>3, <3>5, <3>6, <3>7, <4>1 DEF Console
            <4>4. L(NULL)
                BY <1>3, <2>1, <3>2, <3>3, <3>5, <3>6, <3>7, <4>2, <4>3
            <4> QED
                BY <4>4
        <3>8. CASE e = k /\ x = NULL
            <4>1. next = "execute"
                BY <1>2, <3>2, <3>8
            <4>2. Console(c, k, NULL, NULL, NULL)'
                BY <1>2, <3>2, <3>3, <3>5, <3>6, <3>8, <4>1 DEF Console
            <4>3. L(NULL)
                BY <1>3, <2>1, <3>2, <3>3, <3>4, <3>5, <3>6, <3>8, <4>2
            <4> QED
                BY <4>3
        <3> QED
            BY <3>2, <3>7, <3>8
    <2> QED
        BY <2>2, <2>3
<1>5. CASE StoreHead(CCI) /\ env' = [env EXCEPT ![CCI] = envs.head[CCI]] /\ UNCHANGED pc
    <2>1. /\ UNCHANGED <<frames, sender_id>> /\ envs.head[CCI] \in Env
          /\ at[CCI] = "taking" /\ at' = [at EXCEPT ![CCI] = "emptied"]
          /\ envs' \in Store(Env, EnvQueue) /\ envs'.tail = envs.tail
          /\ envs'.p = [envs.p EXCEPT ![envs.head[CCI]] = NULL]
          /\ envs'.head = [envs.head EXCEPT ![CCI] = NULL]
        BY <1>5, Processes, StoreHeadResult
    <2>2. e = envs.head[CCI] /\ e # NULL /\ at[CCI] # "emptied"
        BY <1>2, <2>1
    <2> HIDE DEF e
    <2>3. /\ e \in Env /\ k # NULL /\ Threads(envs, b, c, D, k, x, NULL, first)
          /\ envs.p[e] = NULL
          /\ \/ /\ envs.head[0] = k /\ e = x /\ sender_id[k] = CCI /\ x # k
                /\ (\A i \in 1 .. Len(c) : c[i] # x) /\ content[x] = "ack"
             \/ envs.head[0] = NULL /\ e = k /\ x = NULL /\ content[k] \in Commands
        BY <1>1, <2>2, Incoming
    <2>4. /\ envs'.head[CCI] = NULL /\ at'[CCI] = "emptied" /\ env'[CCI] = e
          /\ \A r \in EnvQueue : r # CCI => envs'.head[r] = envs.head[r]
          /\ \A n \in Env : envs'.p[n] = envs.p[n]
        BY <1>2, <1>5, <2>1, <2>2, <2>3, Stocked, Processes DEF Store
    <2>5. Threads(envs', b, c, D, k, x, NULL, first')
        <3>1. \A r \in {1, 2, envelope_q} : envs'.head[r] = envs.head[r] /\ envs'.tail[r] = envs.tail[r]
            BY <1>2, <2>1, <2>4, Queues
        <3> QED
            BY <1>1, <1>2, <2>1, <2>3, <2>4, <3>1, SameThreads
    <2>6. envs'.head[0] = envs.head[0] /\ pc' = pc /\ pc'[CCI] # "start"
        BY <1>1, <1>5, <2>4, Queues
    <2>7. CASE e = x
        <3>1. Threads(envs', b, c, D, k, NULL, NULL, first')
            BY <1>1, <1>2, <2>3, <2>5, <2>7, TextBack
        <3>2. Console(c, k, NULL, NULL, NULL)'
            BY <1>1, <1>2, <2>1, <2>3, <2>4, <2>6, <2>7 DEF Console
        <3>3. L(NULL)
            BY <1>3, <2>1, <2>3, <2>4, <2>6, <2>7, <3>1, <3>2
        <3> QED
            BY <3>3
    <2>8. CASE e = k /\ x = NULL
        <3>1. Console(c, k, NULL, NULL, NULL)'
            BY <1>1, <1>2, <2>1, <2>3, <2>4, <2>6, <2>8 DEF Console
        <3>2. L(NULL)
            BY <1>3, <2>1, <2>3, <2>4, <2>5, <2>6, <2>8, <3>1
        <3> QED
            BY <3>2
    <2> QED
        BY <2>3, <2>7, <2>8
<1>6. CASE StoreTail(CCI) /\ Goto(CCI, next) /\ UNCHANGED env
    <2>1. /\ UNCHANGED <<frames, sender_id>> /\ at[CCI] = "emptied"
          /\ at' = [at EXCEPT ![CCI] = "user"]
          /\ envs' \in Store(Env, EnvQueue) /\ envs'.p = envs.p /\ envs'.head = envs.head
          /\ \A r \in EnvQueue : r # CCI => envs'.tail[r] = envs.tail[r]
        BY <1>6, Processes, StoreTailResult
    <2>2. e = env[CCI] /\ at'[CCI] # "emptied"
        BY <1>2, <2>1
    <2> HIDE DEF e
    <2>3. /\ k # NULL /\ x = NULL
          /\ \/ /\ envs.head[0] = k /\ envs.head[CCI] = NULL /\ sender_id[k] = CCI
                /\ e \in Env /\ content[e] = "ack"
             \/ envs.head[0] = NULL /\ envs.head[CCI] = NULL /\ e = k /\ content[k] \in Commands
        BY <1>1, <2>1, <2>2 DEF Layout, Console
    <2>4. Threads(envs', b, c, D, k, NULL, NULL, first')
        <3>1. \A r \in {1, 2, envelope_q} : envs'.head[r] = envs.head[r] /\ envs'.tail[r] = envs.tail[r]
            BY <1>2, <2>1, Queues
        <3>2. Threads(envs, b, c, D, k, NULL, NULL, first)
            BY <2>3 DEF Layout
        <3> QED
            BY <1>1, <1>2, <2>1, <3>1, <3>2, SameThreads
    <2>5. pc'[CCI] = next /\ pc'[A] = pc[A] /\ pc'[B] = pc[B] /\ env'[CCI] = e /\ next # "start"
        BY <1>6, <2>2, Stocked, Processes DEF Goto
    <2>6. CASE envs.head[0] = k
        <3>1. next = "receive"
            BY <1>2, <2>3, <2>6
        <3>2. Console(c, k, NULL, NULL, NULL)'
            BY <1>2, <2>1, <2>2, <2>3, <2>5, <2>6, <3>1 DEF Console
        <3>3. L(NULL)
            BY <1>3, <2>1, <2>3, <2>4, <2>5, <3>2
        <3> QED
            BY <3>3
    <2>7. CASE envs.head[0] = NULL
        <3>1. next = "execute"
            BY <2>3, <2>7
        <3>2. Console(c, k, NULL, NULL, NULL)'
            BY <1>2, <2>1, <2>3, <2>5, <2>7, <3>1 DEF Console
        <3>3. L(NULL)
            BY <1>3, <2>1, <2>3, <2>4, <2>5, <3>2
        <3> QED
            BY <3>3
    <2> QED
        BY <2>3, <2>6, <2>7
<1> QED
    BY <1>1, <1>4, <1>5, <1>6

(* s, ps, b and e overwrite the variable: the envelope of the line is      *)
(* spent.                                                                  *)
LEMMA CCIRenewLayout ==
    ASSUME RTXInv, NEW b \in Seq(Env), NEW c \in Seq(Env), NEW D \in SUBSET Env,
           NEW k \in Env \cup {NULL}, NEW x \in Env \cup {NULL}, first # NULL,
           Layout(b, c, D, k, x, NULL, NULL, NULL),
           NEW command \in {"s", "print"}, NEW next,
           \/ command = "s" /\ next = "start"
           \/ command = "print" /\ next = "print",
           CCIRenew(command, next), ~ Flooded'
    PROVE  \E b1 \in Seq(Env), k1 \in Env \cup {NULL} : Layout(b1, c, D, k1, x, NULL, NULL, NULL)'
<1>1. /\ pc[CCI] = "execute" /\ RequestEnv(CCI) /\ Obtains(CCI, envelope_q, next)
      /\ UNCHANGED <<first, content, hpc, shown>>
    BY DEF CCIRenew
<1>2. /\ UNCHANGED <<frames, sender_id>>
      /\ at'[CCI] = "user" => envs.head[envelope_q] # NULL /\ envs' = env_DEQ(envs, envelope_q)
      /\ at'[CCI] # "user" => UNCHANGED envs
      /\ at'[CCI] = "emptied" <=> at[CCI] = "emptied"
    BY <1>1, Processes, RequestResult
<1>3. x = NULL
    BY <1>1 DEF Layout, Text
<1>4. CASE at'[CCI] # "user"
    <2>1. UNCHANGED <<envs, pc, env, first, content, sender_id, frames, hpc, posted, shown>>
        BY <1>1, <1>2, <1>4, RenewCounts DEF Obtains
    <2>2. Layout(b, c, D, k, x, NULL, NULL, NULL)'
        BY <1>2, <2>1, SameLayout
    <2> QED
        BY <2>2
<1>5. CASE at'[CCI] = "user"
    <2>1. /\ envs.head[envelope_q] # NULL /\ envs' = env_DEQ(envs, envelope_q)
          /\ env' = [env EXCEPT ![CCI] = envs.head[envelope_q]] /\ pc' = [pc EXCEPT ![CCI] = next]
        BY <1>1, <1>2, <1>5 DEF Obtains, Goto
    <2>2. /\ posted'[command] = posted[command] + 1
          /\ \A d \in {"s", "print"} : d # command => posted'[d] = posted[d]
        BY <1>5, RenewCounts
    <2>3. /\ envs \in Store(Env, EnvQueue) /\ Threads(envs, b, c, D, k, NULL, NULL, first)
          /\ k # NULL /\ envs.head[0] = NULL /\ envs.head[CCI] = NULL
        BY <1>1, <1>3, Stocked DEF Layout, Console
    <2>4. b # <<>> /\ b[1] \in Env /\ Len(b) \in Nat \ {0}
        <3>1. Pool(envs, b, NULL)
            BY <2>3 DEF Threads
        <3> QED
            BY <2>1, <3>1, EnvSeq DEF Pool
    <2>5. NULL \notin Env
        BY Stocked
    <2>6. /\ envs.head[envelope_q] = b[1]
          /\ Threads(env_DEQ(envs, envelope_q), Tail(b), c, D, b[1], NULL, NULL, first)
        BY <2>3, <2>4, <2>5, PoolTake
    <2>7. /\ Tail(b) \in Seq(Env) /\ Len(Tail(b)) = Len(b) - 1
        BY <2>4, EnvTail
    <2>8. pc'[CCI] = next /\ pc'[A] = pc[A] /\ pc'[B] = pc[B] /\ env'[CCI] = b[1]
        BY <2>1, <2>6, Stocked, Processes
    <2>9. \A r \in EnvQueue : r # envelope_q => envs'.head[r] = envs.head[r]
        BY <2>1, <2>3, Queues, HeadDEQ
    <2>10. Spent' = Spent + 1 /\ Spent \in Nat
        <3>1. /\ posted["s"] \in Nat /\ posted["print"] \in Nat /\ shown \in Nat /\ Spent \in Nat
              /\ shown' = shown
            BY <1>1, SpentCounts
        <3>2. CASE command = "s"
            <4>1. posted'["s"] = posted["s"] + 1 /\ posted'["print"] = posted["print"]
                BY <2>2, <3>2
            <4> QED
                BY <3>1, <4>1 DEF Spent
        <3>3. CASE command = "print"
            <4>1. posted'["s"] = posted["s"] /\ posted'["print"] = posted["print"] + 1
                BY <2>2, <3>3
            <4> QED
                BY <3>1, <4>1 DEF Spent
        <3> QED
            BY <3>2, <3>3
    <2>11. Enough(Tail(b), b[1], NULL)'
        <3>1. /\ NUM_ENV <= Len(b) + 1 + 0 + 1 + Spent
              /\ One(b[1]) = 1 /\ One(NULL) = 0 /\ One(k) = 1
            BY <2>3, <2>4, <2>5 DEF Layout, Enough, One
        <3>2. NUM_ENV <= Len(Tail(b)) + 1 + 0 + 1 + Spent'
            BY <2>4, <2>7, <2>10, <3>1, Stocked
        <3> QED
            BY <3>1, <3>2 DEF Enough
    <2>12. Console(c, b[1], NULL, NULL, NULL)'
        BY <2>3, <2>4, <2>5, <2>8, <2>9, Queues DEF Console
    <2>13. Text(Tail(b), c, b[1], NULL, NULL, NULL)'
        BY DEF Text
    <2>14. Senders(c, D, NULL, NULL)' /\ Hands(frames', hpc', NULL, NULL, NULL)
        BY <1>1, <1>2, <1>3 DEF Layout, Senders
    <2>15. Others'
        <3>1. posted["s"] \in Nat /\ posted'["s"] <= 1
            BY <1>1, SpentCounts, HistoryGrows, <2>2 DEF Flooded
        <3>2. CASE command = "s"
            BY <2>2, <2>8, <2>9, <3>1, <3>2, Queues DEF Layout, Others
        <3>3. CASE command = "print"
            <4>1. posted'["s"] = posted["s"] /\ next = "print"
                BY <2>2, <3>3
            <4> QED
                BY <2>8, <2>9, <4>1, Queues DEF Layout, Others
        <3> QED
            BY <3>2, <3>3
    <2>16. Layout(Tail(b), c, D, b[1], NULL, NULL, NULL, NULL)'
        BY <1>1, <2>1, <2>6, <2>11, <2>12, <2>13, <2>14, <2>15 DEF Layout
    <2> QED
        BY <1>3, <2>4, <2>7, <2>16
<1> QED
    BY <1>4, <1>5

(* s sends the new envelope to process A, where it stays until A runs.     *)
LEMMA StartLayout ==
    ASSUME RTXInv, NEW b \in Seq(Env), NEW c \in Seq(Env), NEW D \in SUBSET Env,
           NEW k \in Env \cup {NULL}, NEW x \in Env \cup {NULL},
           Layout(b, c, D, k, x, NULL, NULL, NULL), Sends(CCI, "start", A, "release")
    PROVE  Layout(b, c, D, k, x, NULL, NULL, NULL)'
<1>1. /\ pc[CCI] = "start" /\ pc' = [pc EXCEPT ![CCI] = "release"] /\ curr_process = CCI
      /\ sender_id' = [sender_id EXCEPT ![env[CCI]] = CCI] /\ envs' = env_ENQ(envs, A, env[CCI])
      /\ UNCHANGED <<env, first, content, frames, hpc, posted, shown>>
    BY DEF Sends, SendMessage, k_send_message, Goto, Runs
<1>2. /\ env[CCI] = k /\ k \in Env /\ envs.head[0] = NULL /\ envs.head[CCI] = NULL
      /\ x = NULL
    BY <1>1 DEF Layout, Console, Text
<1>3. pc'[CCI] = "release" /\ pc'[A] = pc[A] /\ pc'[B] = pc[B]
    BY <1>1, Stocked, Processes
<1>4. /\ A \in EnvQueue \ {1, 2, envelope_q} /\ envs \in Store(Env, EnvQueue)
      /\ Threads(envs, b, c, D, k, x, NULL, first) /\ envs.head[A] = NULL
      /\ pc[A] = "receive" /\ pc[B] = "receive" /\ posted["s"] # 0
      /\ envs.head[B] = NULL /\ envs.head[NULLPID] = NULL
    BY <1>1, Queues, Stocked DEF Layout, Others
<1>5. Threads(envs', b, c, D, k, x, NULL, first')
    BY <1>1, <1>2, <1>4, ElsewhereENQ
<1>6. /\ \A r \in EnvQueue : r # A => env_ENQ(envs, A, k).head[r] = envs.head[r]
    BY <1>2, <1>4, HeadENQ
<1>7. \A e \in Env : e # k => sender_id'[e] = sender_id[e]
    BY <1>1, <1>2, Stocked
<1>8. Enough(b, k, NULL)' /\ Hands(frames', hpc', NULL, NULL, NULL)
    BY <1>1 DEF Layout, Enough, Spent
<1>9. Console(c, k, x, NULL, NULL)'
    BY <1>1, <1>2, <1>3, <1>6, Queues DEF Console
<1>10. Text(b, c, k, x, NULL, NULL)'
    BY <1>2 DEF Text
<1>11. Senders(c, D, x, NULL)'
    <2>1. Senders(c, D, x, NULL)
        BY DEF Layout
    <2>2. \A i \in 1 .. Len(c) : c[i] \in Env /\ c[i] # k
        BY <1>2, <1>4, ConsoleApart, EnvSeq
    <2> QED
        BY <1>7, <2>1, <2>2 DEF Senders
<1>12. Others'
    BY <1>1, <1>2, <1>3, <1>4, <1>6, Queues DEF Others
<1> QED
    BY <1>5, <1>8, <1>9, <1>10, <1>11, <1>12 DEF Layout

(* The text goes to the queue of crt_iproc.                                *)
LEMMA PrintLayout ==
    ASSUME RTXInv, NEW b \in Seq(Env), NEW c \in Seq(Env), NEW D \in SUBSET Env,
           NEW k \in Env \cup {NULL}, NEW x \in Env \cup {NULL}, first # NULL,
           Layout(b, c, D, k, x, NULL, NULL, NULL), Sends(CCI, "print", 1, "release")
    PROVE  k \in Env /\ Layout(b, Append(c, k), D, k, k, NULL, NULL, NULL)'
<1>1. /\ pc[CCI] = "print" /\ pc' = [pc EXCEPT ![CCI] = "release"] /\ curr_process = CCI
      /\ sender_id' = [sender_id EXCEPT ![env[CCI]] = CCI] /\ envs' = env_ENQ(envs, 1, env[CCI])
      /\ UNCHANGED <<env, first, content, frames, hpc, posted, shown>>
    BY DEF Sends, SendMessage, k_send_message, Goto, Runs
<1>2. /\ env[CCI] = k /\ k \in Env /\ envs.head[0] = NULL /\ envs.head[CCI] = NULL
      /\ x = NULL
    BY <1>1 DEF Layout, Console, Text
<1>3. pc'[CCI] = "release" /\ pc'[A] = pc[A] /\ pc'[B] = pc[B]
    BY <1>1, Stocked, Processes
<1>4. /\ envs \in Store(Env, EnvQueue)
      /\ Threads(envs, b, c, D, k, NULL, NULL, first)
    BY <1>2, Stocked DEF Layout
<1>5. Threads(envs', b, Append(c, k), D, k, k, NULL, first')
    BY <1>1, <1>2, <1>4, TextSent
<1>6. \A r \in EnvQueue : r # 1 => env_ENQ(envs, 1, k).head[r] = envs.head[r]
    BY <1>2, <1>4, Queues, HeadENQ
<1>7. sender_id'[k] = CCI /\ \A e \in Env : e # k => sender_id'[e] = sender_id[e]
    BY <1>1, <1>2, Stocked
<1>8. Enough(b, k, NULL)' /\ Hands(frames', hpc', NULL, NULL, NULL)
    BY <1>1 DEF Layout, Enough, Spent
<1>9. Console(Append(c, k), k, k, NULL, NULL)'
    BY <1>1, <1>2, <1>3, <1>6, Queues DEF Console
<1>10. /\ Len(c) \in Nat /\ Len(Append(c, k)) = Len(c) + 1 /\ Append(c, k)[Len(c) + 1] = k
       /\ \A i \in 1 .. Len(c) : Append(c, k)[i] = c[i]
    BY <1>2, EnvSeq, EnvAppend
<1>11. Text(b, Append(c, k), k, k, NULL, NULL)'
    <2>1. \E i \in 1 .. Len(Append(c, k)) : Append(c, k)[i] = k
        <3>1. Len(c) + 1 \in 1 .. Len(Append(c, k))
            BY <1>10
        <3> QED
            BY <1>10, <3>1
    <2>2. envs'.head[CCI] = NULL /\ k # NULL
        BY <1>1, <1>2, <1>6, Queues
    <2> QED
        BY <1>3, <2>1, <2>2 DEF Text
<1>12. Senders(Append(c, k), D, k, NULL)'
    <2>1. \A i \in 1 .. Len(c) : sender_id[c[i]] = 2
        BY <1>2, EnvSeq DEF Layout, Senders
    <2>2. \A i \in 1 .. Len(c) : c[i] \in Env /\ c[i] # k
        BY <1>2, <1>4, ConsoleApart, EnvSeq
    <2>3. \A i \in 1 .. Len(Append(c, k)) : i \in 1 .. Len(c) \/ i = Len(c) + 1
        BY <1>10
    <2>4. ASSUME NEW i \in 1 .. Len(Append(c, k))
          PROVE  sender_id'[Append(c, k)[i]] = IF Append(c, k)[i] = k THEN CCI ELSE 2
        <3>1. CASE i \in 1 .. Len(c)
            BY <1>7, <1>10, <2>1, <2>2, <3>1
        <3>2. CASE i = Len(c) + 1
            BY <1>7, <1>10, <3>2
        <3> QED
            BY <2>3, <3>1, <3>2
    <2> QED
        BY <2>4 DEF Senders
<1>13. Others'
    BY <1>1, <1>2, <1>3, <1>6, Queues DEF Layout, Others
<1> QED
    BY <1>2, <1>5, <1>8, <1>9, <1>11, <1>12, <1>13 DEF Layout

(* The senders of what remains of the queue.                               *)
LEMMA SendersRemain ==
    ASSUME NEW b \in Seq(Env), NEW c \in Seq(Env), NEW D \in SUBSET Env,
           NEW k \in Env \cup {NULL}, NEW x \in Env \cup {NULL}, NEW ch, Senders(c, D, x, ch),
           NEW c1 \in Seq(Env), NEW D1 \in SUBSET Env, Remains(c, D, x, c1, D1)
    PROVE  Senders(c1, D1, x, ch)
BY DEF Remains, Senders

(* The envelope in the variable goes to the pool: the one of the line, or  *)
(* the one of the text that is on its way.                                 *)
LEMMA CCIReleaseLayout ==
    ASSUME RTXInv, NEW b \in Seq(Env), NEW c \in Seq(Env), NEW D \in SUBSET Env,
           NEW k \in Env \cup {NULL}, NEW x \in Env \cup {NULL}, first # NULL,
           Layout(b, c, D, k, x, NULL, NULL, NULL), CCIRelease,
           Spent < NUM_ENV - 2
    PROVE  \E b1, c1 \in Seq(Env), D1 \in SUBSET Env : Layout(b1, c1, D1, NULL, x, NULL, NULL, NULL)'
<1>1. /\ pc[CCI] = "release" /\ pc' = [pc EXCEPT ![CCI] = "renew"]
      /\ envs' = env_ENQ(envs, envelope_q, env[CCI])
      /\ UNCHANGED <<env, first, content, sender_id, frames, hpc, posted, shown>>
    BY DEF CCIRelease, k_release_msg_env, Goto
<1>2. /\ env[CCI] = k /\ k \in Env /\ envs.head[0] = NULL /\ envs.head[CCI] \in {NULL, x}
      /\ x # NULL => x = k
    BY <1>1 DEF Layout, Console, Text
<1>3. pc'[CCI] = "renew" /\ pc'[A] = pc[A] /\ pc'[B] = pc[B]
    BY <1>1, Stocked, Processes
<1>4. /\ envs \in Store(Env, EnvQueue)
      /\ Threads(envs, b, c, D, k, x, NULL, first)
    BY Stocked DEF Layout
<1>5. \A r \in EnvQueue : r # envelope_q => env_ENQ(envs, envelope_q, k).head[r] = envs.head[r]
    BY <1>2, <1>4, Queues, HeadENQ
<1>6. /\ Len(b) \in Nat /\ Append(b, k) \in Seq(Env) /\ Len(Append(b, k)) = Len(b) + 1
      /\ Append(b, k)[Len(b) + 1] = k
    BY <1>2, EnvSeq, EnvAppend
<1>7. /\ NUM_ENV <= Len(b) + 1 + 0 + 1 + Spent
      /\ One(NULL) = 0 /\ One(k) = 1
    BY <1>2, Stocked DEF Layout, Enough, One
<1>8. Enough(Append(b, k), NULL, NULL)' /\ Hands(frames', hpc', NULL, NULL, NULL)
    <2>1. Spent' = Spent
        BY <1>1 DEF Spent
    <2>2. NUM_ENV <= Len(Append(b, k)) + 0 + 0 + 1 + Spent'
        BY <1>6, <1>7, <2>1, Stocked
    <2> QED
        BY <1>1, <1>7, <2>2 DEF Layout, Enough
<1>9. Console(c, NULL, x, NULL, NULL)'
    BY <1>1, <1>2, <1>3, <1>5, Queues DEF Console
<1>10. Others'
    BY <1>1, <1>2, <1>3, <1>5, Queues DEF Layout, Others
<1>11. CASE x = NULL
    <2>1. Threads(envs', Append(b, k), c, D, NULL, x, NULL, first')
        BY <1>1, <1>2, <1>4, <1>11, PoolGive
    <2>2. Text(Append(b, k), c, NULL, x, NULL, NULL)'
        BY <1>11 DEF Text
    <2>3. Senders(c, D, x, NULL)'
        BY <1>1 DEF Layout, Senders
    <2>4. Layout(Append(b, k), c, D, NULL, x, NULL, NULL, NULL)'
        BY <1>8, <1>9, <1>10, <2>1, <2>2, <2>3 DEF Layout
    <2> QED
        BY <1>6, <2>4
<1>12. CASE x # NULL
    <2>1. x = k /\ x \in Env
        BY <1>2, <1>12
    <2>2. b # <<>>
        BY <1>6, <1>7, EnvSeq, Stocked
    <2>3. Threads(envs, b, c, D, x, x, NULL, first)
        BY <1>4, <2>1
    <2>4. \E c1 \in Seq(Env), D1 \in SUBSET Env :
              /\ Threads(env_ENQ(envs, envelope_q, x), Append(b, x), c1, D1, NULL, x, NULL, first)
              /\ Remains(c, D, x, c1, D1)
        BY <1>4, <2>1, <2>2, <2>3, PoolGiveText
    <2>5. PICK c1 \in Seq(Env), D1 \in SUBSET Env :
              /\ Threads(env_ENQ(envs, envelope_q, x), Append(b, x), c1, D1, NULL, x, NULL, first)
              /\ Remains(c, D, x, c1, D1)
        BY <2>4
    <2>6. Threads(envs', Append(b, k), c1, D1, NULL, x, NULL, first')
        BY <1>1, <1>2, <2>1, <2>5
    <2>7. Text(Append(b, k), c1, NULL, x, NULL, NULL)'
        <3>1. \E i \in 1 .. Len(Append(b, k)) : x = Append(b, k)[i]
            <4>1. Len(b) + 1 \in 1 .. Len(Append(b, k))
                BY <1>6
            <4> QED
                BY <1>6, <2>1, <4>1
        <3>2. envs'.head[CCI] = envs.head[CCI]
            BY <1>1, <1>2, <1>5, Queues
        <3>3. \/ (\E i \in 1 .. Len(c) : c[i] = x) /\ NULL # x /\ envs.head[CCI] # x
              \/ (\A i \in 1 .. Len(c) : c[i] # x) /\ NULL = x /\ envs.head[CCI] # x
              \/ /\ (\A i \in 1 .. Len(c) : c[i] # x) /\ NULL # x
                 /\ envs.head[CCI] = x /\ content[x] = "ack"
            BY <1>12 DEF Layout, Text
        <3>4. \/ (\E i \in 1 .. Len(c1) : c1[i] = x) /\ NULL # x /\ envs'.head[CCI] # x
              \/ (\A i \in 1 .. Len(c1) : c1[i] # x) /\ NULL = x /\ envs'.head[CCI] # x
              \/ /\ (\A i \in 1 .. Len(c1) : c1[i] # x) /\ NULL # x
                 /\ envs'.head[CCI] = x /\ content[x] = "ack"
            <4>1. (\E i \in 1 .. Len(c1) : c1[i] = x) <=> (\E i \in 1 .. Len(c) : c[i] = x)
                BY <2>5 DEF Remains
            <4> QED
                BY <3>2, <3>3, <4>1
        <3> QED
            BY <1>1, <1>3, <3>1, <3>4 DEF Text
    <2>8. Senders(c1, D1, x, NULL)'
        <3>1. Senders(c, D, x, NULL)
            BY DEF Layout
        <3>2. Senders(c1, D1, x, NULL)
            BY <2>5, <3>1, SendersRemain
        <3> QED
            BY <1>1, <3>2 DEF Senders
    <2>9. Console(c1, NULL, x, NULL, NULL)'
        BY <1>1, <1>2, <1>3, <1>5, Queues DEF Console
    <2>10. Layout(Append(b, k), c1, D1, NULL, x, NULL, NULL, NULL)'
        BY <1>8, <1>10, <2>6, <2>7, <2>8, <2>9 DEF Layout
    <2> QED
        BY <1>6, <2>10
<1> QED
    BY <1>11, <1>12

(* The CCI takes its next envelope; it has returned one, so the pool is    *)
(* not empty.                                                              *)
LEMMA RequestLayout ==
    ASSUME RTXInv, NEW b \in Seq(Env), NEW c \in Seq(Env), NEW D \in SUBSET Env,
           NEW k \in Env \cup {NULL}, NEW x \in Env \cup {NULL}, first # NULL,
           Layout(b, c, D, k, x, NULL, NULL, NULL), Requests(CCI, "renew", "yield"),
           Spent < NUM_ENV - 2
    PROVE  \E b1 \in Seq(Env), k1 \in Env \cup {NULL} : Layout(b1, c, D, k1, x, NULL, NULL, NULL)'
<1>1. /\ pc[CCI] = "renew" /\ RequestEnv(CCI) /\ Obtains(CCI, envelope_q, "yield")
      /\ UNCHANGED <<first, content, hpc, posted, shown>>
    BY DEF Requests
<1>2. /\ UNCHANGED <<frames, sender_id>>
      /\ at'[CCI] = "user" => envs.head[envelope_q] # NULL /\ envs' = env_DEQ(envs, envelope_q)
      /\ at'[CCI] # "user" => UNCHANGED envs
      /\ at'[CCI] = "emptied" <=> at[CCI] = "emptied"
    BY <1>1, Processes, RequestResult
<1>3. CASE at'[CCI] # "user"
    <2>1. UNCHANGED <<envs, pc, env, first, content, sender_id, frames, hpc, posted, shown>>
        BY <1>1, <1>2, <1>3 DEF Obtains
    <2>2. Layout(b, c, D, k, x, NULL, NULL, NULL)'
        BY <1>2, <2>1, SameLayout
    <2> QED
        BY <2>2
<1>4. CASE at'[CCI] = "user"
    <2>1. /\ envs.head[envelope_q] # NULL /\ envs' = env_DEQ(envs, envelope_q)
          /\ env' = [env EXCEPT ![CCI] = envs.head[envelope_q]] /\ pc' = [pc EXCEPT ![CCI] = "yield"]
        BY <1>1, <1>2, <1>4 DEF Obtains, Goto
    <2>2. /\ envs \in Store(Env, EnvQueue) /\ Threads(envs, b, c, D, k, x, NULL, first)
          /\ k = NULL /\ envs.head[0] = NULL /\ envs.head[CCI] \in {NULL, x}
        BY <1>1, Stocked DEF Layout, Console
    <2>3. b # <<>> /\ b[1] \in Env /\ Len(b) \in Nat \ {0} /\ NULL \notin Env
        <3>1. Pool(envs, b, x)
            BY <2>2 DEF Threads
        <3> QED
            BY <2>1, <3>1, EnvSeq, Stocked DEF Pool
    <2>4. NUM_ENV <= Len(b) + 0 + 0 + 1 + Spent /\ One(b[1]) = 1 /\ One(NULL) = 0
        BY <2>2, <2>3 DEF Layout, Enough, One
    <2>5. b[1] # x
        <3>1. CASE x \in Env /\ b[1] = x
            <4>1. Len(b) = 1
                BY <2>2, <2>3, <3>1, PoolTakeText
            <4> QED
                BY <2>4, <4>1, Stocked
        <3> QED
            BY <2>3, <3>1
    <2>6. /\ envs.head[envelope_q] = b[1]
          /\ Threads(env_DEQ(envs, envelope_q), Tail(b), c, D, b[1], x, NULL, first)
        BY <2>2, <2>3, <2>5, PoolTake
    <2>7. /\ Tail(b) \in Seq(Env) /\ Len(Tail(b)) = Len(b) - 1
          /\ \A i \in 1 .. Len(b) - 1 : Tail(b)[i] = b[i + 1]
        BY <2>3, EnvTail
    <2>8. pc'[CCI] = "yield" /\ pc'[A] = pc[A] /\ pc'[B] = pc[B] /\ env'[CCI] = b[1]
        BY <2>1, <2>6, Stocked, Processes
    <2>9. \A r \in EnvQueue : r # envelope_q => envs'.head[r] = envs.head[r]
        BY <2>1, <2>2, Queues, HeadDEQ
    <2>10. Enough(Tail(b), b[1], NULL)'
        <3>1. Spent' = Spent
            BY <1>1 DEF Spent
        <3>2. NUM_ENV <= Len(Tail(b)) + 1 + 0 + 1 + Spent'
            BY <2>3, <2>4, <2>7, <3>1, Stocked
        <3> QED
            BY <2>4, <3>2 DEF Enough
    <2>11. Console(c, b[1], x, NULL, NULL)'
        BY <2>2, <2>3, <2>8, <2>9, Queues DEF Console
    <2>12. Text(Tail(b), c, b[1], x, NULL, NULL)'
        <3>1. x # NULL => \E i \in 1 .. Len(Tail(b)) : x = Tail(b)[i]
            <4>1. SUFFICES ASSUME x # NULL
                           PROVE  \E i \in 1 .. Len(Tail(b)) : x = Tail(b)[i]
                OBVIOUS
            <4>2. PICK i \in 1 .. Len(b) : x = b[i]
                BY <1>1, <4>1 DEF Layout, Text
            <4>3. i # 1 /\ i - 1 \in 1 .. Len(Tail(b)) /\ i - 1 \in 1 .. Len(b) - 1 /\ i - 1 + 1 = i
                BY <2>3, <2>5, <2>7, <4>2
            <4> QED
                BY <2>7, <4>2, <4>3
        <3>2. envs'.head[CCI] = envs.head[CCI]
            BY <2>9, Queues
        <3>3. Text(b, c, k, x, NULL, NULL)
            BY DEF Layout
        <3> QED
            BY <1>1, <2>5, <2>8, <3>1, <3>2, <3>3 DEF Text
    <2>13. Senders(c, D, x, NULL)' /\ Hands(frames', hpc', NULL, NULL, NULL)
        BY <1>1, <1>2 DEF Layout, Senders
    <2>14. Others'
        BY <1>1, <2>8, <2>9, Queues DEF Layout, Others
    <2>15. Layout(Tail(b), c, D, b[1], x, NULL, NULL, NULL)'
        BY <1>1, <2>1, <2>6, <2>10, <2>11, <2>12, <2>13, <2>14 DEF Layout
    <2> QED
        BY <2>3, <2>7, <2>15
<1> QED
    BY <1>3, <1>4

(* Unless process A runs, no program but the CCI moves an envelope.        *)
LEMMA OthersRest ==
    ASSUME RTXInv, Others, AStep \/ BStep \/ NullStep, ~ Flooded', at[B] # "emptied",
           at[A] # "emptied"
    PROVE  /\ UNCHANGED <<envs, pc, env, first, content, sender_id, frames, hpc, posted, shown>>
           /\ at'[CCI] = "emptied" <=> at[CCI] = "emptied"
<1>1. /\ pc[A] = "receive" /\ pc[B] = "receive" /\ envs.head[B] = NULL /\ envs.head[NULLPID] = NULL
      /\ NULL \notin Env
    BY Stocked DEF Others
<1>2. ASSUME AStep
      PROVE  UNCHANGED <<envs, pc, env, first, content, sender_id, frames, hpc, posted, shown>>
    <2>1. Receives(A, "console")
        BY <1>1, <1>2 DEF AStep, Sends, ADequeue, Requests, Yields
    <2>2. ~ StoreHead(A) /\ ~ StoreTail(A)
        <3>1. StoreHead(A) => at'[A] = "emptied"
            BY Processes, <1>1 DEF StoreHead, RTXInv, KernelInv, TypeOK
        <3>2. ~ StoreTail(A)
            BY DEF StoreTail
        <3> QED
            BY <3>1, <3>2 DEF Flooded
    <2>3. (ReceiveMessage(A) \/ ResumeReceive(A)) /\ Obtains(A, A, "console")
        BY <2>1, <2>2 DEF Receives
    <2>4. UNCHANGED <<frames, sender_id>> /\ (at'[A] # "user" => UNCHANGED envs)
        BY <2>3, Processes, ReceiveResult
    <2>5. at'[A] # "user"
        <3>1. SUFFICES ASSUME at'[A] = "user"
                       PROVE  FALSE
            OBVIOUS
        <3>2. pc' = [pc EXCEPT ![A] = "console"]
            BY <2>3, <3>1 DEF Obtains, Goto
        <3>3. pc'[A] # "receive"
            BY <3>2, Stocked, Processes
        <3> QED
            BY <3>3 DEF Flooded
    <2> QED
        BY <2>1, <2>3, <2>4, <2>5 DEF Receives, Obtains
<1>3. ASSUME BStep
      PROVE  UNCHANGED <<envs, pc, env, first, content, sender_id, frames, hpc, posted, shown>>
    <2>1. Receives(B, "send")
        BY <1>1, <1>3 DEF BStep, Sends, Yields
    <2>2. ~ StoreHead(B) /\ ~ StoreTail(B)
        <3>1. StoreHead(B) => envs.head[B] \in Env
            BY Processes, StoreHeadResult
        <3> QED
            BY <1>1, <3>1 DEF StoreTail
    <2>3. (ReceiveMessage(B) \/ ResumeReceive(B)) /\ Obtains(B, B, "send")
        BY <2>1, <2>2 DEF Receives
    <2>4. UNCHANGED <<frames, sender_id>> /\ at'[B] # "user" /\ UNCHANGED envs
        BY <1>1, <2>3, Processes, ReceiveResult
    <2> QED
        BY <2>1, <2>3, <2>4 DEF Receives, Obtains
<1>4. ASSUME NullStep
      PROVE  UNCHANGED <<envs, pc, env, first, content, sender_id, frames, hpc, posted, shown>>
    BY <1>1, <1>4 DEF NullStep, NullDrain, ReleaseProcessor, rtx
<1>5. UNCHANGED <<envs, pc, env, first, content, sender_id, frames, hpc, posted, shown>>
    BY <1>2, <1>3, <1>4
<1>6. at'[CCI] = "emptied" <=> at[CCI] = "emptied"
    <2>1. curr_process # CCI
        <3>1. A # CCI /\ B # CCI /\ CCI \notin NullProcs
            BY Processes DEF Client
        <3>2. CASE NullStep
            BY <3>1, <3>2 DEF NullStep, NullDrain, ReleaseProcessor, Runs
        <3>3. CASE AStep
            BY <3>1, <3>3 DEF AStep, Requests, RequestEnv, Sends, SendMessage, Receives, ReceiveMessage,
                ResumeReceive, StoreHead, StoreTail, ADequeue, Yields, ReleaseProcessor, Runs
        <3>4. CASE BStep
            BY <3>1, <3>4 DEF BStep, Sends, SendMessage, Receives, ReceiveMessage,
                ResumeReceive, StoreHead, StoreTail, Yields, ReleaseProcessor, Runs
        <3> QED
            BY <3>2, <3>3, <3>4
    <2>2. ~ StoreHead(CCI) /\ ~ StoreTail(CCI)
        BY <2>1 DEF StoreHead, StoreTail, Runs
    <2> QED
        BY <2>2, Between, Processes DEF RTXNext, Program
<1> QED
    BY <1>5, <1>6

(* Every step of a program keeps the shape.                                *)
LEMMA ProgramShape ==
    ASSUME RTXInv, Begun, Shape, Spent < NUM_ENV - 2, Program, ~ Excused'
    PROVE  Shape'
<1>1. pc[CCI] \notin {"env", "first"} /\ first # NULL /\ frames = <<>>
    <2>1. frames = <<>>
        BY DEF Program, CCIStep, AStep, BStep, NullStep, Requests, RequestEnv, Sends, SendMessage, Receives,
               ReceiveMessage, ResumeReceive, StoreHead, StoreTail, Yields, ReleaseProcessor, CCIFirst, CCIReceive, CCIClock,
               CCIChange, ChangePriority, CCIRenew, CCIRelease, ADequeue, NullDrain, Runs
    <2> QED
        BY <2>1 DEF Begun
<1>2. PICK b \in Seq(Env), c \in Seq(Env), D \in SUBSET Env,
           k \in Env \cup {NULL}, x \in Env \cup {NULL}, z \in Env \cup {NULL},
           kh \in Env \cup {NULL}, ch \in Env \cup {NULL} : Layout(b, c, D, k, x, z, kh, ch)
    BY DEF Shape
<1>3. z = NULL /\ kh = NULL /\ ch = NULL
    BY <1>1, <1>2, HandsFree DEF Layout
<1>0. at'[B] # "emptied" /\ at[B] # "emptied" /\ ~ Flooded' /\ ~ Flooded
    <2>1. RTXNext
        BY DEF RTXNext
    <2>2. at'[B] # "emptied"
        BY <1>2, <2>1, OutOfB DEF Layout, Shape
    <2> QED
        BY <2>1, <2>2, FloodedStays DEF Shape, Excused
<1>4. Layout(b, c, D, k, x, NULL, NULL, NULL)
    BY <1>2, <1>3
<1> DEFINE L(b1, c1, D1, k1, x1) == Layout(b1, c1, D1, k1, x1, NULL, NULL, NULL)'
<1>5. ASSUME NEW b1 \in Seq(Env), NEW c1 \in Seq(Env), NEW D1 \in SUBSET Env,
             NEW k1 \in Env \cup {NULL}, NEW x1 \in Env \cup {NULL}, L(b1, c1, D1, k1, x1)
      PROVE  Shape'
    BY <1>0, <1>5, ShapeFrom
<1> HIDE DEF L
<1>6. CASE Sends(CCI, "ask", 0, "receive")
    <2>1. L(b, c, D, k, x)
        BY <1>4, <1>6, AskLayout DEF L
    <2> QED
        BY <1>5, <2>1
<1>7. CASE CCIReceive
    <2>1. \E x1 \in Env \cup {NULL} : L(b, c, D, k, x1)
        BY <1>1, <1>4, <1>7, CCIReceiveLayout DEF L
    <2> QED
        BY <1>5, <2>1
<1>8. CASE CCIClock \/ CCIChange
    <2>1. /\ pc[CCI] = "execute" /\ pc' = [pc EXCEPT ![CCI] = "release"]
          /\ UNCHANGED <<envs, env, first, content, sender_id, frames, hpc, posted, shown>>
        BY <1>8 DEF CCIClock, CCIChange, ChangePriority, Goto, vars
    <2>2. L(b, c, D, k, x)
        BY <1>4, <2>1, PcMoves DEF L
    <2> QED
        BY <1>5, <2>2
<1>9. CASE CCIRenew("s", "start")
    <2>1. \E b1 \in Seq(Env), k1 \in Env \cup {NULL} : L(b1, c, D, k1, x)
        BY <1>0, <1>1, <1>4, <1>9, CCIRenewLayout DEF L
    <2> QED
        BY <1>5, <2>1
<1>10. CASE CCIRenew("print", "print")
    <2>1. \E b1 \in Seq(Env), k1 \in Env \cup {NULL} : L(b1, c, D, k1, x)
        BY <1>0, <1>1, <1>4, <1>10, CCIRenewLayout DEF L
    <2> QED
        BY <1>5, <2>1
<1>11. CASE Sends(CCI, "start", A, "release")
    <2>1. L(b, c, D, k, x)
        BY <1>4, <1>11, StartLayout DEF L
    <2> QED
        BY <1>5, <2>1
<1>12. CASE Sends(CCI, "print", 1, "release")
    <2>1. k \in Env /\ L(b, Append(c, k), D, k, k)
        BY <1>1, <1>4, <1>12, PrintLayout DEF L
    <2>2. Append(c, k) \in Seq(Env)
        BY <2>1, EnvAppend
    <2> QED
        BY <1>5, <2>1, <2>2
<1>13. CASE CCIRelease
    <2>1. \E b1, c1 \in Seq(Env), D1 \in SUBSET Env : L(b1, c1, D1, NULL, x)
        BY <1>1, <1>4, <1>13, CCIReleaseLayout DEF L
    <2> QED
        BY <1>5, <2>1
<1>14. CASE Requests(CCI, "renew", "yield")
    <2>1. \E b1 \in Seq(Env), k1 \in Env \cup {NULL} : L(b1, c, D, k1, x)
        BY <1>1, <1>4, <1>14, RequestLayout DEF L
    <2> QED
        BY <1>5, <2>1
<1>15. CASE Yields(CCI, "ask")
    <2>1. /\ pc[CCI] = "yield" /\ pc' = [pc EXCEPT ![CCI] = "ask"]
          /\ UNCHANGED <<envs, env, first, content, sender_id, frames, hpc, posted, shown>>
        BY <1>15 DEF Yields, ReleaseProcessor, Goto
    <2>2. L(b, c, D, k, x)
        BY <1>4, <2>1, PcMoves DEF L
    <2> QED
        BY <1>5, <2>2
<1>16. CASE AStep \/ BStep \/ NullStep
    <2>1. Others
        BY <1>4 DEF Layout
    <2>2. /\ UNCHANGED <<envs, pc, env, first, content, sender_id, frames, hpc, posted, shown>>
          /\ at'[CCI] = "emptied" <=> at[CCI] = "emptied"
        <3>1. at[A] # "emptied"
            BY <1>0 DEF Flooded
        <3> QED
            BY <1>0, <1>16, <2>1, <3>1, OthersRest
    <2>3. L(b, c, D, k, x)
        BY <1>4, <2>2, SameLayout DEF L
    <2> QED
        BY <1>5, <2>3
<1>17. ~ Requests(CCI, "env", "first") /\ ~ CCIFirst
    BY <1>1 DEF Requests, CCIFirst
<1> QED
    BY <1>6, <1>7, <1>8, <1>9, <1>10, <1>11, <1>12, <1>13, <1>14, <1>15, <1>16, <1>17 DEF Program, CCIStep

-----------------------------------------------------------------------------
(* The steps of the handlers.                                              *)

(* A queue that spells c has all of c on it.                               *)
LEMMA Spelled ==
    ASSUME NEW s \in Store(Env, EnvQueue), NEW q \in EnvQueue, NEW c \in Seq(Env), c # <<>>,
           s.head[q] = c[1], Chained(s.p, c), NEW i \in 1 .. Len(c)
    PROVE  c[i] \in On(s, q)
<1>1. /\ Len(c) \in Nat /\ (\A j \in 1 .. Len(c) : c[j] \in Env /\ c[j] # NULL) /\ 1 \in 1 .. Len(c)
      /\ DOMAIN s.p = Env
    BY EnvSeq DEF Store
<1>2. ASSUME NEW S \in SUBSET Env, c[1] \in S, \A m \in S : s.p[m] \in S \cup {NULL}
      PROVE  c[i] \in S
    <2> DEFINE bad == { j \in 1 .. Len(c) : c[j] \notin S }
    <2>1. SUFFICES ASSUME bad # {}
                   PROVE  FALSE
        OBVIOUS
    <2>2. PICK m \in bad : \A j \in bad : m <= j
        <3>1. bad \subseteq Nat
            OBVIOUS
        <3> HIDE DEF bad
        <3> QED
            BY <2>1, <3>1, LeastNat
    <2>3. m # 1 /\ m \in 1 .. Len(c)
        BY <1>2, <2>2
    <2>4. m - 1 \in 1 .. Len(c) /\ m - 1 \in 1 .. Len(c) - 1 /\ m - 1 + 1 = m /\ ~ m <= m - 1
        BY <1>1, <2>3
    <2>5. c[m - 1] \in S
        BY <2>2, <2>4
    <2>6. s.p[c[m - 1]] = c[m]
        BY <2>4 DEF Chained
    <2> QED
        BY <1>1, <1>2, <2>2, <2>3, <2>5, <2>6
<1>3. c[i] \in Env
    BY <1>1
<1>4. c[i] \in From(s.p, c[1])
    BY <1>1, <1>2, <1>3 DEF From
<1> QED
    BY <1>1, <1>4 DEF On

(* The handler on top of the stack.                                        *)
LEMMA TopOf ==
    ASSUME RTXInv, frames # <<>>
    PROVE  /\ Len(frames) \in 1 .. Len(frames) /\ Len(hpc) = Len(frames) /\ Top = frames[Len(frames)]
           /\ \A i \in 1 .. Len(frames) : frames[i].pid = Top.pid => i = Len(frames)
<1>1. Len(frames) \in 1 .. Len(frames)
    BY TopHandler
<1> QED
    BY <1>1, Stocked DEF Top

(* kbd_iproc receives the request of the CCI, if it has sent one.          *)
LEMMA KbdSignalLayout ==
    ASSUME RTXInv, NEW b \in Seq(Env), NEW c \in Seq(Env), NEW D \in SUBSET Env,
           NEW k \in Env \cup {NULL}, NEW x \in Env \cup {NULL}, NEW z \in Env \cup {NULL},
           NEW kh \in Env \cup {NULL}, NEW ch \in Env \cup {NULL}, first # NULL,
           Layout(b, c, D, k, x, z, kh, ch), KbdSignal, ~ ahead'
    PROVE  \E kh1 \in Env \cup {NULL} : Layout(b, c, D, k, x, z, kh1, ch)'
<1>1. /\ Idle(0) /\ LastTextAcknowledged /\ UNCHANGED at /\ hpc' = Append(hpc, "transfer")
      /\ frames' = Append(frames, [ pid |-> 0, interrupted |-> curr_process, env |-> envs.head[0] ])
      /\ envs' = env_DEQ(envs, 0)
      /\ UNCHANGED <<pc, env, first, content, sender_id, posted, shown>>
    BY DEF KbdSignal, Interrupt
<1>2. envs \in Store(Env, EnvQueue) /\ Threads(envs, b, c, D, k, x, z, first)
    BY Stocked DEF Layout
<1>3. x # NULL => Off(c, x, ch) /\ envs.head[CCI] # x /\ x = z
    <2>1. SUFFICES ASSUME x # NULL
                   PROVE  Off(c, x, ch) /\ envs.head[CCI] # x /\ x = z
        OBVIOUS
    <2>2. ASSUME \E i \in 1 .. Len(c) : c[i] = x
          PROVE  FALSE
        <3>1. PICK i \in 1 .. Len(c) : c[i] = x
            BY <2>2
        <3>2. c # <<>> /\ envs.head[1] = c[1] /\ Chained(envs.p, c)
            <4>1. Len(c) # 0
                BY <3>1, EnvSeq
            <4>2. c # <<>>
                BY <4>1, EnvSeq
            <4> QED
                BY <1>2, <4>2 DEF Threads, Screen
        <3>3. x \in On(envs, 1)
            BY <1>2, <3>1, <3>2, Queues, Spelled
        <3>4. sender_id[x] = CCI
            BY <3>1 DEF Layout, Senders
        <3> QED
            BY <1>1, <3>3, <3>4 DEF LastTextAcknowledged
    <2>3. ASSUME ch = x
          PROVE  FALSE
        <3>1. PICK i \in 1 .. Len(frames) : frames[i].pid = 1
            BY <2>1, <2>3 DEF Layout, Hands
        <3>2. frames[i].env = ch
            BY <3>1 DEF Layout, Hands
        <3>3. sender_id[ch] = CCI
            BY <2>1, <2>3 DEF Layout, Senders
        <3>4. i \in DOMAIN frames
            BY <3>1, Stocked
        <3> QED
            BY <1>1, <2>1, <2>3, <3>1, <3>2, <3>3, <3>4 DEF LastTextAcknowledged
    <2>4. ASSUME envs.head[CCI] = x, content[x] = "ack"
          PROVE  FALSE
        <3>1. x \in On(envs, CCI)
            <4>1. x \in From(envs.p, x)
                BY <1>2, <2>1 DEF From, Store
            <4> QED
                BY <2>1, <2>4, <4>1 DEF On
        <3> QED
            BY <1>1, <2>4, <3>1 DEF LastTextAcknowledged
    <2> QED
        BY <2>1, <2>2, <2>3, <2>4 DEF Layout, Text, Off
<1> DEFINE f == [ pid |-> 0, interrupted |-> curr_process, env |-> envs.head[0] ]
<1>4. /\ f \in Frame /\ f.pid = 0 /\ f.env = envs.head[0] /\ frames' = Append(frames, f)
      /\ \A i \in 1 .. Len(frames) : frames[i].pid # f.pid
    <2>1. curr_process \in PID /\ envs.head[0] \in Env \cup {NULL} /\ 0 \in Iproc
        BY Stocked, Queues, Processes DEF RTXInv, KernelInv, TypeOK
    <2>2. \A i \in 1 .. Len(frames) : frames[i].pid # 0
        <3>1. DOMAIN frames = 1 .. Len(frames)
            BY Stocked
        <3> QED
            BY <1>1, <3>1 DEF Idle
    <2> QED
        BY <1>1, <2>1, <2>2 DEF Frame
<1> HIDE DEF f
<1>5. Hands(frames', hpc', envs.head[0], ch, z)
    <2>1. Hands(frames, hpc, kh, ch, z) /\ "transfer" \in Call
        BY DEF Layout, Call
    <2>2. Hands(Append(frames, f), Append(hpc, "transfer"), envs.head[0], ch, z)
        BY <1>4, <2>1, Stocked, HandsPush
    <2> QED
        BY <1>1, <1>4, <2>2
<1>6. kh = NULL
    BY <1>4 DEF Layout, Hands
<1>7. Enough(b, k, z)' /\ Senders(c, D, x, ch)'
    BY <1>1 DEF Layout, Enough, Spent, Senders
<1>14. envs'.head[CCI] = envs.head[CCI]
    <2>1. envs.head[0] = NULL => envs' = envs
        BY <1>1 DEF env_DEQ
    <2>2. envs.head[0] # NULL => envs'.head[CCI] = envs.head[CCI]
        BY <1>1, <1>2, Queues, HeadDEQ
    <2> QED
        BY <2>1, <2>2
<1>8. Text(b, c, k, x, z, ch)'
    BY <1>1, <1>14 DEF Layout, Text
<1>9. CASE envs.head[0] = NULL
    <2>1. envs' = envs
        BY <1>1, <1>9 DEF env_DEQ
    <2>2. Console(c, k, x, NULL, ch)' /\ Hands(frames', hpc', NULL, ch, z)
        BY <1>1, <1>5, <1>6, <1>9, <2>1 DEF Layout, Console
    <2>3. Others' /\ Threads(envs', b, c, D, k, x, z, first')
        BY <1>1, <1>2, <2>1 DEF Layout, Others
    <2>4. Layout(b, c, D, k, x, z, NULL, ch)'
        BY <1>7, <1>8, <2>2, <2>3 DEF Layout
    <2> QED
        BY <2>4
<1>10. CASE envs.head[0] # NULL
    <2>1. /\ pc[CCI] = "receive" /\ envs.head[0] = k /\ sender_id[k] = CCI /\ envs.head[CCI] = NULL
          /\ k # NULL /\ at[CCI] # "emptied"
        <3>1. /\ pc[CCI] = "receive" /\ envs.head[0] = k /\ sender_id[k] = CCI
              /\ envs.head[CCI] \in {NULL, x} /\ k # NULL
              /\ at[CCI] = "emptied" => content[env[CCI]] = "ack"
            BY <1>6, <1>10 DEF Layout, Console
        <3> QED
            BY <1>1, <1>3, <3>1 DEF LastTextAcknowledged
    <2>2. envs.p[k] = NULL /\ k \in Env
        <3>1. k # x
            BY <1>3, <2>1 DEF Layout, Text
        <3> QED
            BY <1>2, <2>1, <3>1, ConsoleApart
    <2>3. 0 \in EnvQueue \ {1, 2, envelope_q}
        BY Queues
    <2>4. envs'.head[0] = NULL /\ \A r \in EnvQueue : r # 0 => envs'.head[r] = envs.head[r]
        BY <1>1, <1>2, <2>1, <2>2, <2>3, HeadDEQ
    <2>5. Threads(envs', b, c, D, k, x, z, first')
        BY <1>1, <1>2, <2>1, <2>2, <2>3, ElsewhereDEQ
    <2>6. Console(c, k, x, k, ch)'
        BY <1>1, <1>3, <2>1, <2>4, Queues DEF Console
    <2>7. Others'
        BY <1>1, <2>4, Queues DEF Layout, Others
    <2>8. Layout(b, c, D, k, x, z, k, ch)'
        BY <1>5, <1>7, <1>8, <2>1, <2>5, <2>6, <2>7 DEF Layout
    <2> QED
        BY <2>8
<1> QED
    BY <1>9, <1>10

(* It sends the line to the CCI.                                           *)
LEMMA KbdTransferLayout ==
    ASSUME RTXInv, Nested, NEW b \in Seq(Env), NEW c \in Seq(Env), NEW D \in SUBSET Env,
           NEW k \in Env \cup {NULL}, NEW x \in Env \cup {NULL}, NEW z \in Env \cup {NULL},
           NEW kh \in Env \cup {NULL}, NEW ch \in Env \cup {NULL},
           Layout(b, c, D, k, x, z, kh, ch), KbdTransfer
    PROVE  Layout(b, c, D, k, x, z, NULL, ch)'
<1>1. /\ frames # <<>> /\ Top.pid = 0 /\ hpc[Len(hpc)] = "transfer" /\ Top.env # NULL
      /\ content' = [content EXCEPT ![Top.env] = line]
      /\ envs' = env_ENQ(envs, sender_id[Top.env], Top.env)
      /\ sender_id' = [sender_id EXCEPT ![Top.env] = curr_process]
      /\ frames' = [frames EXCEPT ![Len(frames)].env = NULL]
      /\ hpc' = [hpc EXCEPT ![Len(hpc)] = "return"]
      /\ UNCHANGED <<pc, env, first, posted, shown, at>>
    BY DEF KbdTransfer, Doing, Reply, k_send_message, Calls
<1>2. /\ Top.env = kh /\ kh # NULL
    BY <1>1, TopOf DEF Layout, Hands
<1>3. /\ pc[CCI] = "receive" /\ envs.head[0] = NULL /\ kh = k /\ envs.head[CCI] = NULL
      /\ sender_id[k] = CCI /\ k \in Env /\ at[CCI] # "emptied"
      /\ x # NULL => Off(c, x, ch) /\ x = z /\ x # k
    <2>1. /\ pc[CCI] = "receive" /\ envs.head[0] = NULL /\ kh = k /\ envs.head[CCI] = NULL
          /\ sender_id[k] = CCI /\ k \in Env /\ at[CCI] # "emptied"
          /\ x # NULL => Off(c, x, ch)
        BY <1>2 DEF Layout, Console
    <2>2. x # NULL => x = z /\ x # k
        BY <2>1 DEF Layout, Text, Off
    <2> QED
        BY <2>1, <2>2
<1>4. /\ envs \in Store(Env, EnvQueue) /\ Threads(envs, b, c, D, k, x, z, first)
      /\ CCI \in EnvQueue \ {1, 2, envelope_q}
    BY Stocked, Queues DEF Layout
<1>5. envs' = env_ENQ(envs, CCI, k)
    BY <1>1, <1>2, <1>3
<1>6. Threads(envs', b, c, D, k, x, z, first')
    BY <1>1, <1>3, <1>4, <1>5, ElsewhereENQ
<1>7. envs'.head[CCI] = k /\ \A r \in EnvQueue : r # CCI => envs'.head[r] = envs.head[r]
    BY <1>3, <1>4, <1>5, HeadENQ
<1>8. line \in Commands /\ content'[k] \in Commands
    <2>1. line # NULL /\ line \in Commands \cup {NULL}
        BY <1>1, TopOf DEF RTXInv, Programs, Stack
    <2> QED
        BY <1>1, <1>2, <1>3, <2>1, Stocked
<1>9. \A e \in Env : e # k => sender_id'[e] = sender_id[e]
    BY <1>1, <1>2, <1>3, Stocked
<1>10. Enough(b, k, z)' /\ Text(b, c, k, x, z, ch)'
    BY <1>1, <1>3, <1>7 DEF Layout, Enough, Spent, Text, Off
<1>11. Console(c, k, x, NULL, ch)'
    BY <1>1, <1>3, <1>7, <1>8, Queues DEF Console
<1>12. Senders(c, D, x, ch)'
    <2>1. Senders(c, D, x, ch)
        BY DEF Layout
    <2>2. k # x
        BY <1>3, Stocked
    <2>3. (\A i \in 1 .. Len(c) : c[i] \in Env /\ c[i] # k) /\ k \notin D
        BY <1>3, <1>4, <2>2, ConsoleApart, EnvSeq
    <2>4. ch # k /\ (ch # NULL => ch \in Env)
        BY <1>3, <2>1, <2>2, <2>3, Stocked DEF Senders
    <2> QED
        BY <1>9, <2>1, <2>3, <2>4 DEF Senders
<1>13. Hands(frames', hpc', NULL, ch, z)
    <2>1. Hands(frames, hpc, kh, ch, z) /\ "return" \in Call /\ NULL \in Env \cup {NULL}
        BY DEF Layout, Call
    <2>2. frames[Len(frames)].pid = 0
        BY <1>1, TopOf
    <2>3. Hands([frames EXCEPT ![Len(frames)].env = NULL], [hpc EXCEPT ![Len(hpc)] = "return"], NULL, ch, z)
        <3>1. /\ frames \in Seq(Frame) /\ hpc \in Seq(Call) /\ Len(hpc) = Len(frames) /\ frames # <<>>
              /\ \A i, j \in 1 .. Len(frames) : frames[i].pid = frames[j].pid => i = j
              /\ \A i \in 1 .. Len(frames) : hpc[i] = "display" => frames[i].pid = 2
            BY <1>1, Stocked
        <3> QED
            BY ONLY <2>1, <2>2, <3>1, HandsReplied
    <2> QED
        BY <1>1, <2>3
<1>14. Others'
    BY <1>1, <1>7, Queues DEF Layout, Others
<1> QED
    BY <1>6, <1>10, <1>11, <1>12, <1>13, <1>14 DEF Layout

(* A handler returns.                                                      *)
LEMMA PopLayout ==
    ASSUME RTXInv, NEW b \in Seq(Env), NEW c \in Seq(Env), NEW D \in SUBSET Env,
           NEW k \in Env \cup {NULL}, NEW x \in Env \cup {NULL}, NEW z \in Env \cup {NULL},
           NEW kh \in Env \cup {NULL}, NEW ch \in Env \cup {NULL},
           Layout(b, c, D, k, x, z, kh, ch), KbdDrop \/ HandlerReturn
    PROVE  Layout(b, c, D, k, x, z, kh, ch)'
<1>1. /\ frames # <<>> /\ frames' = SubSeq(frames, 1, Len(frames) - 1)
      /\ hpc' = SubSeq(hpc, 1, Len(hpc) - 1)
      /\ UNCHANGED <<envs, pc, env, first, content, sender_id, posted, shown, at>>
      /\ \/ Top.pid = 0 /\ hpc[Len(hpc)] = "transfer" /\ Top.env = NULL
         \/ hpc[Len(hpc)] = "return"
    BY DEF KbdDrop, HandlerReturn, Return, Doing
<1>2. hpc[Len(frames)] # "display" /\ (frames[Len(frames)].pid \in {0, 1} => frames[Len(frames)].env = NULL)
    BY <1>1, TopOf DEF Layout, Hands
<1>3. Hands(frames', hpc', kh, ch, z)
    <2>1. Hands(frames, hpc, kh, ch, z)
        BY DEF Layout
    <2>2. Hands(SubSeq(frames, 1, Len(frames) - 1), SubSeq(hpc, 1, Len(hpc) - 1), kh, ch, z)
        BY <1>1, <1>2, <2>1, Stocked, HandsPop
    <2> QED
        BY <1>1, <2>2
<1>4. Threads(envs', b, c, D, k, x, z, first')
    BY <1>1 DEF Layout
<1>5. Enough(b, k, z)' /\ Console(c, k, x, kh, ch)' /\ Text(b, c, k, x, z, ch)' /\ Senders(c, D, x, ch)' /\ Others'
    BY <1>1 DEF Layout, Enough, Spent, Console, Text, Senders, Others
<1> QED
    BY <1>3, <1>4, <1>5 DEF Layout

(* crt_iproc finds the flag up and returns with the envelope: a text is    *)
(* nowhere but in the pool then, or in the hands of the timer.             *)
LEMMA CrtDropLayout ==
    ASSUME RTXInv, NEW b \in Seq(Env), NEW c \in Seq(Env), NEW D \in SUBSET Env,
           NEW k \in Env \cup {NULL}, NEW x \in Env \cup {NULL}, NEW z \in Env \cup {NULL},
           NEW kh \in Env \cup {NULL}, NEW ch \in Env \cup {NULL}, first # NULL,
           Layout(b, c, D, k, x, z, kh, ch), CrtDrop
    PROVE  \E x1 \in Env \cup {NULL} : Layout(b, c, D, k, x1, z, kh, NULL)'
<1>1. /\ frames # <<>> /\ frames' = SubSeq(frames, 1, Len(frames) - 1)
      /\ hpc' = SubSeq(hpc, 1, Len(hpc) - 1)
      /\ UNCHANGED <<envs, pc, env, first, content, sender_id, posted, shown, at>>
      /\ Top.pid = 1 /\ hpc[Len(hpc)] = "transfer" /\ Top.env # NULL
    BY DEF CrtDrop, Return, Doing
<1>2. Top.env = ch /\ ch \in Env
    BY <1>1, TopOf DEF Layout, Hands
<1>3. Hands(frames', hpc', kh, NULL, z)
    <2>1. Hands(frames, hpc, kh, ch, z)
        BY DEF Layout
    <2>2. /\ hpc[Len(frames)] # "display" /\ frames[Len(frames)].pid = 1
          /\ \A i \in 1 .. Len(frames) : frames[i].pid = 1 => i = Len(frames)
        BY <1>1, TopOf
    <2>3. Hands(SubSeq(frames, 1, Len(frames) - 1), SubSeq(hpc, 1, Len(hpc) - 1), kh, NULL, z)
        BY <1>1, <2>1, <2>2, Stocked, HandsPop
    <2> QED
        BY <1>1, <2>3
<1>4. Enough(b, k, z)' /\ Others'
    BY <1>1 DEF Layout, Enough, Spent, Others
<1>5. Threads(envs, b, c, D, k, x, z, first) /\ NULL \notin Env
    BY Stocked DEF Layout
<1>6. CASE ch = x /\ x # z
    <2>1. /\ \A i \in 1 .. Len(c) : c[i] # x
          /\ envs.head[CCI] # x /\ x \in Env /\ x # NULL
        BY <1>2, <1>5, <1>6 DEF Layout, Text
    <2>2. Threads(envs', b, c, D, k, NULL, z, first')
        BY <1>1, <1>5, <1>6, <2>1, TextBack
    <2>3. Console(c, k, NULL, kh, NULL)'
        BY <1>1, <1>6, <2>1 DEF Layout, Console, Off
    <2>4. Text(b, c, k, NULL, z, NULL)'
        BY DEF Text
    <2>5. Senders(c, D, NULL, NULL)'
        <3>1. \A i \in 1 .. Len(c) : c[i] # NULL /\ sender_id[c[i]] = 2
            BY <2>1, EnvSeq DEF Layout, Senders
        <3> QED
            BY <1>1, <3>1 DEF Senders
    <2>6. Layout(b, c, D, k, NULL, z, kh, NULL)'
        BY <1>3, <1>4, <2>2, <2>3, <2>4, <2>5 DEF Layout
    <2> QED
        BY <2>6
<1>7. CASE ch # x \/ x = z
    <2>1. Threads(envs', b, c, D, k, x, z, first')
        BY <1>1, <1>5
    <2>2. Console(c, k, x, kh, NULL)'
        BY <1>1 DEF Layout, Console, Off
    <2>3. Text(b, c, k, x, z, NULL)'
        BY <1>1, <1>7 DEF Layout, Text
    <2>4. Senders(c, D, x, NULL)'
        BY <1>1 DEF Layout, Senders
    <2>5. Layout(b, c, D, k, x, z, kh, NULL)'
        BY <1>3, <1>4, <2>1, <2>2, <2>3, <2>4 DEF Layout
    <2> QED
        BY <2>5
<1> QED
    BY <1>6, <1>7

(* crt_iproc receives the first envelope of its queue, a text or a second. *)
LEMMA CrtSignalLayout ==
    ASSUME RTXInv, NEW b \in Seq(Env), NEW c \in Seq(Env), NEW D \in SUBSET Env,
           NEW k \in Env \cup {NULL}, NEW x \in Env \cup {NULL}, NEW z \in Env \cup {NULL},
           NEW kh \in Env \cup {NULL}, NEW ch \in Env \cup {NULL}, first # NULL,
           Layout(b, c, D, k, x, z, kh, ch), CrtSignal
    PROVE  \E c1 \in Seq(Env), D1 \in SUBSET Env, ch1 \in Env \cup {NULL} :
              Layout(b, c1, D1, k, x, z, kh, ch1)'
<1>1. /\ Idle(1) /\ envs.head[1] # NULL /\ hpc' = Append(hpc, "transfer")
      /\ frames' = Append(frames, [ pid |-> 1, interrupted |-> curr_process, env |-> envs.head[1] ])
      /\ envs' = env_DEQ(envs, 1)
      /\ UNCHANGED <<pc, env, first, content, sender_id, posted, shown, at>>
    BY DEF CrtSignal, Interrupt
<1>2. envs \in Store(Env, EnvQueue) /\ Threads(envs, b, c, D, k, x, z, first)
    BY Stocked DEF Layout
<1>3. c # <<>>
    BY <1>1, <1>2 DEF Threads, Screen
<1> DEFINE e  == c[1]
           D1 == IF e = x THEN D ELSE D \cup {e}
<1>4. /\ Len(c) \in Nat \ {0} /\ e \in Env /\ e # NULL /\ 1 \in 1 .. Len(c)
      /\ Tail(c) \in Seq(Env) /\ Len(Tail(c)) = Len(c) - 1
      /\ \A i \in 1 .. Len(c) - 1 : Tail(c)[i] = c[i + 1]
    BY <1>3, EnvSeq, EnvTail
<1>5. D1 \in SUBSET Env
    BY <1>4
<1>6. envs.head[1] = e /\ Threads(envs', b, Tail(c), D1, k, x, z, first')
    <2>1. D1 = IF c[1] = x THEN D ELSE D \cup {c[1]}
        OBVIOUS
    <2> HIDE DEF D1
    <2>2. envs.head[1] = c[1]
        BY <1>2, <1>3 DEF Threads, Screen
    <2>3. Threads(env_DEQ(envs, 1), b, Tail(c), D1, k, x, z, first)
        BY <1>2, <1>3, <1>5, <2>1, ScreenTake
    <2> QED
        BY <1>1, <2>2, <2>3
<1>7. \A r \in EnvQueue : r # 1 => envs'.head[r] = envs.head[r]
    BY <1>1, <1>2, Queues, HeadDEQ
<1> DEFINE f == [ pid |-> 1, interrupted |-> curr_process, env |-> e ]
<1>8. /\ f \in Frame /\ f.pid = 1 /\ f.env = e /\ frames' = Append(frames, f)
      /\ \A i \in 1 .. Len(frames) : frames[i].pid # f.pid
    <2>1. curr_process \in PID /\ 1 \in Iproc
        BY Processes DEF RTXInv, KernelInv, TypeOK
    <2>2. \A i \in 1 .. Len(frames) : frames[i].pid # 1
        <3>1. DOMAIN frames = 1 .. Len(frames)
            BY Stocked
        <3> QED
            BY <1>1, <3>1 DEF Idle
    <2> QED
        BY <1>1, <1>4, <1>6, <2>1, <2>2 DEF Frame
<1> HIDE DEF f
<1>9. Hands(frames', hpc', kh, e, z)
    <2>1. Hands(frames, hpc, kh, ch, z) /\ "transfer" \in Call
        BY DEF Layout, Call
    <2>2. Hands(Append(frames, f), Append(hpc, "transfer"), kh, e, z)
        BY <1>8, <2>1, Stocked, HandsPush
    <2> QED
        BY <1>1, <1>8, <2>2
<1>10. ch = NULL
    BY <1>8 DEF Layout, Hands
<1>11. /\ \A i \in 1 .. Len(Tail(c)) : i \in 1 .. Len(c) - 1 /\ i + 1 \in 1 .. Len(c) /\ i + 1 # 1
       /\ \A i \in 1 .. Len(c) : i # 1 => i - 1 \in 1 .. Len(Tail(c)) /\ i - 1 + 1 = i
    BY <1>4
<1> HIDE DEF e, D1
<1>12. Enough(b, k, z)'
    BY <1>1 DEF Layout, Enough, Spent
<1>13. Console(Tail(c), k, x, kh, e)'
    <2>1. Off(c, x, ch) => Off(Tail(c), x, e)
        BY <1>4, <1>11 DEF Off, e
    <2>2. envs'.head[0] = envs.head[0] /\ envs'.head[CCI] = envs.head[CCI]
        BY <1>7, Queues
    <2> QED
        BY <1>1, <2>1, <2>2 DEF Layout, Console
<1>14. Text(b, Tail(c), k, x, z, e)'
    <2> SUFFICES ASSUME x # NULL
                 PROVE  Text(b, Tail(c), k, x, z, e)'
        BY DEF Text
    <2>1. envs'.head[CCI] = envs.head[CCI]
        BY <1>7, Queues
    <2>2. /\ \/ pc[CCI] = "release" /\ x = k
             \/ /\ pc[CCI] \in {"renew", "yield", "ask", "receive"} /\ x # k
                /\ x = z \/ \E i \in 1 .. Len(b) : x = b[i]
          /\ \/ (\E i \in 1 .. Len(c) : c[i] = x) /\ envs.head[CCI] # x
             \/ /\ (\A i \in 1 .. Len(c) : c[i] # x)
                /\ \/ envs.head[CCI] = x /\ content[x] = "ack"
                   \/ envs.head[CCI] # x /\ x = z
        BY <1>10 DEF Layout, Text
    <2>3. CASE e = x
        <3>1. \A i \in 1 .. Len(Tail(c)) : Tail(c)[i] # x
            <4>1. \A i, j \in 1 .. Len(c) : c[i] = c[j] => i = j
                BY <1>2 DEF Threads, Separate
            <4> QED
                BY <1>4, <1>11, <2>3, <4>1 DEF e
        <3>2. envs.head[CCI] # x
            BY <1>4, <2>2, <2>3 DEF e
        <3> QED
            BY <1>1, <2>1, <2>2, <2>3, <3>1, <3>2 DEF Text
    <2>4. CASE e # x /\ (\E i \in 1 .. Len(c) : c[i] = x) /\ envs.head[CCI] # x
        <3>1. \E i \in 1 .. Len(Tail(c)) : Tail(c)[i] = x
            <4>1. PICK i \in 1 .. Len(c) : c[i] = x
                BY <2>4
            <4>2. i # 1
                BY <2>4, <4>1 DEF e
            <4> QED
                BY <1>4, <1>11, <4>1, <4>2
        <3> QED
            BY <1>1, <2>1, <2>2, <2>4, <3>1 DEF Text
    <2>5. CASE /\ e # x /\ (\A i \in 1 .. Len(c) : c[i] # x)
               /\ \/ envs.head[CCI] = x /\ content[x] = "ack"
                  \/ envs.head[CCI] # x /\ x = z
        <3>1. \A i \in 1 .. Len(Tail(c)) : Tail(c)[i] # x
            BY <1>4, <1>11, <2>5
        <3> QED
            BY <1>1, <2>1, <2>2, <2>5, <3>1 DEF Text
    <2> QED
        BY <2>2, <2>3, <2>4, <2>5
<1>15. Senders(Tail(c), D1, x, e)'
    <2>1. \A i \in 1 .. Len(c) : sender_id[c[i]] = IF c[i] = x THEN CCI ELSE 2
        BY DEF Layout, Senders
    <2>2. \A i \in 1 .. Len(Tail(c)) : sender_id[Tail(c)[i]] = IF Tail(c)[i] = x THEN CCI ELSE 2
        BY <1>4, <1>11, <2>1
    <2>3. e \in D1 \cup {NULL, x} /\ sender_id[e] = IF e = x THEN CCI ELSE 2
        BY <1>4, <2>1 DEF e, D1
    <2> QED
        BY <1>1, <2>2, <2>3 DEF Senders
<1>16. Others'
    BY <1>1, <1>7, Queues DEF Layout, Others
<1>17. \A D2, e2 : D2 = D1 /\ e2 = e => Layout(b, Tail(c), D2, k, x, z, kh, e2)'
    BY <1>6, <1>9, <1>12, <1>13, <1>14, <1>15, <1>16 DEF Layout
<1> QED
    BY <1>4, <1>5, <1>17

(* It sends the acknowledgement, to the CCI or to the timer.               *)
LEMMA CrtTransferLayout ==
    ASSUME RTXInv, Nested, NEW b \in Seq(Env), NEW c \in Seq(Env), NEW D \in SUBSET Env,
           NEW k \in Env \cup {NULL}, NEW x \in Env \cup {NULL}, NEW z \in Env \cup {NULL},
           NEW kh \in Env \cup {NULL}, NEW ch \in Env \cup {NULL},
           Layout(b, c, D, k, x, z, kh, ch), CrtTransfer
    PROVE  Layout(b, c, D, k, x, z, kh, NULL)'
<1>1. /\ frames # <<>> /\ Top.pid = 1 /\ hpc[Len(hpc)] = "transfer" /\ Top.env # NULL
      /\ content' = [content EXCEPT ![Top.env] = "ack"]
      /\ envs' = env_ENQ(envs, sender_id[Top.env], Top.env)
      /\ sender_id' = [sender_id EXCEPT ![Top.env] = curr_process]
      /\ frames' = [frames EXCEPT ![Len(frames)].env = NULL]
      /\ hpc' = [hpc EXCEPT ![Len(hpc)] = "return"]
      /\ UNCHANGED <<pc, env, first, posted, shown, at>>
    BY DEF CrtTransfer, Doing, Reply, k_send_message, Calls
<1>2. Top.env = ch /\ ch \in Env
    BY <1>1, TopOf DEF Layout, Hands
<1>3. /\ envs \in Store(Env, EnvQueue) /\ Threads(envs, b, c, D, k, x, z, first)
      /\ NULL \notin Env
    BY Stocked DEF Layout
<1>4. /\ ch \in D \cup {x} /\ sender_id[ch] = IF ch = x THEN CCI ELSE 2
      /\ \A i \in 1 .. Len(c) : sender_id[c[i]] = IF c[i] = x THEN CCI ELSE 2
    BY <1>2, <1>3 DEF Layout, Senders
<1>5. \A e \in Env : e # ch => sender_id'[e] = sender_id[e] /\ content'[e] = content[e]
    BY <1>1, <1>2, Stocked
<1>6. content'[ch] = "ack"
    BY <1>1, <1>2, Stocked
<1>7. Enough(b, k, z)'
    BY <1>1 DEF Layout, Enough, Spent
<1>8. Hands(frames', hpc', kh, NULL, z)
    <2>1. Hands(frames, hpc, kh, ch, z) /\ "return" \in Call /\ NULL \in Env \cup {NULL}
        BY DEF Layout, Call
    <2>2. frames[Len(frames)].pid = 1
        BY <1>1, TopOf
    <2>3. Hands([frames EXCEPT ![Len(frames)].env = NULL], [hpc EXCEPT ![Len(hpc)] = "return"], kh, NULL, z)
        BY <1>1, <2>1, <2>2, Stocked, HandsSet
    <2> QED
        BY <1>1, <2>3
<1>9. \A i \in 1 .. Len(c) : c[i] \in Env
    BY EnvSeq
<1>10. CASE ch = x
    <2>1. /\ \A i \in 1 .. Len(c) : c[i] # x
          /\ envs.head[CCI] # x
          /\ \/ pc[CCI] = "release" /\ x = k
             \/ /\ pc[CCI] \in {"renew", "yield", "ask", "receive"} /\ x # k
                /\ x = z \/ \E i \in 1 .. Len(b) : x = b[i]
        BY <1>2, <1>3, <1>10 DEF Layout, Text
    <2>2. envs.head[CCI] = NULL /\ CCI \in EnvQueue \ {1, 2, envelope_q}
        BY <1>2, <1>3, <1>10, <2>1, Queues DEF Layout, Console, Off
    <2>3. envs' = env_ENQ(envs, CCI, ch)
        BY <1>1, <1>2, <1>4, <1>10
    <2>4. Threads(envs', b, c, D, k, x, z, first')
        BY <1>1, <1>2, <1>3, <2>2, <2>3, ElsewhereENQ
    <2>5. envs'.head[CCI] = x /\ \A r \in EnvQueue : r # CCI => envs'.head[r] = envs.head[r]
        BY <1>2, <1>3, <1>10, <2>2, <2>3, HeadENQ
    <2>6. Console(c, k, x, kh, NULL)'
        <3>1. CASE pc[CCI] = "receive"
            <4>1. /\ envs.head[0] = k /\ kh = NULL /\ sender_id[k] = CCI /\ k # x /\ k # NULL
                  /\ at[CCI] # "emptied"
                BY <1>2, <1>3, <1>10, <2>1, <3>1 DEF Layout, Console, Off
            <4>2. sender_id'[k] = CCI
                BY <1>5, <1>10, <4>1
            <4> QED
                BY <1>1, <2>5, <3>1, <4>1, <4>2, Queues DEF Console
        <3>2. CASE pc[CCI] # "receive"
            BY <1>1, <2>5, <3>2, Queues DEF Layout, Console
        <3> QED
            BY <3>1, <3>2
    <2>7. Text(b, c, k, x, z, NULL)'
        BY <1>1, <1>2, <1>3, <1>6, <1>10, <2>1, <2>5 DEF Text
    <2>8. Senders(c, D, x, NULL)'
        BY <1>4, <1>5, <1>9, <1>10, <2>1 DEF Senders
    <2>9. Others'
        BY <1>1, <2>5, Queues DEF Layout, Others
    <2> QED
        BY <1>7, <1>8, <2>4, <2>6, <2>7, <2>8, <2>9 DEF Layout
<1>11. CASE ch # x
    <2>1. ch \in D /\ sender_id[ch] = 2
        BY <1>4, <1>11
    <2>2. envs' = env_ENQ(envs, 2, ch)
        BY <1>1, <1>2, <2>1
    <2>3. Threads(envs', b, c, D, k, x, z, first')
        BY <1>1, <1>3, <2>1, <2>2, DownstreamENQ
    <2>4. \A r \in EnvQueue : r # 2 => envs'.head[r] = envs.head[r]
        BY <1>2, <1>3, <2>2, Queues, HeadENQ
    <2>5. k # ch /\ x # ch /\ \A i \in 1 .. Len(c) : c[i] # ch
        BY <1>3, <2>1 DEF Threads, Separate
    <2>6. Console(c, k, x, kh, NULL)'
        <3>1. k # NULL => sender_id'[k] = sender_id[k] /\ content'[k] = content[k]
            BY <1>5, <2>5
        <3>2. env[CCI] \in Env /\ content[env[CCI]] = "ack" => content'[env[CCI]] = "ack"
            BY <1>5, <1>6
        <3>3. envs'.head[0] = envs.head[0] /\ envs'.head[CCI] = envs.head[CCI]
            BY <2>4, Queues
        <3>4. Off(c, x, ch) => x = NULL \/ Off(c, x, NULL)
            BY DEF Off
        <3>5. Console(c, k, x, kh, ch)
            BY DEF Layout
        <3>6. CASE pc[CCI] = "receive"
            <4>1. k # NULL
                BY <3>5, <3>6 DEF Console
            <4> QED
                BY <1>1, <3>1, <3>2, <3>3, <3>4, <3>5, <3>6, <4>1 DEF Console
        <3>7. CASE pc[CCI] # "receive"
            BY <1>1, <3>3, <3>5, <3>7 DEF Console
        <3> QED
            BY <3>6, <3>7
    <2>7. Text(b, c, k, x, z, NULL)'
        <3>1. x # NULL => content'[x] = content[x]
            BY <1>5, <2>5
        <3>2. Text(b, c, k, x, z, ch) /\ envs'.head[CCI] = envs.head[CCI]
            BY <2>4, Queues DEF Layout
        <3> QED
            BY <1>1, <2>5, <3>1, <3>2 DEF Text
    <2>8. Senders(c, D, x, NULL)'
        BY <1>4, <1>5, <1>9, <2>5 DEF Senders
    <2>9. Others'
        BY <1>1, <2>4, Queues DEF Layout, Others
    <2> QED
        BY <1>7, <1>8, <2>3, <2>6, <2>7, <2>8, <2>9 DEF Layout
<1> QED
    BY <1>10, <1>11

(* timer_iproc begins, with empty hands.                                   *)
LEMMA TimerSignalLayout ==
    ASSUME RTXInv, NEW b \in Seq(Env), NEW c \in Seq(Env), NEW D \in SUBSET Env,
           NEW k \in Env \cup {NULL}, NEW x \in Env \cup {NULL}, NEW z \in Env \cup {NULL},
           NEW kh \in Env \cup {NULL}, NEW ch \in Env \cup {NULL},
           Layout(b, c, D, k, x, z, kh, ch), TimerSignal
    PROVE  Layout(b, c, D, k, x, z, kh, ch)'
<1> DEFINE f == [ pid |-> 2, interrupted |-> curr_process, env |-> NULL ]
<1>1. PICK call \in {"clock_out", "receive"} :
         /\ Idle(2) /\ hpc' = Append(hpc, call) /\ frames' = Append(frames, f)
         /\ UNCHANGED <<envs, pc, env, first, content, sender_id, posted, shown, at>>
    BY DEF TimerSignal
<1>2. /\ f \in Frame /\ f.pid = 2 /\ f.env = NULL
      /\ \A i \in 1 .. Len(frames) : frames[i].pid # f.pid
    <2>1. curr_process \in PID /\ 2 \in Iproc
        BY Processes DEF RTXInv, KernelInv, TypeOK
    <2>2. \A i \in 1 .. Len(frames) : frames[i].pid # 2
        <3>1. DOMAIN frames = 1 .. Len(frames)
            BY Stocked
        <3> QED
            BY <1>1, <3>1 DEF Idle
    <2> QED
        BY <2>1, <2>2 DEF Frame
<1> HIDE DEF f
<1>3. Hands(frames', hpc', kh, ch, z)
    <2>1. Hands(frames, hpc, kh, ch, z) /\ call \in Call
        BY DEF Layout, Call
    <2>2. Hands(Append(frames, f), Append(hpc, call), kh, ch, z)
        BY <1>2, <2>1, Stocked, HandsPush
    <2> QED
        BY <1>1, <2>2
<1>4. Threads(envs', b, c, D, k, x, z, first')
    BY <1>1 DEF Layout
<1>5. Enough(b, k, z)' /\ Console(c, k, x, kh, ch)' /\ Text(b, c, k, x, z, ch)' /\ Senders(c, D, x, ch)' /\ Others'
    BY <1>1 DEF Layout, Enough, Spent, Console, Text, Senders, Others
<1> QED
    BY <1>3, <1>4, <1>5 DEF Layout

(* clock_out takes an envelope, which may be the text at the end of the    *)
(* pool.                                                                   *)
LEMMA ClockRequestLayout ==
    ASSUME RTXInv, NEW b \in Seq(Env), NEW c \in Seq(Env), NEW D \in SUBSET Env,
           NEW k \in Env \cup {NULL}, NEW x \in Env \cup {NULL}, NEW z \in Env \cup {NULL},
           NEW kh \in Env \cup {NULL}, NEW ch \in Env \cup {NULL}, first # NULL,
           Layout(b, c, D, k, x, z, kh, ch), ClockRequest
    PROVE  \E b1, c1 \in Seq(Env), D1 \in SUBSET Env, z1 \in Env \cup {NULL} :
              Layout(b1, c1, D1, k, x, z1, kh, ch)'
<1>1. /\ frames # <<>> /\ Top.pid = 2 /\ hpc[Len(hpc)] = "clock_out"
      /\ UNCHANGED <<pc, env, first, content, sender_id, posted, shown, at>>
    BY DEF ClockRequest, Doing
<1>2. CASE envs.head[envelope_q] = NULL
    <2>1. UNCHANGED <<envs, frames, hpc>>
        BY <1>2 DEF ClockRequest
    <2>2. Layout(b, c, D, k, x, z, kh, ch)'
        BY <1>1, <2>1, SameLayout
    <2> QED
        BY <2>2
<1>3. CASE envs.head[envelope_q] # NULL
    <2> DEFINE e == envs.head[envelope_q]
    <2>1. /\ envs' = env_DEQ(envs, envelope_q)
          /\ frames' = [frames EXCEPT ![Len(frames)].env = e]
          /\ hpc' = [hpc EXCEPT ![Len(hpc)] = "display"]
        BY <1>3 DEF ClockRequest, Calls
    <2>2. envs \in Store(Env, EnvQueue) /\ Threads(envs, b, c, D, k, x, z, first) /\ NULL \notin Env
        BY Stocked DEF Layout
    <2>3. z = NULL
        <3>1. SUFFICES ASSUME z # NULL
                       PROVE  FALSE
            OBVIOUS
        <3>2. PICK i \in 1 .. Len(frames) : hpc[i] = "display"
            BY <3>1 DEF Layout, Hands
        <3>3. frames[i].pid = 2
            BY <3>2, Stocked
        <3>4. i = Len(hpc)
            BY <1>1, <3>3, TopOf
        <3> QED
            BY <1>1, <3>2, <3>4
    <2>4. b # <<>> /\ b[1] \in Env /\ Len(b) \in Nat \ {0} /\ e = b[1]
        <3>1. Pool(envs, b, x)
            BY <2>2, <2>3 DEF Threads
        <3> QED
            BY <1>3, <3>1, EnvSeq DEF Pool
    <2>5. \A r \in EnvQueue : r # envelope_q => envs'.head[r] = envs.head[r]
        BY <1>3, <2>1, <2>2, Queues, HeadDEQ
    <2> HIDE DEF e
    <2>6. Hands(frames', hpc', kh, ch, e)
        <3>1. Hands(frames, hpc, kh, ch, z) /\ "display" \in Call /\ e \in Env \cup {NULL}
            BY <2>4 DEF Layout, Call
        <3>2. frames[Len(frames)].pid = 2
            BY <1>1, TopOf
        <3>3. Hands([frames EXCEPT ![Len(frames)].env = e], [hpc EXCEPT ![Len(hpc)] = "display"], kh, ch, e)
            BY <1>1, <3>1, <3>2, Stocked, HandsSet
        <3> QED
            BY <2>1, <3>3
    <2>7. Console(c, k, x, kh, ch)'
        BY <1>1, <2>5, Queues DEF Layout, Console
    <2>8. Others'
        BY <1>1, <2>5, Queues DEF Layout, Others
    <2>9. /\ NUM_ENV <= Len(b) + One(k) + 0 + 1 + Spent /\ One(e) = 1 /\ One(k) \in {0, 1}
          /\ Spent' = Spent
        BY <1>1, <2>2, <2>3, <2>4 DEF Layout, Enough, One, Spent
    <2>10. envs'.head[CCI] = envs.head[CCI]
        BY <2>5, Queues
    <2>11. CASE e = x
        <3>1. Threads(envs, b, c, D, k, x, NULL, first) /\ x \in Env /\ b[1] = x
            BY <2>2, <2>3, <2>4, <2>11
        <3>2. Len(b) = 1
            BY <2>2, <2>4, <3>1, PoolTakeText
        <3>3. \E c1 \in Seq(Env), D1 \in SUBSET Env :
                 /\ Threads(env_DEQ(envs, envelope_q), <<>>, c1, D1, k, x, x, first)
                 /\ Remains(c, D, x, c1, D1)
            BY <2>2, <2>4, <3>1, PoolTakeText
        <3>4. PICK c1 \in Seq(Env), D1 \in SUBSET Env :
                 /\ Threads(env_DEQ(envs, envelope_q), <<>>, c1, D1, k, x, x, first)
                 /\ Remains(c, D, x, c1, D1)
            BY <3>3
        <3>5. Threads(envs', <<>>, c1, D1, k, x, x, first')
            BY <1>1, <2>1, <3>4
        <3>6. Enough(<<>>, k, x)' /\ <<>> \in Seq(Env)
            <4>1. <<>> \in Seq(Env) /\ Len(<<>>) = 0
                BY EmptySeq
            <4>2. NUM_ENV <= 0 + One(k) + 1 + 1 + Spent'
                BY <2>9, <3>2, Stocked
            <4> QED
                BY <2>9, <2>11, <4>1, <4>2 DEF Enough
        <3>7. Text(<<>>, c1, k, x, x, ch)'
            <4>1. (\E i \in 1 .. Len(c1) : c1[i] = x) <=> (\E i \in 1 .. Len(c) : c[i] = x)
                BY <3>4 DEF Remains
            <4>2. Text(b, c, k, x, z, ch)
                BY DEF Layout
            <4> QED
                BY <1>1, <2>10, <4>1, <4>2 DEF Text
        <3>8. Senders(c1, D1, x, ch)'
            <4>1. Senders(c, D, x, ch)
                BY DEF Layout
            <4>2. Senders(c1, D1, x, ch)
                BY <3>4, <4>1, SendersRemain
            <4> QED
                BY <1>1, <4>2 DEF Senders
        <3>9. Hands(frames', hpc', kh, ch, x)
            BY <2>6, <2>11
        <3>11. Console(c1, k, x, kh, ch)'
            <4>1. Off(c, x, ch) => Off(c1, x, ch)
                BY <3>4 DEF Remains, Off
            <4> QED
                BY <2>7, <4>1 DEF Console, Off
        <3>10. Layout(<<>>, c1, D1, k, x, x, kh, ch)'
            BY <3>11, <2>8, <3>5, <3>6, <3>7, <3>8, <3>9 DEF Layout
        <3> QED
            BY <3>6, <3>10
    <2>12. CASE e # x
        <3> DEFINE y == b[1]
        <3>1. Threads(envs, b, c, D, k, x, NULL, first) /\ b[1] # x
            BY <2>2, <2>3, <2>4, <2>12
        <3>2. Threads(env_DEQ(envs, envelope_q), Tail(b), c, D, k, x, b[1], first)
            BY <2>2, <2>4, <3>1, PoolTake
        <3>3. /\ Tail(b) \in Seq(Env) /\ Len(Tail(b)) = Len(b) - 1
              /\ \A i \in 1 .. Len(b) - 1 : Tail(b)[i] = b[i + 1]
            BY <2>4, EnvTail
        <3>4. y \in Env /\ y = e
            BY <2>4
        <3>5. Threads(envs', Tail(b), c, D, k, x, y, first')
            BY <1>1, <2>1, <3>2
        <3> HIDE DEF y
        <3>6. Enough(Tail(b), k, y)'
            <4>1. NUM_ENV <= Len(Tail(b)) + One(k) + 1 + 1 + Spent'
                BY <2>4, <2>9, <3>3, Stocked
            <4> QED
                BY <2>9, <3>4, <4>1 DEF Enough
        <3>7. Text(Tail(b), c, k, x, y, ch)'
            <4>1. (\E i \in 1 .. Len(b) : x = b[i]) => \E i \in 1 .. Len(Tail(b)) : x = Tail(b)[i]
                <5>1. SUFFICES ASSUME NEW i \in 1 .. Len(b), x = b[i]
                               PROVE  \E j \in 1 .. Len(Tail(b)) : x = Tail(b)[j]
                    OBVIOUS
                <5>2. i - 1 \in 1 .. Len(Tail(b)) /\ i - 1 \in 1 .. Len(b) - 1 /\ i - 1 + 1 = i
                    BY <2>4, <3>1, <3>3, <5>1
                <5> QED
                    BY <3>3, <5>1, <5>2
            <4>2. Text(b, c, k, x, z, ch)
                BY DEF Layout
            <4> QED
                BY <1>1, <2>3, <2>10, <4>1, <4>2 DEF Text
        <3>8. Senders(c, D, x, ch)'
            BY <1>1 DEF Layout, Senders
        <3>9. Hands(frames', hpc', kh, ch, y)
            BY <2>6, <3>4
        <3>10. Layout(Tail(b), c, D, k, x, y, kh, ch)'
            BY <2>7, <2>8, <3>5, <3>6, <3>7, <3>8, <3>9 DEF Layout
        <3> QED
            BY <3>3, <3>4, <3>10
    <2> QED
        BY <2>11, <2>12
<1> QED
    BY <1>2, <1>3

(* The second goes to crt_iproc: its envelope is spent.                    *)
LEMMA ClockSendLayout ==
    ASSUME RTXInv, Nested, NEW b \in Seq(Env), NEW c \in Seq(Env), NEW D \in SUBSET Env,
           NEW k \in Env \cup {NULL}, NEW x \in Env \cup {NULL}, NEW z \in Env \cup {NULL},
           NEW kh \in Env \cup {NULL}, NEW ch \in Env \cup {NULL}, first # NULL,
           Layout(b, c, D, k, x, z, kh, ch), ClockSend
    PROVE  \/ Spent' >= NUM_ENV - 2
           \/ \E c1 \in Seq(Env), D1 \in SUBSET Env : Layout(b, c1, D1, k, x, NULL, kh, ch)'
<1>1. /\ frames # <<>> /\ Top.pid = 2 /\ hpc[Len(hpc)] = "display"
      /\ envs' = env_ENQ(envs, 1, Top.env)
      /\ sender_id' = [sender_id EXCEPT ![Top.env] = curr_process]
      /\ frames' = [frames EXCEPT ![Len(frames)].env = NULL]
      /\ hpc' = [hpc EXCEPT ![Len(hpc)] = "receive"]
      /\ shown' = shown + 1
      /\ UNCHANGED <<pc, env, first, content, posted, at>>
    BY DEF ClockSend, Doing, k_send_message, Calls
<1>2. /\ Top.env = z /\ z \in Env /\ curr_process = 2
    <2>1. Top.env = z
        BY <1>1, TopOf DEF Layout, Hands
    <2>2. Top.env # NULL
        BY <1>1, TopOf DEF RTXInv, Stack
    <2> QED
        BY <1>1, <2>1, <2>2 DEF Nested
<1>3. /\ envs \in Store(Env, EnvQueue) /\ Threads(envs, b, c, D, k, x, z, first)
      /\ NULL \notin Env
    BY Stocked DEF Layout
<1>4. /\ NUM_ENV <= Len(b) + One(k) + 1 + 1 + Spent /\ One(k) \in {0, 1} /\ One(NULL) = 0
      /\ Spent' = Spent + 1 /\ Len(b) \in Nat
    <2>1. Spent' = Spent + 1
        BY <1>1, SpentCounts DEF Spent
    <2> QED
        BY <1>2, <1>3, <2>1, EnvSeq DEF Layout, Enough, One
<1>5. CASE z = x
    <2>1. b = <<>>
        BY <1>2, <1>3, <1>5 DEF Threads
    <2>2. Len(b) = 0
        BY <2>1, EnvSeq
    <2>3. Spent' >= NUM_ENV - 2
        BY <1>4, <2>2, Stocked
    <2> QED
        BY <2>3
<1>6. CASE z # x
    <2>1. \E c1 \in Seq(Env), D1 \in SUBSET Env :
              Threads(env_ENQ(envs, 1, z), b, c1, D1, k, x, NULL, first) /\ Joined(c, D, z, c1, D1)
        BY <1>2, <1>3, <1>6, SecondSent
    <2>2. PICK c1 \in Seq(Env), D1 \in SUBSET Env :
              Threads(env_ENQ(envs, 1, z), b, c1, D1, k, x, NULL, first) /\ Joined(c, D, z, c1, D1)
        BY <2>1
    <2>3. Threads(envs', b, c1, D1, k, x, NULL, first')
        BY <1>1, <1>2, <2>2
    <2>4. \A r \in EnvQueue : r # 1 => envs'.head[r] = envs.head[r]
        BY <1>1, <1>2, <1>3, Queues, HeadENQ
    <2>5. sender_id'[z] = 2 /\ \A e \in Env : e # z => sender_id'[e] = sender_id[e]
        BY <1>1, <1>2, Stocked
    <2>6. /\ k # z /\ z \notin D /\ \A i \in 1 .. Len(c) : c[i] # z
        BY <1>2, <1>3, <1>6 DEF Threads, Separate
    <2>7. /\ Len(c) \in Nat /\ (\A i \in 1 .. Len(c) : c[i] \in Env)
          /\ Len(Append(c, z)) = Len(c) + 1 /\ Append(c, z)[Len(c) + 1] = z
          /\ \A i \in 1 .. Len(c) : Append(c, z)[i] = c[i]
        BY <1>2, EnvSeq, EnvAppend
    <2>8. /\ \A i \in 1 .. Len(c1) : (i \in 1 .. Len(c) /\ c1[i] = c[i]) \/ c1[i] = z
          /\ \A i \in 1 .. Len(c) : i \in 1 .. Len(c1) /\ c1[i] = c[i]
        <3>1. CASE c1 = Append(c, z)
            <4>1. Len(c1) = Len(c) + 1
                BY <2>7, <3>1
            <4>2. /\ \A i \in 1 .. Len(c1) : i \in 1 .. Len(c) \/ i = Len(c) + 1
                  /\ \A i \in 1 .. Len(c) : i \in 1 .. Len(c1)
                BY <2>7, <4>1
            <4> QED
                BY <2>7, <3>1, <4>2
        <3>2. CASE c1 = c
            BY <3>2
        <3> QED
            BY <2>2, <3>1, <3>2 DEF Joined
    <2>9. Enough(b, k, NULL)'
        <3>1. NUM_ENV <= Len(b) + One(k) + 0 + 1 + Spent'
            BY <1>4, SpentCounts, Stocked
        <3> QED
            BY <1>4, <3>1 DEF Enough
    <2>10. Console(c1, k, x, kh, ch)'
        <3>3. Off(c, x, ch) => Off(c1, x, ch)
            BY <1>6, <2>8 DEF Off
        <3>1. CASE pc[CCI] = "receive"
            <4>1. k # NULL /\ sender_id'[k] = sender_id[k]
                BY <2>5, <2>6, <3>1 DEF Layout, Console
            <4>2. /\ pc'[CCI] = "receive" /\ pc'[CCI] # "renew" /\ content' = content
                  /\ envs'.head[0] = envs.head[0] /\ envs'.head[CCI] = envs.head[CCI]
                BY <1>1, <2>4, <3>1, Queues
            <4>3. Console(c, k, x, kh, ch)
                BY DEF Layout
            <4> QED
                BY <1>1, <3>1, <3>3, <4>1, <4>2, <4>3 DEF Console
        <3>2. CASE pc[CCI] # "receive"
            BY <1>1, <2>4, <3>2, Queues DEF Layout, Console
        <3> QED
            BY <3>1, <3>2
    <2>11. Text(b, c1, k, x, NULL, ch)'
        <3>1. (\E i \in 1 .. Len(c1) : c1[i] = x) <=> (\E i \in 1 .. Len(c) : c[i] = x)
            BY <1>6, <2>8
        <3>2. Text(b, c, k, x, z, ch) /\ envs'.head[CCI] = envs.head[CCI]
            BY <2>4, Queues DEF Layout
        <3> QED
            BY <1>1, <1>6, <3>1, <3>2 DEF Text
    <2>12. Senders(c1, D1, x, ch)'
        <3>1. Senders(c, D, x, ch)
            BY DEF Layout
        <3>2. ch # z /\ ch \in D1 \cup {NULL, x} /\ (ch # NULL => sender_id'[ch] = sender_id[ch])
            BY <1>2, <1>3, <1>6, <2>2, <2>5, <2>6, <3>1 DEF Senders, Joined
        <3>3. \A i \in 1 .. Len(c1) : sender_id'[c1[i]] = IF c1[i] = x THEN CCI ELSE 2
            BY <1>6, <2>5, <2>6, <2>7, <2>8, <3>1 DEF Senders
        <3> QED
            BY <3>1, <3>2, <3>3 DEF Senders
    <2>13. Hands(frames', hpc', kh, ch, NULL)
        <3>1. Hands(frames, hpc, kh, ch, z) /\ "receive" \in Call /\ NULL \in Env \cup {NULL}
            BY DEF Layout, Call
        <3>2. frames[Len(frames)].pid = 2 /\ hpc[Len(frames)] = "display"
            BY <1>1, TopOf
        <3>3. Hands([frames EXCEPT ![Len(frames)].env = NULL], [hpc EXCEPT ![Len(hpc)] = "receive"], kh, ch, NULL)
            BY <1>1, <3>1, <3>2, Stocked, HandsSet
        <3> QED
            BY <1>1, <3>3
    <2>14. Others'
        BY <1>1, <2>4, Queues DEF Layout, Others
    <2>15. Layout(b, c1, D1, k, x, NULL, kh, ch)'
        BY <2>3, <2>9, <2>10, <2>11, <2>12, <2>13, <2>14 DEF Layout
    <2> QED
        BY <2>15
<1> QED
    BY <1>5, <1>6

(* timer_iproc takes an acknowledgement and forgets it.                    *)
LEMMA TimerReceiveLayout ==
    ASSUME RTXInv, NEW b \in Seq(Env), NEW c \in Seq(Env), NEW D \in SUBSET Env,
           NEW k \in Env \cup {NULL}, NEW x \in Env \cup {NULL}, NEW z \in Env \cup {NULL},
           NEW kh \in Env \cup {NULL}, NEW ch \in Env \cup {NULL},
           Layout(b, c, D, k, x, z, kh, ch), TimerReceive
    PROVE  Layout(b, c, D, k, x, z, kh, ch)'
<1>1. /\ frames # <<>> /\ Top.pid = 2 /\ hpc[Len(hpc)] = "receive"
      /\ envs' = env_DEQ(envs, 2)
      /\ frames' = [frames EXCEPT ![Len(frames)].env = envs.head[2]]
      /\ hpc' = [hpc EXCEPT ![Len(hpc)] = "return"]
      /\ UNCHANGED <<pc, env, first, content, sender_id, posted, shown, at>>
    BY DEF TimerReceive, Doing, Calls
<1>2. /\ envs \in Store(Env, EnvQueue) /\ Threads(envs, b, c, D, k, x, z, first)
      /\ envs.head[2] \in Env \cup {NULL}
    BY Stocked, Queues DEF Layout
<1>3. Threads(envs', b, c, D, k, x, z, first')
    BY <1>1, <1>2, DownstreamDEQ
<1>4. \A r \in EnvQueue : r # 2 => envs'.head[r] = envs.head[r]
    <2>1. CASE envs.head[2] = NULL
        BY <1>1, <2>1 DEF env_DEQ
    <2>2. CASE envs.head[2] # NULL
        BY <1>1, <1>2, <2>2, Queues, HeadDEQ
    <2> QED
        BY <2>1, <2>2
<1>5. Hands(frames', hpc', kh, ch, z)
    <2>1. Hands(frames, hpc, kh, ch, z) /\ "return" \in Call
        BY DEF Layout, Call
    <2>2. frames[Len(frames)].pid = 2 /\ hpc[Len(frames)] # "display"
        BY <1>1, TopOf
    <2>3. Hands([frames EXCEPT ![Len(frames)].env = envs.head[2]], [hpc EXCEPT ![Len(hpc)] = "return"], kh, ch, z)
        BY <1>1, <1>2, <2>1, <2>2, Stocked, HandsSet
    <2> QED
        BY <1>1, <2>3
<1>6. Enough(b, k, z)' /\ Senders(c, D, x, ch)'
    BY <1>1 DEF Layout, Enough, Spent, Senders
<1>7. Console(c, k, x, kh, ch)'
    BY <1>1, <1>4, Queues DEF Layout, Console
<1>8. Text(b, c, k, x, z, ch)'
    <2>1. Text(b, c, k, x, z, ch) /\ envs'.head[CCI] = envs.head[CCI]
        BY <1>4, Queues DEF Layout
    <2> QED
        BY <1>1, <2>1 DEF Text
<1>9. Others'
    BY <1>1, <1>4, Queues DEF Layout, Others
<1> QED
    BY <1>3, <1>5, <1>6, <1>7, <1>8, <1>9 DEF Layout

(* Every step of a handler and every signal keeps the shape, or spends the *)
(* last but two.                                                           *)
LEMMA HandlerShape ==
    ASSUME RTXInv, Nested, Begun, Shape, HandlerStep \/ Signal, ~ ahead'
    PROVE  Shape' \/ Spent' >= NUM_ENV - 2
<1>1. first # NULL
    BY DEF Begun
<1>0. at'[B] # "emptied"
    BY DEF HandlerStep, KbdTransfer, KbdDrop, CrtTransfer, CrtDrop, HandlerReturn, ClockRequest, ClockSend,
           TimerReceive, Reply, Return, Signal, KbdSignal, CrtSignal, TimerSignal, Interrupt, Shape
<1>2. PICK b \in Seq(Env), c \in Seq(Env), D \in SUBSET Env,
           k \in Env \cup {NULL}, x \in Env \cup {NULL}, z \in Env \cup {NULL},
           kh \in Env \cup {NULL}, ch \in Env \cup {NULL} : Layout(b, c, D, k, x, z, kh, ch)
    BY DEF Shape
<1> DEFINE L(b1, c1, D1, x1, z1, kh1, ch1) == Layout(b1, c1, D1, k, x1, z1, kh1, ch1)'
<1>3. ASSUME NEW b1 \in Seq(Env), NEW c1 \in Seq(Env), NEW D1 \in SUBSET Env,
             NEW x1 \in Env \cup {NULL}, NEW z1 \in Env \cup {NULL},
             NEW kh1 \in Env \cup {NULL}, NEW ch1 \in Env \cup {NULL}, L(b1, c1, D1, x1, z1, kh1, ch1)
      PROVE  Shape'
    BY <1>0, <1>3, ShapeFrom
<1> HIDE DEF L
<1>4. CASE KbdSignal
    <2>1. \E kh1 \in Env \cup {NULL} : L(b, c, D, x, z, kh1, ch)
        BY <1>1, <1>2, <1>4, KbdSignalLayout DEF L
    <2> QED
        BY <1>3, <2>1
<1>5. CASE CrtSignal
    <2>1. \E c1 \in Seq(Env), D1 \in SUBSET Env, ch1 \in Env \cup {NULL} : L(b, c1, D1, x, z, kh, ch1)
        BY <1>1, <1>2, <1>5, CrtSignalLayout DEF L
    <2> QED
        BY <1>3, <2>1
<1>6. CASE TimerSignal
    <2>1. L(b, c, D, x, z, kh, ch)
        BY <1>2, <1>6, TimerSignalLayout DEF L
    <2> QED
        BY <1>3, <2>1
<1>7. CASE KbdTransfer
    <2>1. L(b, c, D, x, z, NULL, ch)
        BY <1>2, <1>7, KbdTransferLayout DEF L
    <2> QED
        BY <1>3, <2>1
<1>8. CASE KbdDrop \/ HandlerReturn
    <2>1. L(b, c, D, x, z, kh, ch)
        BY <1>2, <1>8, PopLayout DEF L
    <2> QED
        BY <1>3, <2>1
<1>9. CASE CrtTransfer
    <2>1. L(b, c, D, x, z, kh, NULL)
        BY <1>2, <1>9, CrtTransferLayout DEF L
    <2> QED
        BY <1>3, <2>1
<1>10. CASE ClockRequest
    <2>1. \E b1, c1 \in Seq(Env), D1 \in SUBSET Env, z1 \in Env \cup {NULL} : L(b1, c1, D1, x, z1, kh, ch)
        BY <1>1, <1>2, <1>10, ClockRequestLayout DEF L
    <2> QED
        BY <1>3, <2>1
<1>11. CASE ClockSend
    <2>1. \/ Spent' >= NUM_ENV - 2
          \/ \E c1 \in Seq(Env), D1 \in SUBSET Env : L(b, c1, D1, x, NULL, kh, ch)
        BY <1>1, <1>2, <1>11, ClockSendLayout DEF L
    <2> QED
        BY <1>3, <2>1
<1>12. CASE TimerReceive
    <2>1. L(b, c, D, x, z, kh, ch)
        BY <1>2, <1>12, TimerReceiveLayout DEF L
    <2> QED
        BY <1>3, <2>1
<1>13. CASE CrtDrop
    <2>1. \E x1 \in Env \cup {NULL} : L(b, c, D, x1, z, kh, NULL)
        BY <1>1, <1>2, <1>13, CrtDropLayout DEF L
    <2> QED
        BY <1>3, <2>1
<1> QED
    BY <1>4, <1>5, <1>6, <1>7, <1>8, <1>9, <1>10, <1>11, <1>12, <1>13 DEF HandlerStep, Signal

(* Every step keeps the shape, or spends the last but two.                 *)
LEMMA ShapeStays ==
    ASSUME RTXInv, Nested, Begun, Shape, Spent < NUM_ENV - 2, [RTXNext]_all, ~ Excused'
    PROVE  Shape' \/ Spent' >= NUM_ENV - 2
<1>1. CASE Program
    BY <1>1, ProgramShape
<1>2. CASE HandlerStep \/ Signal
    BY <1>2, HandlerShape DEF Excused
<1>3. CASE SendsNowhere \/ (\E c \in Commands : Type(c)) \/ UNCHANGED all
    <2>1. UNCHANGED <<envs, pc, env, first, content, sender_id, frames, hpc, posted, shown, at>>
        BY <1>3, Unsent DEF Type, all, vars, rtx
    <2>2. PICK b \in Seq(Env), c \in Seq(Env), D \in SUBSET Env,
               k \in Env \cup {NULL}, x \in Env \cup {NULL}, z \in Env \cup {NULL},
               kh \in Env \cup {NULL}, ch \in Env \cup {NULL} : Layout(b, c, D, k, x, z, kh, ch)
        BY DEF Shape
    <2>3. Layout(b, c, D, k, x, z, kh, ch)'
        BY <2>1, <2>2, SameLayout
    <2> QED
        BY <2>1, <2>3, ShapeFrom DEF Shape
<1> QED
    BY <1>1, <1>2, <1>3 DEF RTXNext

-----------------------------------------------------------------------------
(* The beginning: the CCI asks for its two envelopes.                      *)

(* The CCI has not begun its loop yet, nothing has been sent, and a line   *)
(* that is typed finds no request.                                         *)
Boot ==
    /\ pc[CCI] \in {"env", "first"}
    /\ envs = IF pc[CCI] = "env" THEN InitEnvs ELSE env_DEQ(InitEnvs, envelope_q)
    /\ env[CCI] = IF pc[CCI] = "env" THEN NULL ELSE 1
    /\ \A i \in 1 .. Len(frames) : frames[i].pid = 0 /\ frames[i].env = NULL
    /\ pc[A] = "receive" /\ pc[B] = "receive" /\ at[B] # "emptied"
    /\ env[A] = NULL /\ env[B] = NULL
    /\ first = NULL /\ ~ wallClockOut

(* The beginning, ...                                                      *)
LEMMA BootInit == RTXInit => Boot
<1> SUFFICES ASSUME RTXInit
             PROVE  Boot
    OBVIOUS
<1>1. frames = <<>> /\ envs = InitEnvs
    BY DEF RTXInit, Init
<1>2. \A i \in 1 .. Len(frames) : FALSE
    BY <1>1, EmptySeq
<1> QED
    BY <1>1, <1>2, Processes DEF RTXInit, Init, Boot

(* The pool behind the first request and behind the second.                *)
LEMMA FirstTaken ==
    /\ InitEnvs \in Store(Env, EnvQueue) /\ InitEnvs.head[envelope_q] = 1 /\ 1 \in Env
    /\ \A q \in EnvQueue : q # envelope_q => InitEnvs.head[q] = NULL
    /\ env_DEQ(InitEnvs, envelope_q) \in Store(Env, EnvQueue)
    /\ env_DEQ(InitEnvs, envelope_q).head[envelope_q] = IF NUM_ENV = 1 THEN NULL ELSE 2
    /\ env_DEQ(InitEnvs, envelope_q).tail[envelope_q] = IF NUM_ENV = 1 THEN NULL ELSE NUM_ENV
    /\ \A q \in EnvQueue : q # envelope_q => env_DEQ(InitEnvs, envelope_q).head[q] = NULL
    /\ env_DEQ(InitEnvs, envelope_q).p[1] = NULL
    /\ \A e \in Env : e # 1 => env_DEQ(InitEnvs, envelope_q).p[e] = IF e = NUM_ENV THEN NULL ELSE e + 1
<1> DEFINE s == InitEnvs
<1>1. /\ s \in Store(Env, EnvQueue) /\ 1 \in Env /\ 1 # NULL /\ NUM_ENV \in Nat \ {0} /\ NUM_ENV # NULL
    BY InitEnvsGood, SizeAssumption, NullAssumption DEF Env
<1>2. /\ s.head[envelope_q] = 1 /\ s.tail[envelope_q] = NUM_ENV
      /\ \A q \in EnvQueue : q # envelope_q => s.head[q] = NULL
      /\ \A e \in Env : s.p[e] = IF e = NUM_ENV THEN NULL ELSE e + 1
    BY Queues DEF InitEnvs
<1> HIDE DEF s
<1>3. /\ env_DEQ(s, envelope_q) \in Store(Env, EnvQueue)
      /\ env_DEQ(s, envelope_q).p[1] = NULL
      /\ \A n \in Env : n # 1 => env_DEQ(s, envelope_q).p[n] = s.p[n]
      /\ env_DEQ(s, envelope_q).head[envelope_q] = s.p[1]
      /\ \A r \in EnvQueue : r # envelope_q => env_DEQ(s, envelope_q).head[r] = s.head[r]
      /\ env_DEQ(s, envelope_q).tail[envelope_q] = IF s.p[1] = NULL THEN NULL ELSE s.tail[envelope_q]
    BY <1>1, <1>2, Queues, AfterDEQ
<1>4. s.p[1] = IF NUM_ENV = 1 THEN NULL ELSE 2
    BY <1>1, <1>2
<1>5. 2 # NULL
    BY NullAssumption
<1> QED
    BY <1>1, <1>2, <1>3, <1>4, <1>5 DEF s

(* ... the two envelopes the CCI asks for first, ...                       *)
LEMMA SecondTaken ==
    ASSUME NUM_ENV # 1, NEW s, s = env_DEQ(env_DEQ(InitEnvs, envelope_q), envelope_q)
    PROVE  /\ s \in Store(Env, EnvQueue) /\ 2 \in Env
           /\ s.head[envelope_q] = IF NUM_ENV = 2 THEN NULL ELSE 3
           /\ NUM_ENV # 2 => s.tail[envelope_q] = NUM_ENV
           /\ \A q \in EnvQueue : q # envelope_q => s.head[q] = NULL
           /\ s.p[1] = NULL /\ s.p[2] = NULL
           /\ \A e \in Env : e \notin {1, 2} => s.p[e] = IF e = NUM_ENV THEN NULL ELSE e + 1
<1> DEFINE t == env_DEQ(InitEnvs, envelope_q)
<1>1. /\ t \in Store(Env, EnvQueue) /\ t.head[envelope_q] = 2 /\ t.tail[envelope_q] = NUM_ENV
      /\ \A q \in EnvQueue : q # envelope_q => t.head[q] = NULL
      /\ t.p[1] = NULL
      /\ \A e \in Env : e # 1 => t.p[e] = IF e = NUM_ENV THEN NULL ELSE e + 1
    BY FirstTaken
<1>2. 2 # NULL /\ 3 # NULL /\ 1 \in Env /\ 2 \in Env /\ NUM_ENV # NULL
    BY SizeAssumption, NullAssumption DEF Env
<1>3. t.p[2] = IF NUM_ENV = 2 THEN NULL ELSE 3
    BY <1>1, <1>2
<1> HIDE DEF t
<1>4. /\ env_DEQ(t, envelope_q) \in Store(Env, EnvQueue)
      /\ env_DEQ(t, envelope_q).p[2] = NULL
      /\ \A n \in Env : n # 2 => env_DEQ(t, envelope_q).p[n] = t.p[n]
      /\ env_DEQ(t, envelope_q).head[envelope_q] = t.p[2]
      /\ \A r \in EnvQueue : r # envelope_q => env_DEQ(t, envelope_q).head[r] = t.head[r]
      /\ env_DEQ(t, envelope_q).tail[envelope_q] = IF t.p[2] = NULL THEN NULL ELSE t.tail[envelope_q]
    BY <1>1, <1>2, Queues, AfterDEQ
<1>5. s = env_DEQ(t, envelope_q)
    BY DEF t
<1> QED
    BY <1>1, <1>2, <1>3, <1>4, <1>5

(* The rest of the pool when the CCI has the two envelopes it begins with. *)
LEMMA ThreadsBegin ==
    ASSUME NUM_ENV # 1, NEW s, s = env_DEQ(env_DEQ(InitEnvs, envelope_q), envelope_q)
    PROVE  \E b \in Seq(Env) : Len(b) = NUM_ENV - 2 /\ Threads(s, b, <<>>, {}, 1, NULL, NULL, 2)
<1> DEFINE b == [i \in 1 .. NUM_ENV - 2 |-> i + 2]
<1>1. /\ NUM_ENV - 2 \in Nat /\ Env = 1 .. NUM_ENV /\ NUM_ENV \in Nat
      /\ \A n \in Nat : n # NULL
    BY SizeAssumption, NullAssumption DEF Env
<1>2. \A i \in 1 .. NUM_ENV - 2 : i + 2 \in Env /\ i + 2 \notin {1, 2}
    BY <1>1
<1>3. b \in Seq(Env) /\ Len(b) = NUM_ENV - 2
    BY <1>1, <1>2
<1>4. \A i \in 1 .. Len(b) : b[i] = i + 2 /\ b[i] # NULL /\ b[i] \in Env
    BY <1>1, <1>2, <1>3
<1>5. b = <<>> <=> NUM_ENV = 2
    BY <1>1, <1>3, EnvSeq
<1> HIDE DEF b
<1>6. /\ s \in Store(Env, EnvQueue) /\ 2 \in Env
      /\ s.head[envelope_q] = IF NUM_ENV = 2 THEN NULL ELSE 3
      /\ NUM_ENV # 2 => s.tail[envelope_q] = NUM_ENV
      /\ \A q \in EnvQueue : q # envelope_q => s.head[q] = NULL
      /\ s.p[1] = NULL /\ s.p[2] = NULL
      /\ \A e \in Env : e \notin {1, 2} => s.p[e] = IF e = NUM_ENV THEN NULL ELSE e + 1
    BY SecondTaken
<1>7. Chained(s.p, b)
    <2>1. SUFFICES ASSUME NEW i \in 1 .. Len(b) - 1
                   PROVE  s.p[b[i]] = b[i + 1]
        BY DEF Chained
    <2>2. i \in 1 .. Len(b) /\ i + 1 \in 1 .. Len(b) /\ i + 2 # NUM_ENV /\ i + 2 \notin {1, 2}
        BY <1>1, <1>3, <2>1
    <2>3. b[i] = i + 2 /\ i + 2 \in Env /\ b[i + 1] = i + 1 + 2
        BY <1>4, <2>2
    <2>4. i + 1 + 2 = i + 2 + 1
        BY <2>2
    <2> QED
        BY <1>6, <2>2, <2>3, <2>4
<1>8. Pool(s, b, NULL)
    <2>1. CASE b = <<>>
        BY <1>5, <1>6, <1>7, <2>1 DEF Pool
    <2>2. CASE b # <<>>
        <3>1. 1 \in 1 .. Len(b) /\ Len(b) \in 1 .. Len(b) /\ NUM_ENV # 2
            BY <1>3, <1>5, <2>2, EnvSeq
        <3>2. b[1] = 3 /\ b[Len(b)] = NUM_ENV /\ NUM_ENV \in Env /\ NUM_ENV \notin {1, 2} /\ 3 # NULL
            BY <1>1, <1>3, <1>4, <3>1
        <3> QED
            BY <1>6, <1>7, <2>2, <3>1, <3>2 DEF Pool
    <2> QED
        BY <2>1, <2>2
<1>9. <<>> \in Seq(Env) /\ Len(<<>>) = 0
    BY EmptySeq
<1>10. Screen(s, <<>>, {}, NULL) /\ Downstream(s, {}) /\ Single(s.p, <<>>, 1, NULL, NULL)
    BY <1>6, <1>9, Queues DEF Screen, Downstream, Single, Chained
<1>11. Separate(b, <<>>, {}, 1, NULL, NULL, 2)
    <2>1. \A i, j \in 1 .. Len(b) : b[i] = b[j] => i = j
        BY <1>1, <1>3, <1>4
    <2>2. \A i \in 1 .. Len(b) : b[i] # NULL /\ b[i] # 1 /\ b[i] # 2
        BY <1>2, <1>3, <1>4
    <2>3. 1 # NULL /\ 2 # NULL
        BY <1>1
    <2> QED
        BY <1>9, <2>1, <2>2, <2>3 DEF Separate
<1>12. Threads(s, b, <<>>, {}, 1, NULL, NULL, 2)
    BY <1>8, <1>10, <1>11 DEF Threads
<1> QED
    BY <1>3, <1>12

(* ... and the state in which it begins its loop: all other envelopes are  *)
(* in the pool, in their order.                                            *)
LEMMA BootBegins ==
    ASSUME RTXInv, Boot, CCIFirst, at'[CCI] = "user", at'[B] # "emptied"
    PROVE  Begun' /\ Shape'
<1>1. /\ pc[CCI] = "first" /\ RequestEnv(CCI) /\ first' = envs.head[envelope_q]
      /\ pc' = [pc EXCEPT ![CCI] = "ask"]
      /\ UNCHANGED <<env, content, hpc, shown, posted>>
    BY DEF CCIFirst, Goto
<1>2. /\ Runs(CCI) /\ UNCHANGED <<frames, sender_id>> /\ envs.head[envelope_q] # NULL
      /\ envs' = env_DEQ(envs, envelope_q)
    BY <1>1, Processes, RequestResult
<1>3. envs = env_DEQ(InitEnvs, envelope_q) /\ env[CCI] = 1
    BY <1>1 DEF Boot
<1>4. NUM_ENV # 1 /\ first' = 2
    BY <1>1, <1>2, <1>3, FirstTaken
<1>5. frames' = <<>> /\ Len(frames') = 0
    BY <1>2, EmptySeq DEF Runs
<1>6. pc'[CCI] = "ask" /\ pc'[A] = "receive" /\ pc'[B] = "receive"
    BY <1>1, Processes, Stocked DEF Boot
<1>7. /\ 2 \in Env /\ \A q \in EnvQueue : q # envelope_q => envs'.head[q] = NULL
      /\ envs'.head[envelope_q] = IF NUM_ENV = 2 THEN NULL ELSE 3
      /\ envs'.p[1] = NULL /\ envs'.p[2] = NULL
      /\ \A e \in Env : e \notin {1, 2} => envs'.p[e] = IF e = NUM_ENV THEN NULL ELSE e + 1
    BY <1>2, <1>3, <1>4, SecondTaken
<1>8. 1 # NULL /\ 2 # NULL /\ 1 \in Env
    BY NullAssumption, SizeAssumption DEF Env
<1>9. Begun'
    <2>1. \A q \in EnvQueue : envs'.head[q] # 2
        BY <1>7, <1>8
    <2>2. \A e \in Env : envs'.p[e] # 2
        <3> SUFFICES ASSUME NEW e \in Env
                     PROVE  envs'.p[e] # 2
            OBVIOUS
        <3>1. e \in Nat /\ (e + 1 = 2 => e = 1)
            BY SizeAssumption DEF Env
        <3> QED
            BY <1>7, <1>8, <3>1
    <2>3. Unlinked(envs', 2)
        BY <2>1, <2>2 DEF Unlinked
    <2>4. \A p \in Client : env'[p] # 2
        BY <1>1, <1>3, <1>8, RTXAssumption DEF Boot
    <2>5. env'[CCI] # NULL
        BY <1>1, <1>3, <1>8
    <2> QED
        BY <1>4, <1>5, <1>6, <1>8, <2>3, <2>4, <2>5 DEF Begun
<1>10. PICK b \in Seq(Env) :
          Len(b) = NUM_ENV - 2 /\ Threads(envs', b, <<>>, {}, 1, NULL, NULL, 2)
    BY <1>2, <1>3, <1>4, ThreadsBegin
<1>11. <<>> \in Seq(Env) /\ Len(<<>>) = 0 /\ {} \in SUBSET Env
    BY EmptySeq
<1>12. Enough(b, 1, NULL)'
    <2>1. One(1) = 1 /\ One(NULL) = 0
        BY <1>8 DEF One
    <2>2. Spent' = Spent /\ Spent \in Nat /\ NUM_ENV \in Nat
        BY <1>1, Stocked DEF Spent
    <2>3. NUM_ENV <= Len(b) + 1 + 0 + 1 + Spent'
        BY <1>10, <2>2
    <2> QED
        BY <2>1, <2>3 DEF Enough
<1>13. Console(<<>>, 1, NULL, NULL, NULL)'
    BY <1>1, <1>3, <1>6, <1>7, <1>8, Queues DEF Console
<1>14. Text(b, <<>>, 1, NULL, NULL, NULL)' /\ Senders(<<>>, {}, NULL, NULL)'
    BY <1>11 DEF Text, Senders
<1>15. Hands(frames', hpc', NULL, NULL, NULL)
    BY <1>5 DEF Hands
<1>16. Others'
    BY <1>6, <1>7, Queues DEF Others
<1>17. Threads(envs', b, <<>>, {}, 1, NULL, NULL, first')
    BY <1>4, <1>10
<1>18. Layout(b, <<>>, {}, 1, NULL, NULL, NULL, NULL)'
    BY <1>12, <1>13, <1>14, <1>15, <1>16, <1>17 DEF Layout
<1>19. NULL \in Env \cup {NULL} /\ 1 \in Env \cup {NULL}
    BY <1>8
<1>20. Shape'
    BY <1>11, <1>18, <1>19, ShapeFrom
<1> QED
    BY <1>9, <1>20

(* A step that changes none of it.                                         *)
LEMMA SameBoot ==
    ASSUME Boot, UNCHANGED <<envs, pc, env, first, frames, wallClockOut>>, at'[B] # "emptied"
    PROVE  Boot'
BY DEF Boot

(* The pool is all there is.                                               *)
LEMMA BootHeads ==
    ASSUME Boot
    PROVE  /\ \A q \in EnvQueue : q # envelope_q => envs.head[q] = NULL
           /\ envs.head[envelope_q] = NULL => NUM_ENV = 1
           /\ pc[CCI] = "env" => envs.head[envelope_q] = 1 /\ 1 # NULL
<1>1. 1 # NULL /\ 2 # NULL
    BY NullAssumption
<1> QED
    BY <1>1, FirstTaken DEF Boot

LEMMA BootProgram ==
    ASSUME RTXInv, Boot, Program, ~ Flooded'
    PROVE  Boot' \/ (Begun' /\ Shape')
<1>1. /\ pc[CCI] \in {"env", "first"} /\ pc[A] = "receive" /\ pc[B] = "receive"
      /\ A # CCI /\ B # CCI
    BY Processes DEF Boot
<1>6. Others
    BY <1>1, BootHeads, Queues DEF Others, Boot
<1>7. at'[B] # "emptied" /\ at[B] # "emptied" /\ at[A] # "emptied"
    <2>1. RTXNext
        BY DEF RTXNext
    <2>2. ~ Flooded
        BY <2>1, FloodedStays
    <2> QED
        BY <1>6, <2>1, <2>2, OutOfB DEF Boot, Flooded
<1>2. CASE Requests(CCI, "env", "first")
    <2>1. /\ pc[CCI] = "env" /\ RequestEnv(CCI) /\ Obtains(CCI, envelope_q, "first")
          /\ UNCHANGED <<first, wallClockOut>>
        BY <1>2 DEF Requests
    <2>2. /\ envs.head[envelope_q] = 1 /\ 1 # NULL /\ envs = InitEnvs
        BY <2>1, BootHeads DEF Boot
    <2>3. UNCHANGED frames /\ at'[CCI] = "user" /\ envs' = env_DEQ(envs, envelope_q)
        BY <2>1, <2>2, Processes, RequestResult
    <2>4. env' = [env EXCEPT ![CCI] = 1] /\ pc' = [pc EXCEPT ![CCI] = "first"]
        BY <2>1, <2>2, <2>3 DEF Obtains, Goto
    <2>5. /\ pc'[CCI] = "first" /\ env'[CCI] = 1 /\ pc'[A] = pc[A] /\ pc'[B] = pc[B]
          /\ env'[A] = env[A] /\ env'[B] = env[B]
        BY <1>1, <2>4, Processes, Stocked
    <2> QED
        BY <1>7, <2>1, <2>2, <2>3, <2>5 DEF Boot
<1>3. CASE CCIFirst
    <2>1. CASE at'[CCI] = "user"
        BY <1>3, <1>7, <2>1, BootBegins
    <2>2. CASE at'[CCI] # "user"
        <3>1. UNCHANGED <<envs, frames>>
            BY <1>3, <2>2, Processes, RequestResult DEF CCIFirst
        <3> QED
            BY <1>3, <1>7, <2>2, <3>1, SameBoot DEF CCIFirst
    <2> QED
        BY <2>1, <2>2
<1>4. CASE CCIStep /\ ~ Requests(CCI, "env", "first") /\ ~ CCIFirst
    BY <1>1, <1>4
       DEF CCIStep, Sends, CCIReceive, Receives, CCIClock, CCIChange, CCIRenew, CCIRelease, Requests, Yields
<1>5. CASE AStep \/ BStep \/ NullStep
    <2>2. UNCHANGED <<envs, pc, env, first, frames>>
        BY <1>5, <1>6, <1>7, OthersRest
    <2>3. UNCHANGED wallClockOut
        BY <1>5
           DEF AStep, BStep, NullStep, Sends, Receives, ADequeue, Requests, Yields, rtx
    <2> QED
        BY <1>7, <2>2, <2>3, SameBoot
<1> QED
    BY <1>2, <1>3, <1>4, <1>5 DEF Program

LEMMA BootHandler ==
    ASSUME RTXInv, Boot, HandlerStep \/ Signal
    PROVE  Boot'
<1>1. /\ frames \in Seq(Frame) /\ curr_process \in PID
      /\ DOMAIN frames = 1 .. Len(frames) /\ Len(frames) \in Nat
      /\ \A i \in 1 .. Len(frames) : frames[i].pid = 0 /\ frames[i].env = NULL
    BY Stocked, EmptySeq DEF RTXInv, KernelInv, TypeOK, Boot
<1>2. ASSUME frames # <<>>
      PROVE  Top.pid = 0 /\ Top.env = NULL
    <2>1. Len(frames) \in 1 .. Len(frames) /\ Top = frames[Len(frames)]
        BY <1>2, TopOf
    <2> QED
        BY <1>1, <2>1
<1>3. envs.head[0] = NULL /\ envs.head[1] = NULL /\ envs.head[2] = NULL
    BY BootHeads, Queues
<1>4. CASE HandlerStep
    <2>1. /\ frames # <<>> /\ frames' = SubSeq(frames, 1, Len(frames) - 1)
          /\ UNCHANGED <<envs, pc, env, first, wallClockOut, at>>
        BY <1>2, <1>4
           DEF HandlerStep, KbdTransfer, KbdDrop, CrtTransfer, CrtDrop, ClockRequest, ClockSend, TimerReceive,
               HandlerReturn, Doing, Return
    <2>2. \A i \in 1 .. Len(frames') : i \in 1 .. Len(frames) /\ frames'[i] = frames[i]
        BY <1>1, <2>1, TopGone
    <2> QED
        BY <1>1, <2>1, <2>2 DEF Boot
<1>5. CASE KbdSignal
    <2> DEFINE f == [ pid |-> 0, interrupted |-> curr_process, env |-> NULL ]
    <2>1. /\ frames' = Append(frames, f) /\ envs' = env_DEQ(envs, 0)
          /\ UNCHANGED <<pc, env, first, wallClockOut, at>>
        BY <1>3, <1>5 DEF KbdSignal, Interrupt
    <2>2. envs' = envs
        BY <1>3, <2>1 DEF env_DEQ
    <2>3. f \in Frame /\ f.pid = 0 /\ f.env = NULL
        BY <1>1, Processes DEF Frame
    <2> HIDE DEF f
    <2>4. /\ Len(frames') = Len(frames) + 1 /\ frames'[Len(frames) + 1] = f
          /\ \A i \in 1 .. Len(frames) : frames'[i] = frames[i]
        BY <1>1, <2>1, <2>3, AppendProperties
    <2>5. \A i \in 1 .. Len(frames') : frames'[i].pid = 0 /\ frames'[i].env = NULL
        <3>1. SUFFICES ASSUME NEW i \in 1 .. Len(frames')
                       PROVE  frames'[i].pid = 0 /\ frames'[i].env = NULL
            OBVIOUS
        <3>2. i \in 1 .. Len(frames) \/ i = Len(frames) + 1
            BY <1>1, <2>4
        <3> QED
            BY <1>1, <2>3, <2>4, <3>2
    <2> QED
        BY <2>1, <2>2, <2>5 DEF Boot
<1>6. CASE CrtSignal \/ TimerSignal
    BY <1>3, <1>6 DEF CrtSignal, TimerSignal, Boot
<1> QED
    BY <1>4, <1>5, <1>6 DEF Signal

(* The inductive invariant.  Until processes A and B come into play or a   *)
(* line is typed ahead, the CCI either has not begun its loop yet, or goes *)
(* on with an envelope first to spare, until all but two envelopes are     *)
(* spent, in a state that has the shape above.                             *)
BudgetInv == Excused \/ Boot \/ (Begun /\ (Spent >= NUM_ENV - 2 \/ Shape))

(* Once begun, the CCI keeps the envelope it never uses.                   *)
LEMMA BegunStays ==
    ASSUME RTXInv, Begun, [RTXNext]_all
    PROVE  Begun'
<1>1. CASE Program
    BY <1>1, BegunProgram
<1>2. CASE HandlerStep \/ Signal
    BY <1>2, BegunHandler
<1>3. CASE SendsNowhere \/ (\E c \in Commands : Type(c)) \/ UNCHANGED all
    BY <1>3, Unsent, BegunPcOnly DEF PcOnly, Type, all, vars, rtx
<1> QED
    BY <1>1, <1>2, <1>3 DEF RTXNext

(* Nothing spent comes back.                                               *)
LEMMA SpentStays ==
    ASSUME RTXInv, [RTXNext]_all, Spent >= NUM_ENV - 2
    PROVE  Spent' >= NUM_ENV - 2
<1>1. Spent' >= Spent /\ Spent \in Nat /\ NUM_ENV \in Nat
    BY HistoryGrows, Stocked
<1>2. RTXInv'
    BY NextRTXInv
<1>3. posted' \in [{"s", "print"} -> Nat] /\ shown' \in Nat
    BY <1>2 DEF RTXInv, Programs, Stack
<1>4. Spent' \in Nat
    BY <1>3 DEF Spent
<1> QED
    BY <1>1, <1>4

LEMMA NextBudgetInv ==
    ASSUME RTXInv, Nested, BudgetInv, [RTXNext]_all
    PROVE  BudgetInv'
<1>1. SUFFICES ASSUME ~ Excused'
               PROVE  Boot' \/ (Begun' /\ (Spent' >= NUM_ENV - 2 \/ Shape'))
    BY DEF BudgetInv
<1>2. ~ Excused /\ ~ Flooded'
    BY <1>1, ExcusedStays DEF Excused
<1>3. CASE Boot
    <2>1. CASE Program
        BY <1>2, <1>3, <2>1, BootProgram
    <2>2. CASE HandlerStep \/ Signal
        BY <1>3, <2>2, BootHandler
    <2>3. CASE SendsNowhere \/ (\E c \in Commands : Type(c)) \/ UNCHANGED all
        <3>1. UNCHANGED <<envs, pc, env, first, frames, wallClockOut, at>>
            BY <2>3, Unsent DEF Type, all, vars, rtx
        <3> QED
            BY <1>3, <3>1, SameBoot DEF Boot
    <2> QED
        BY <2>1, <2>2, <2>3 DEF RTXNext
<1>4. CASE Begun /\ (Spent >= NUM_ENV - 2 \/ Shape)
    <2>1. Begun'
        BY <1>4, BegunStays
    <2>2. CASE Spent >= NUM_ENV - 2
        BY <2>1, <2>2, SpentStays
    <2>3. CASE Shape /\ Spent < NUM_ENV - 2
        BY <1>1, <1>4, <2>1, <2>3, ShapeStays
    <2>4. Spent \in Nat /\ NUM_ENV \in Nat
        BY Stocked
    <2> QED
        BY <1>4, <2>2, <2>3, <2>4
<1> QED
    BY <1>2, <1>3, <1>4 DEF BudgetInv

(* The invariant holds from the beginning.                                 *)
LEMMA NestedInit == RTXInit => Nested
<1> SUFFICES ASSUME RTXInit
             PROVE  Nested
    OBVIOUS
<1>1. frames = <<>> /\ Len(frames) = 0
    BY EmptySeq DEF RTXInit, Init
<1> QED
    BY <1>1 DEF Nested

(* What the next three theorems rest on.                                   *)
THEOREM BudgetInvariant == RTXSpec => []BudgetInv
<1>1. RTXInit => Nested /\ BudgetInv
    BY NestedInit, BootInit DEF BudgetInv
<1>2. RTXInv /\ Nested /\ BudgetInv /\ [RTXNext]_all => Nested' /\ BudgetInv'
    BY NestedNext, NextBudgetInv
<1> QED
    BY <1>1, <1>2, RTXInvariant, PTL DEF RTXSpec

-----------------------------------------------------------------------------
(* The pool lasts.                                                         *)

(* With an empty pool, and no second in the hands of the timer, all        *)
(* envelopes but the two of the CCI are spent.                             *)
LEMMA PoolEmpty ==
    ASSUME RTXInv, BudgetInv, envs.head[envelope_q] = NULL,
           frames = <<>> \/ Doing(2, "clock_out")
    PROVE  Excused \/ Spent >= NUM_ENV - 2
<1>1. Spent \in Nat /\ NUM_ENV \in Nat /\ envs \in Store(Env, EnvQueue)
    BY Stocked
<1>2. CASE Boot
    BY <1>1, <1>2, BootHeads
<1>3. CASE Shape
    <2>1. PICK b \in Seq(Env), c \in Seq(Env), D \in SUBSET Env,
               k \in Env \cup {NULL}, x \in Env \cup {NULL}, z \in Env \cup {NULL},
               kh \in Env \cup {NULL}, ch \in Env \cup {NULL} : Layout(b, c, D, k, x, z, kh, ch)
        BY <1>3 DEF Shape
    <2>2. z = NULL
        <3>1. CASE frames = <<>>
            BY <2>1, <3>1, HandsFree DEF Layout
        <3>2. CASE Doing(2, "clock_out")
            <4>1. frames # <<>> /\ Top.pid = 2 /\ hpc[Len(hpc)] = "clock_out"
                BY <3>2 DEF Doing
            <4>2. SUFFICES ASSUME z # NULL
                           PROVE  FALSE
                OBVIOUS
            <4>3. PICK i \in 1 .. Len(frames) : hpc[i] = "display"
                BY <2>1, <4>2 DEF Layout, Hands
            <4>4. frames[i].pid = 2
                BY <4>3, Stocked
            <4>5. i = Len(hpc)
                BY <4>1, <4>4, TopOf
            <4> QED
                BY <4>1, <4>3, <4>5
        <3> QED
            BY <3>1, <3>2
    <2>3. Pool(envs, b, x)
        BY <2>1, <2>2 DEF Layout, Threads
    <2>4. Len(b) = 0
        BY <2>3, EnvSeq DEF Pool
    <2>5. NUM_ENV <= 0 + One(k) + 0 + 1 + Spent /\ One(k) \in {0, 1}
        BY <2>1, <2>2, <2>4 DEF Layout, Enough, One
    <2> QED
        BY <1>1, <2>5
<1> QED
    BY <1>2, <1>3 DEF BudgetInv

(* A step of a program that neither takes an envelope or a message nor     *)
(* gives the processor up wakes at most one process.                       *)
Rouses == state' = state \/ \E d \in User : state' = [state EXCEPT ![d] = "READY"]

(* The calls of the programs that may block, and the others.               *)
LEMMA ProgramCalls ==
    ASSUME RTXInv, Program
    PROVE  \/ \E p \in Client : RequestEnv(p)
           \/ \E p \in Client : ReceiveMessage(p) \/ ResumeReceive(p)
           \/ \E p \in User : ReleaseProcessor(p)
           \/ UNCHANGED fault /\ Rouses
<1>1. /\ Client \subseteq User /\ NullProcs \subseteq User /\ CCI \in Client /\ A \in Client /\ B \in Client
      /\ pcbs \in Store(User, PcbQueue) /\ blocked_on_envelope \in PcbQueue
    BY Processes, Domains DEF RTXInv, KernelInv, TypeOK
<1>2. ASSUME NEW p \in Client, NEW here, NEW next, Requests(p, here, next)
      PROVE  \E r \in Client : RequestEnv(r)
    BY <1>2 DEF Requests
<1>3. ASSUME NEW p \in Client, NEW next, Receives(p, next)
      PROVE  (\E r \in Client : ReceiveMessage(r) \/ ResumeReceive(r)) \/ (UNCHANGED fault /\ Rouses)
    BY <1>3 DEF Receives, StoreHead, StoreTail, Rouses
<1>4. ASSUME NEW p \in Client, NEW next, Yields(p, next)
      PROVE  \E r \in User : ReleaseProcessor(r)
    BY <1>1, <1>4 DEF Yields
<1>5. ASSUME NEW p \in Client, NEW here, NEW dest_id, NEW next, Sends(p, here, dest_id, next)
      PROVE  UNCHANGED fault /\ Rouses
    BY <1>5 DEF Sends, SendMessage, k_send_message, Rouses
<1>6. CASE CCIStep
    <2>1. CASE CCIFirst \/ \E c \in {"s", "print"}, next \in {"start", "print"} : CCIRenew(c, next)
        BY <1>1, <2>1 DEF CCIFirst, CCIRenew
    <2>2. CASE CCIReceive
        BY <1>1, <1>3, <2>2 DEF CCIReceive
    <2>3. CASE CCIClock \/ CCIChange
        BY <2>3 DEF CCIClock, CCIChange, ChangePriority, vars, Rouses
    <2>4. CASE CCIRelease
        <3>1. k_release_msg_env(env[CCI]) /\ UNCHANGED fault
            BY <2>4 DEF CCIRelease
        <3>2. pcbs.head[blocked_on_envelope] \in User \cup {NULL}
            BY <1>1 DEF Store
        <3> QED
            BY <3>1, <3>2 DEF k_release_msg_env, Rouses
    <2> QED
        BY <1>1, <1>2, <1>4, <1>5, <1>6, <2>1, <2>2, <2>3, <2>4 DEF CCIStep
<1>7. CASE AStep
    <2>1. ADequeue => UNCHANGED fault /\ Rouses
        BY DEF ADequeue, StoreHead, StoreTail, Rouses
    <2> QED
        BY <1>1, <1>2, <1>3, <1>4, <1>5, <1>7, <2>1 DEF AStep
<1>8. CASE BStep
    BY <1>1, <1>3, <1>4, <1>5, <1>8 DEF BStep
<1>9. CASE NullStep
    <2>1. PICK p \in NullProcs : NullDrain(p) \/ ReleaseProcessor(p)
        BY <1>9 DEF NullStep
    <2>2. NullDrain(p) => UNCHANGED fault /\ Rouses
        BY DEF NullDrain, Rouses
    <2> QED
        BY <1>1, <2>1, <2>2
<1> QED
    BY <1>6, <1>7, <1>8, <1>9 DEF Program

(* Only a request with an empty pool makes the CCI wait for an envelope,   *)
(* and no program stops the timer.                                         *)
LEMMA ProgramWaits ==
    ASSUME RTXInv, Program
    PROVE  /\ fault' = "iproc_blocked" => fault = "iproc_blocked"
           /\ state'[CCI] = "BLK_ON_ENV" =>
                 state[CCI] = "BLK_ON_ENV" \/ (frames = <<>> /\ envs.head[envelope_q] = NULL)
<1> DEFINE Goal == /\ fault' = "iproc_blocked" => fault = "iproc_blocked"
                   /\ state'[CCI] = "BLK_ON_ENV" =>
                         state[CCI] = "BLK_ON_ENV" \/ (frames = <<>> /\ envs.head[envelope_q] = NULL)
<1>1. /\ CCI \in User /\ Client \subseteq User /\ state \in [User -> States]
      /\ pcbs \in Store(User, PcbQueue) /\ priority \in [User -> Level]
      /\ Level \subseteq PcbQueue /\ blocked_on_envelope \in PcbQueue
    BY Processes, Domains DEF RTXInv, KernelInv, TypeOK, States
<1>2. \A p \in User, q \in PcbQueue : /\ PCB_ENQ(pcbs, q, p) \in Store(User, PcbQueue)
                                      /\ PCB_DEQ(pcbs, q) \in Store(User, PcbQueue)
    BY <1>1, Domains, ENQType, DEQType
<1>3. "BLK_ON_ENV" \in States /\ "BLK_ON_RCV" \in States /\ "READY" \in States /\ "READY" \in Alive
    BY DEF States, Alive
<1>4. ASSUME NEW p \in User, Runs(p), UNCHANGED frames, NEW v \in States,
             NEW q \in Store(User, PcbQueue), NEW resume, NEW otherwise,
             otherwise # "iproc_blocked", otherwise = "none" => v \in Alive,
             process_switch([state EXCEPT ![p] = v], q, resume, otherwise)
      PROVE  /\ fault' = "iproc_blocked" => fault = "iproc_blocked"
             /\ state'[CCI] = "BLK_ON_ENV" => IF p = CCI THEN v = "BLK_ON_ENV" ELSE state[CCI] = "BLK_ON_ENV"
    <2> DEFINE st == [state EXCEPT ![p] = v]
    <2>1. st \in [User -> States] /\ st[p] = v /\ (p # CCI => st[CCI] = state[CCI])
        BY <1>1, <1>4
    <2>2. frames = <<>> /\ frames' = <<>> /\ curr_process = p
        BY <1>4 DEF Runs
    <2>3. process_switch(st, q, resume, otherwise)
        BY <1>4
    <2> HIDE DEF st
    <2>4. \A r \in User, w \in {"BLK_ON_RCV", "BLK_ON_ENV"} : state'[r] = w => st[r] = w
        BY <1>4, <2>1, <2>2, <2>3, SwitchAwake
    <2>5. fault' = otherwise \/ fault' = fault
        BY <2>3 DEF process_switch
    <2> QED
        BY <1>1, <1>4, <2>1, <2>4, <2>5
<1>5. ASSUME NEW p \in Client, RequestEnv(p)
      PROVE  Goal
    <2>1. Runs(p) /\ UNCHANGED frames /\ p \in User
        BY <1>1, <1>5 DEF RequestEnv
    <2>2. CASE envs.head[envelope_q] # NULL
        BY <1>5, <2>2 DEF RequestEnv
    <2>3. CASE envs.head[envelope_q] = NULL
        <3>1. process_switch([state EXCEPT ![p] = "BLK_ON_ENV"],
                             PCB_ENQ(pcbs, blocked_on_envelope, p), "request", "spin")
            BY <1>5, <2>3 DEF RequestEnv
        <3>2. fault' = "iproc_blocked" => fault = "iproc_blocked"
            BY <1>1, <1>2, <1>3, <1>4, <2>1, <3>1
        <3>3. frames = <<>>
            BY <2>1 DEF Runs
        <3> QED
            BY <2>3, <3>2, <3>3
    <2> QED
        BY <2>2, <2>3
<1>6. ASSUME NEW p \in Client, ReceiveMessage(p) \/ ResumeReceive(p)
      PROVE  Goal
    <2>1. Runs(p) /\ UNCHANGED frames /\ p \in User /\ priority[p] \in PcbQueue
        BY <1>1, <1>6 DEF ReceiveMessage, ResumeReceive
    <2>2. CASE ReceiveMessage(p) /\ envs.head[p] = NULL
        <3>1. process_switch([state EXCEPT ![p] = "BLK_ON_RCV"],
                             PCB_DEQ(pcbs, priority[p]), "receive", "null_env")
            BY <2>2 DEF ReceiveMessage
        <3>2. PCB_DEQ(pcbs, priority[p]) \in Store(User, PcbQueue)
            BY <1>2, <2>1
        <3> QED
            BY <1>3, <1>4, <2>1, <3>1, <3>2
    <2>3. CASE ~ (ReceiveMessage(p) /\ envs.head[p] = NULL)
        BY <1>6, <2>3 DEF ReceiveMessage, ResumeReceive, TakeMessage
    <2> QED
        BY <2>2, <2>3
<1>7. ASSUME NEW p \in User, ReleaseProcessor(p)
      PROVE  Goal
    <2>1. /\ Runs(p) /\ UNCHANGED frames /\ priority[p] \in PcbQueue
          /\ process_switch([state EXCEPT ![p] = "READY"], PCB_ENQ(pcbs, priority[p], p), "user", "none")
        BY <1>1, <1>7 DEF ReleaseProcessor
    <2>2. PCB_ENQ(pcbs, priority[p], p) \in Store(User, PcbQueue)
        BY <1>2, <2>1
    <2> QED
        BY <1>3, <1>4, <2>1, <2>2
<1>8. CASE UNCHANGED fault /\ Rouses
    BY <1>1, <1>8 DEF Rouses
<1> QED
    BY <1>5, <1>6, <1>7, <1>8, ProgramCalls

(* The CCI and the timer find the pool empty only if all but two are       *)
(* spent.                                                                  *)
LEMMA NextPoolLasts ==
    ASSUME RTXInv, BudgetInv, PoolLasts, [RTXNext]_all
    PROVE  PoolLasts'
<1>1. CCI \in User /\ state \in [User -> States]
    BY Processes DEF RTXInv, KernelInv, TypeOK, States
<1>2. SUFFICES ASSUME fault' = "iproc_blocked" \/ state'[CCI] = "BLK_ON_ENV"
               PROVE  Excused' \/ Spent' >= NUM_ENV - 2
    BY DEF PoolLasts
<1>3. Excused \/ Spent >= NUM_ENV - 2
    <2>1. CASE fault = "iproc_blocked" \/ state[CCI] = "BLK_ON_ENV"
        BY <2>1 DEF PoolLasts
    <2>2. CASE ~ (fault = "iproc_blocked" \/ state[CCI] = "BLK_ON_ENV")
        <3>1. CASE Program
            BY <1>2, <2>2, <3>1, ProgramWaits, PoolEmpty
        <3>2. CASE ClockRequest
            <4>1. envs.head[envelope_q] = NULL /\ Doing(2, "clock_out")
                BY <1>2, <2>2, <3>2 DEF ClockRequest
            <4> QED
                BY <4>1, PoolEmpty
        <3>3. CASE HandlerStep /\ ~ ClockRequest
            <4>1. UNCHANGED fault /\ Rouses
                BY <3>3 DEF HandlerStep, KbdTransfer, CrtTransfer, KbdDrop, CrtDrop, HandlerReturn, ClockSend,
                            TimerReceive, Reply, Return, k_send_message, Rouses
            <4> QED
                BY <1>1, <1>2, <2>2, <4>1 DEF Rouses
        <3>4. CASE Signal \/ (\E c \in Commands : Type(c)) \/ UNCHANGED all
            <4>1. UNCHANGED <<fault, state>>
                BY <3>4 DEF Signal, KbdSignal, CrtSignal, TimerSignal, Interrupt, Type, all, vars
            <4> QED
                BY <1>2, <2>2, <4>1
        <3>5. CASE SendsNowhere
            BY <1>2, <2>2, <3>5, Unsent
        <3> QED
            BY <3>1, <3>2, <3>3, <3>4, <3>5 DEF RTXNext
    <2> QED
        BY <2>1, <2>2
<1>4. CASE Excused
    BY <1>4, ExcusedStays
<1>5. CASE Spent >= NUM_ENV - 2
    BY <1>5, SpentStays
<1> QED
    BY <1>3, <1>4, <1>5

(* The pool is not empty when the timer or the CCI needs an envelope, for  *)
(* any number of envelopes, lines and seconds, unless all but the two of   *)
(* the CCI are spent, a line is typed ahead or process A comes into play.  *)
THEOREM RTXPoolLasts == RTXSpec => []PoolLasts
<1>1. RTXInit => PoolLasts
    BY Processes DEF RTXInit, Init, PoolLasts
<1>2. RTXInv /\ BudgetInv /\ PoolLasts /\ [RTXNext]_all => PoolLasts'
    BY NextPoolLasts
<1> QED
    BY <1>1, <1>2, RTXInvariant, BudgetInvariant, PTL DEF RTXSpec

-----------------------------------------------------------------------------
(* The console and the count of the envelopes.                             *)

(* The head of a queue is on it.                                           *)
LEMMA HeadOn ==
    ASSUME NEW s \in Store(Env, EnvQueue), NEW q \in EnvQueue, s.head[q] # NULL
    PROVE  s.head[q] \in On(s, q)
BY DEF Store, On, From

(* While the CCI is blocked on receive its program has begun, its queue is *)
(* empty, and so its envelope is at the keyboard.                          *)
LEMMA ConsoleWaits ==
    ASSUME RTXInv, Awake, BudgetInv
    PROVE  ConsoleHasRequest
<1>1. SUFFICES ASSUME state[CCI] = "BLK_ON_RCV", ~ Excused, Spent < NUM_ENV - 2
               PROVE  \/ \E e \in On(envs, 0) : sender_id[e] = CCI
                      \/ \E i \in DOMAIN frames : frames[i].pid = 0 /\ frames[i].env # NULL
    BY DEF ConsoleHasRequest
<1>2. pc[CCI] = "receive" /\ envs.head[CCI] = NULL /\ at[CCI] # "emptied"
    BY <1>1, Processes DEF Awake, RTXInv, KernelInv, BlockedHasNoMail
<1>3. Spent \in Nat /\ NUM_ENV \in Nat /\ envs \in Store(Env, EnvQueue)
    BY Stocked
<1>4. Shape
    BY <1>1, <1>2, <1>3 DEF BudgetInv, Boot
<1>5. PICK b \in Seq(Env), c \in Seq(Env), D \in SUBSET Env,
           k \in Env \cup {NULL}, x \in Env \cup {NULL}, z \in Env \cup {NULL},
           kh \in Env \cup {NULL}, ch \in Env \cup {NULL} : Layout(b, c, D, k, x, z, kh, ch)
    BY <1>4 DEF Shape
<1>6. /\ k # NULL
      /\ (envs.head[0] = k /\ sender_id[k] = CCI) \/ kh = k
    BY <1>2, <1>5 DEF Layout, Console
<1>7. CASE envs.head[0] = k /\ sender_id[k] = CCI
    <2>1. k \in On(envs, 0)
        BY <1>3, <1>6, <1>7, Queues, HeadOn
    <2> QED
        BY <1>7, <2>1
<1>8. CASE kh = k
    <2>1. PICK i \in 1 .. Len(frames) : frames[i].pid = 0
        BY <1>5, <1>6, <1>8 DEF Layout, Hands
    <2>2. frames[i].env = kh
        BY <1>5, <2>1 DEF Layout, Hands
    <2>3. DOMAIN frames = 1 .. Len(frames)
        BY Stocked
    <2> QED
        BY <1>6, <1>8, <2>1, <2>2, <2>3
<1> QED
    BY <1>6, <1>7, <1>8

(* The console is never deaf: while the CCI waits for a line, a request of *)
(* its is at the keyboard or in the hands of kbd_iproc, for any number of  *)
(* envelopes, lines and seconds, unless all envelopes but two are spent, a *)
(* line is typed ahead or process A comes into play.                       *)
THEOREM RTXConsoleHasRequest == RTXSpec => []ConsoleHasRequest
<1>1. RTXInit => Awake
    <2>1. SUFFICES ASSUME RTXInit
                   PROVE  Awake
        OBVIOUS
    <2>2. /\ frames = <<>> /\ curr_process = CCI /\ CCI \in User
          /\ state = [p \in User |-> IF p = CCI THEN "RUNNING" ELSE "READY"]
        BY <2>1, Processes DEF RTXInit, Init, CCI
    <2>3. state[CCI] = "RUNNING" /\ Interrupted = CCI
        BY <2>2 DEF Interrupted
    <2> QED
        BY <2>3 DEF Awake, Alive
<1>2. RTXInv /\ Awake /\ [RTXNext]_all => Awake'
    BY AwakeNext
<1>3. RTXInv /\ Awake /\ BudgetInv => ConsoleHasRequest
    BY ConsoleWaits
<1> QED
    BY <1>1, <1>2, <1>3, RTXInvariant, BudgetInvariant, PTL DEF RTXSpec

-----------------------------------------------------------------------------
(* Counting the envelopes something points to.                             *)
LEMMA CountSeq ==
    ASSUME NEW b \in Seq(Env), \A i, j \in 1 .. Len(b) : b[i] = b[j] => i = j
    PROVE  /\ IsFiniteSet({ b[i] : i \in 1 .. Len(b) })
           /\ Cardinality({ b[i] : i \in 1 .. Len(b) }) = Len(b)
<1> DEFINE S == { b[i] : i \in 1 .. Len(b) }
           f == [i \in 1 .. Len(b) |-> b[i]]
<1>1. f \in Bijection(1 .. Len(b), S)
    BY DEF Bijection, Injection, Surjection, IsInjective
<1>2. ExistsBijection(1 .. Len(b), S) /\ Len(b) \in Nat
    BY <1>1, EnvSeq DEF ExistsBijection
<1> HIDE DEF S
<1>3. Cardinality(S) = Len(b)
    BY <1>2, FS_CountingElements
<1>4. IsFiniteSet(S)
    BY <1>2, FS_NatBijection
<1> QED
    BY <1>3, <1>4 DEF S

(* Sets of envelopes, counted.                                             *)
More(S, e) == IF e = NULL THEN S ELSE S \cup {e}

LEMMA CountMore ==
    ASSUME NEW S, IsFiniteSet(S), NEW e, e \notin S, NEW n \in Nat, Cardinality(S) = n
    PROVE  IsFiniteSet(More(S, e)) /\ Cardinality(More(S, e)) = n + One(e)
<1>1. CASE e = NULL
    <2>1. More(S, e) = S
        BY <1>1 DEF More
    <2>2. IsFiniteSet(More(S, e)) /\ Cardinality(More(S, e)) = n
        BY <2>1, Zenon
    <2>3. One(e) = 0
        BY <1>1 DEF One
    <2> QED
        BY <2>2, <2>3
<1>2. CASE e # NULL
    <2>1. More(S, e) = S \cup {e}
        BY <1>2 DEF More
    <2>2. IsFiniteSet(S \cup {e}) /\ Cardinality(S \cup {e}) = n + 1
        BY FS_AddElement
    <2>3. IsFiniteSet(More(S, e)) /\ Cardinality(More(S, e)) = n + 1
        BY <2>1, <2>2, Zenon
    <2>4. One(e) = 1
        BY <1>2 DEF One
    <2> QED
        BY <2>3, <2>4
<1> QED
    BY <1>1, <1>2

LEMMA EnvCount == IsFiniteSet(Env) /\ Cardinality(Env) = NUM_ENV
<1>1. 1 \in Int /\ NUM_ENV \in Int /\ NUM_ENV >= 1
    BY SizeAssumption
<1> QED
    BY <1>1, FS_Interval DEF Env

(* The envelopes that are not spent: the pool, the envelope of the         *)
(* console, that of a second to display, and the one the CCI never uses.   *)
LEMMA CountKnown ==
    ASSUME NEW b \in Seq(Env), \A i, j \in 1 .. Len(b) : b[i] = b[j] => i = j,
           NEW k \in Env \cup {NULL}, NEW z \in Env \cup {NULL}, NEW w \in Env,
           \A i \in 1 .. Len(b) : b[i] \notin {k, z, w},
           k # w, z # w, k # NULL => k # z,
           NEW R, \A i \in 1 .. Len(b) : b[i] \in R, w \in R,
           k # NULL => k \in R, z # NULL => z \in R
    PROVE  /\ Cardinality(Env \ R) \in Nat
           /\ Cardinality(Env \ R) <= NUM_ENV - (Len(b) + One(k) + One(z) + 1)
<1> DEFINE S0 == { b[i] : i \in 1 .. Len(b) }
           S1 == S0 \cup {w}
           S2 == More(S1, k)
           S3 == More(S2, z)
<1>0. Len(b) \in Nat /\ Len(b) + 1 \in Nat /\ Len(b) + 1 + One(k) \in Nat
    BY EnvSeq DEF One
<1>1. IsFiniteSet(S0) /\ Cardinality(S0) = Len(b) /\ Len(b) \in Nat
    BY CountSeq, EnvSeq
<1>2. IsFiniteSet(S1) /\ Cardinality(S1) = Len(b) + 1
    <2>1. w \notin S0
        OBVIOUS
    <2> HIDE DEF S0
    <2> QED
        BY <1>1, <2>1, FS_AddElement
<1>3. IsFiniteSet(S2) /\ Cardinality(S2) = Len(b) + 1 + One(k)
    <2>1. k \notin S1
        OBVIOUS
    <2> HIDE DEF S1
    <2> QED
        BY <1>0, <1>2, <2>1, CountMore
<1>4. IsFiniteSet(S3) /\ Cardinality(S3) = Len(b) + 1 + One(k) + One(z)
    <2>1. z \notin S2
        <3>1. z \notin S1
            OBVIOUS
        <3> HIDE DEF S1
        <3> QED
            BY <3>1 DEF More
    <2> HIDE DEF S2
    <2> QED
        BY <1>0, <1>3, <2>1, CountMore
<1>5. S3 \subseteq Env /\ S3 \subseteq R
    BY EnvSeq DEF More
<1> HIDE DEF S3, S2, S1, S0
<1>6. IsFiniteSet(Env \ S3) /\ Cardinality(Env \ S3) = NUM_ENV - Cardinality(S3)
    <2>1. Env \cap S3 = S3
        BY <1>5
    <2>2. /\ IsFiniteSet(Env \ S3)
          /\ Cardinality(Env \ S3) = Cardinality(Env) - Cardinality(Env \cap S3)
        BY EnvCount, FS_Difference
    <2> QED
        BY <2>1, <2>2, EnvCount
<1>7. Env \ R \in SUBSET (Env \ S3)
    BY <1>5
<1>8. IsFiniteSet(Env \ R) /\ Cardinality(Env \ R) <= Cardinality(Env \ S3)
    BY <1>6, <1>7, FS_Subset
<1>9. Cardinality(Env \ R) \in Nat /\ Cardinality(Env \ S3) \in Nat
    BY <1>6, <1>8, FS_CardinalityType
<1>10. One(k) \in Nat /\ One(z) \in Nat /\ NUM_ENV \in Nat
    BY SizeAssumption DEF One
<1> QED
    BY <1>1, <1>4, <1>6, <1>8, <1>9, <1>10

(* What Referenced contains.                                               *)
LEMMA Points ==
    /\ \A q \in EnvQueue : \A e \in On(envs, q) : e \in Referenced
    /\ \A p \in Client : env[p] \in Referenced
    /\ first \in Referenced
    /\ \A i \in DOMAIN frames : frames[i].env \in Referenced
<1> DEFINE Q == UNION { On(envs, q) : q \in EnvQueue }
           P == { env[p] : p \in Client }
           F == { frames[k].env : k \in DOMAIN frames }
<1>1. /\ \A q \in EnvQueue : \A e \in On(envs, q) : e \in Q
      /\ \A p \in Client : env[p] \in P
      /\ \A i \in DOMAIN frames : frames[i].env \in F
    OBVIOUS
<1>2. Referenced = Q \cup P \cup {first} \cup F
    BY DEF Referenced
<1> HIDE DEF Q, P, F
<1> QED
    BY <1>1, <1>2

(* All envelopes are referred to before the CCI begins its loop, ...       *)
LEMMA BootReferenced ==
    ASSUME RTXInv, Boot
    PROVE  Env \subseteq Referenced
<1>1. SUFFICES ASSUME NEW e \in Env
               PROVE  e \in Referenced
    OBVIOUS
<1>2. /\ NUM_ENV \in Nat \ {0} /\ Env = 1 .. NUM_ENV /\ envs \in Store(Env, EnvQueue)
      /\ \A n \in Nat : n # NULL
    BY Stocked, SizeAssumption, NullAssumption DEF Env
<1>3. ASSUME NEW n \in {0, 1}, n < NUM_ENV, envs.head[envelope_q] = n + 1, n < e,
             \A m \in Env : m > n => envs.p[m] = IF m = NUM_ENV THEN NULL ELSE m + 1
      PROVE  e \in On(envs, envelope_q)
    <2> DEFINE b == [i \in 1 .. NUM_ENV - n |-> i + n]
    <2>1. NUM_ENV - n \in Nat /\ \A i \in 1 .. NUM_ENV - n : i + n \in Env /\ i + n > n
        BY <1>2, <1>3
    <2>2. /\ b \in Seq(Env) /\ Len(b) = NUM_ENV - n
          /\ \A i \in 1 .. Len(b) : b[i] = i + n /\ b[i] \in Env /\ b[i] > n
        BY <2>1
    <2> HIDE DEF b
    <2>3. Chained(envs.p, b)
        <3>1. SUFFICES ASSUME NEW i \in 1 .. Len(b) - 1
                       PROVE  envs.p[b[i]] = b[i + 1]
            BY DEF Chained
        <3>2. i \in 1 .. Len(b) /\ i + 1 \in 1 .. Len(b) /\ i + n # NUM_ENV /\ i + n + 1 = i + 1 + n
            BY <1>2, <1>3, <2>2, <3>1
        <3> QED
            BY <1>3, <2>2, <3>2
    <2>4. 1 \in 1 .. Len(b) /\ b # <<>> /\ b[1] = n + 1
        BY <1>2, <1>3, <2>2, EmptySeq
    <2>5. e - n \in 1 .. Len(b) /\ e - n + n = e
        BY <1>1, <1>2, <1>3, <2>2
    <2>6. b[e - n] = e
        BY <2>2, <2>5
    <2>7. b[e - n] \in On(envs, envelope_q)
        BY <1>2, <1>3, <2>2, <2>3, <2>4, <2>5, Queues, Spelled
    <2> QED
        BY <2>6, <2>7
<1>4. CASE pc[CCI] = "env"
    <2>1. envs = InitEnvs /\ envs.head[envelope_q] = 0 + 1
        BY <1>4, FirstTaken DEF Boot
    <2>2. \A m \in Env : m > 0 => envs.p[m] = IF m = NUM_ENV THEN NULL ELSE m + 1
        BY <2>1 DEF InitEnvs
    <2>3. 0 < NUM_ENV /\ 0 < e
        BY <1>1, <1>2
    <2>4. e \in On(envs, envelope_q)
        BY <1>3, <2>1, <2>2, <2>3
    <2> QED
        BY <2>4, Queues, Points
<1>5. CASE pc[CCI] = "first" /\ e = 1
    <2>1. env[CCI] = e
        BY <1>5 DEF Boot
    <2> QED
        BY <2>1, Processes, Points
<1>6. CASE pc[CCI] = "first" /\ e # 1
    <2>1. 1 < e /\ 1 < NUM_ENV /\ NUM_ENV # 1
        BY <1>1, <1>2, <1>6
    <2>2. envs.head[envelope_q] = 1 + 1
        BY <1>6, <2>1, FirstTaken DEF Boot
    <2>3. \A m \in Env : m > 1 => envs.p[m] = IF m = NUM_ENV THEN NULL ELSE m + 1
        <3>1. \A m \in Env : m > 1 => m # 1
            BY <1>2
        <3> QED
            BY <1>6, <3>1, FirstTaken DEF Boot
    <2>4. e \in On(envs, envelope_q)
        BY <1>3, <2>1, <2>2, <2>3
    <2> QED
        BY <2>4, Queues, Points
<1> QED
    BY <1>4, <1>5, <1>6 DEF Boot

(* ... and all but the spent ones afterwards.                              *)
LEMMA ShapeReferenced ==
    ASSUME RTXInv, Begun, Shape
    PROVE  Cardinality(Env \ Referenced) <= Spent
<1>1. PICK b \in Seq(Env), c \in Seq(Env), D \in SUBSET Env,
           k \in Env \cup {NULL}, x \in Env \cup {NULL}, z \in Env \cup {NULL},
           kh \in Env \cup {NULL}, ch \in Env \cup {NULL} : Layout(b, c, D, k, x, z, kh, ch)
    BY DEF Shape
<1>2. /\ envs \in Store(Env, EnvQueue) /\ DOMAIN frames = 1 .. Len(frames)
      /\ Spent \in Nat /\ NUM_ENV \in Nat /\ Len(b) \in Nat
    BY Stocked, EnvSeq
<1>3. /\ \A i, j \in 1 .. Len(b) : b[i] = b[j] => i = j
      /\ \A i \in 1 .. Len(b) : b[i] \notin {k, z, first}
      /\ k # first /\ z # first /\ (k # NULL => k # z)
    BY <1>1 DEF Layout, Threads, Separate
<1>4. first \in Env /\ first \in Referenced
    BY Points DEF Begun, RTXInv, Programs
<1>5. ASSUME NEW i \in 1 .. Len(b)
      PROVE  b[i] \in Referenced
    <2>1. b # <<>>
        BY <1>2, <1>5, EnvSeq
    <2>2. Pool(envs, b, x)
        BY <1>1, <2>1 DEF Layout, Threads
    <2>3. envs.head[envelope_q] = b[1] /\ Chained(envs.p, b)
        BY <2>1, <2>2 DEF Pool
    <2>4. b[i] \in On(envs, envelope_q)
        BY <1>2, <2>1, <2>3, Queues, Spelled
    <2> QED
        BY <2>4, Queues, Points
<1>6. ASSUME NEW i \in 1 .. Len(frames)
      PROVE  frames[i].env \in Referenced
    BY <1>2, Points
<1>7. k # NULL => k \in Referenced
    <2>1. SUFFICES ASSUME k # NULL
                   PROVE  k \in Referenced
        OBVIOUS
    <2>2. \/ env[CCI] = k \/ envs.head[0] = k \/ envs.head[CCI] = k \/ kh = k
        BY <1>1, <2>1 DEF Layout, Console
    <2>3. CASE env[CCI] = k
        BY <2>3, Processes, Points
    <2>4. CASE envs.head[0] = k
        <3>1. k \in On(envs, 0)
            BY <1>2, <2>1, <2>4, Queues, HeadOn
        <3> QED
            BY <3>1, Queues, Points
    <2>5. CASE envs.head[CCI] = k
        <3>1. k \in On(envs, CCI)
            BY <1>2, <2>1, <2>5, Queues, HeadOn
        <3> QED
            BY <3>1, Queues, Points
    <2>6. CASE kh = k
        <3>1. PICK i \in 1 .. Len(frames) : frames[i].pid = 0
            BY <1>1, <2>1, <2>6 DEF Layout, Hands
        <3>2. frames[i].env = k
            BY <1>1, <2>6, <3>1 DEF Layout, Hands
        <3> QED
            BY <1>6, <3>2
    <2> QED
        BY <2>2, <2>3, <2>4, <2>5, <2>6
<1>8. z # NULL => z \in Referenced
    <2>1. SUFFICES ASSUME z # NULL
                   PROVE  z \in Referenced
        OBVIOUS
    <2>2. PICK i \in 1 .. Len(frames) : hpc[i] = "display"
        BY <1>1, <2>1 DEF Layout, Hands
    <2>3. frames[i].env = z
        BY <1>1, <2>2 DEF Layout, Hands
    <2> QED
        BY <1>6, <2>3
<1>9. /\ Cardinality(Env \ Referenced) \in Nat
      /\ Cardinality(Env \ Referenced) <= NUM_ENV - (Len(b) + One(k) + One(z) + 1)
    <2>1. \A i \in 1 .. Len(b) : b[i] \in Referenced
        BY <1>5
    <2>2. \A i \in 1 .. Len(b) : b[i] \notin {k, z, first}
        BY <1>3
    <2> HIDE DEF Referenced
    <2> QED
        BY ONLY <1>3, <1>4, <1>7, <1>8, <2>1, <2>2, CountKnown, ZenonT(60),
                b \in Seq(Env), k \in Env \cup {NULL}, z \in Env \cup {NULL}
<1>10. NUM_ENV <= Len(b) + One(k) + One(z) + 1 + Spent /\ One(k) \in Nat /\ One(z) \in Nat
    BY <1>1 DEF Layout, Enough, One
<1> QED
    BY <1>2, <1>9, <1>10

(* Once all but two envelopes are spent: the CCI has these two.            *)
LEMMA TwoReferenced ==
    ASSUME RTXInv, Begun, Spent >= NUM_ENV - 2
    PROVE  Cardinality(Env \ Referenced) <= Spent
<1>1. /\ first \in Env /\ env[CCI] \in Env /\ first # env[CCI]
      /\ first \in Referenced /\ env[CCI] \in Referenced
    BY Processes, Points DEF Begun, RTXInv, Programs
<1>2. <<>> \in Seq(Env) /\ Len(<<>>) = 0 /\ NULL \notin Env
    BY EmptySeq, Queues
<1>3. One(NULL) = 0 /\ One(env[CCI]) = 1
    BY <1>1, <1>2 DEF One
<1> DEFINE k == env[CCI]
<1>4. k \in Env /\ k \in Referenced /\ k # first /\ One(k) = 1
    BY <1>1, <1>3
<1> HIDE DEF k
<1>5. \A i \in 1 .. Len(<<>>) : FALSE
    BY <1>2
<1>6. /\ Cardinality(Env \ Referenced) \in Nat
      /\ Cardinality(Env \ Referenced) <= NUM_ENV - (Len(<<>>) + One(k) + One(NULL) + 1)
    <2>1. /\ \A i, j \in 1 .. Len(<<>>) : <<>>[i] = <<>>[j] => i = j
          /\ \A i \in 1 .. Len(<<>>) : <<>>[i] \notin {k, NULL, first} /\ <<>>[i] \in Referenced
        BY <1>5
    <2> QED
        BY <1>1, <1>2, <1>4, <2>1, CountKnown
<1>7. Spent \in Nat /\ NUM_ENV \in Nat
    BY Stocked
<1> QED
    BY <1>2, <1>3, <1>4, <1>6, <1>7

(* Only two things cost an envelope, and each costs one: a displayed       *)
(* second and a command that overwrites the CCI's pointer, unless a line   *)
(* is typed ahead or process A comes into play.                            *)
THEOREM RTXEnvelopeBudget == RTXSpec => []EnvelopeBudget
<1>1. RTXInv /\ BudgetInv => EnvelopeBudget
    <2>1. SUFFICES ASSUME RTXInv, BudgetInv, ~ Excused
                   PROVE  Cardinality(Env \ Referenced) <= Spent
        BY DEF EnvelopeBudget
    <2>2. CASE Boot
        <3>1. Env \ Referenced = {}
            BY <2>1, <2>2, BootReferenced
        <3>2. Cardinality(Env \ Referenced) = 0
            BY <3>1, FS_EmptySet
        <3>3. Spent \in Nat
            BY <2>1, Stocked
        <3> QED
            BY <3>2, <3>3
    <2>3. CASE Begun /\ (Spent >= NUM_ENV - 2 \/ Shape)
        BY <2>1, <2>3, ShapeReferenced, TwoReferenced
    <2> QED
        BY <2>1, <2>2, <2>3 DEF BudgetInv
<1> QED
    BY <1>1, RTXInvariant, BudgetInvariant, PTL

-----------------------------------------------------------------------------
(* The stops of the RTX.                                                   *)

(* A process that was woken from receive finds a message: of the CCI, the  *)
(* only process that gets as far while the priorities are those of the     *)
(* table.  Nor does the RTX stop but in the handler of the timer.          *)
CCIMail == at[CCI] = "receive" => state[CCI] = "BLK_ON_RCV" \/ envs.head[CCI] # NULL

StopInv == priority = Priority => fault \notin {"null_env", "spin"} /\ CCIMail

(* It holds from the beginning.                                            *)
LEMMA InitStopInv == RTXInit => StopInv
BY Processes DEF RTXInit, Init, StopInv, CCIMail

(* Nothing else takes the messages of the CCI.                             *)
LEMMA MailStays ==
    ASSUME RTXInv, StopInv, UNCHANGED <<priority, state>>,
           at'[CCI] \in {"user", "taking", "emptied", at[CCI]},
           fault' \in {fault, "iproc_blocked", "null_tail"},
           \/ envs'.head[CCI] = envs.head[CCI]
           \/ \E q \in EnvQueue \ {CCI} : envs' = env_DEQ(envs, q)
           \/ \E q : envs' = env_ENQ(envs, q, NULL)
    PROVE  StopInv'
<1>1. envs \in Store(Env, EnvQueue) /\ CCI \in EnvQueue
    BY Processes, Domains DEF RTXInv, KernelInv, TypeOK
<1>2. envs'.head[CCI] = envs.head[CCI]
    <2>1. ASSUME NEW q \in EnvQueue, q # CCI, envs' = env_DEQ(envs, q)
          PROVE  envs'.head[CCI] = envs.head[CCI]
        BY <1>1, <2>1, DEQHeads, Domains
    <2>2. ASSUME NEW q, envs' = env_ENQ(envs, q, NULL)
          PROVE  envs'.head[CCI] = envs.head[CCI]
        BY <2>2 DEF env_ENQ, PCB_ENQ
    <2> QED
        BY <2>1, <2>2
<1> QED
    BY <1>2 DEF StopInv, CCIMail

(* A message for the CCI wakes it, any other leaves its queue alone.       *)
LEMMA MailComes ==
    ASSUME RTXInv, StopInv, NEW q, NEW e \in Env, k_send_message(q, e),
           UNCHANGED <<priority, at, fault>>
    PROVE  StopInv'
<1>1. /\ TypeOK /\ CCI \in PID /\ CCI \in User /\ envs' = env_ENQ(envs, q, e)
      /\ state \in [User -> States]
    BY Processes DEF RTXInv, KernelInv, TypeOK, States, k_send_message
<1>2. \/ envs'.head[CCI] = envs.head[CCI] /\ CCI # q
      \/ CCI = q /\ envs'.head[CCI] # NULL
    BY <1>1, HeadsAfterENQ
<1>3. CCI # q => state'[CCI] = state[CCI]
    BY <1>1 DEF k_send_message
<1> QED
    BY <1>2, <1>3 DEF StopInv, CCIMail

(* A program that gives up the processor.                                  *)
LEMMA SwitchMail ==
    ASSUME TableOrder, RTXInv, StarveInv, StopInv, UNCHANGED priority,
           NEW p \in User, Runs(p), NEW st, NEW q, NEW resume, NEW otherwise,
           process_switch(st, q, resume, otherwise),
           priority = Priority => /\ Starved(st, q, NULL) /\ st \in [User -> States]
                                  /\ q \in Store(User, PcbQueue),
           p # CCI => st[CCI] = state[CCI] /\ envs'.head[CCI] = envs.head[CCI],
           p = CCI /\ resume = "receive" => st[CCI] = "BLK_ON_RCV"
    PROVE  StopInv'
<1>1. SUFFICES ASSUME priority = Priority
               PROVE  StopInv'
    BY DEF StopInv
<1>2. curr_process = p /\ fault = "none" /\ at \in [User -> Place] /\ CCI \in User
    BY Processes DEF Runs, RTXInv, KernelInv, TypeOK
<1>3. /\ fault' = fault /\ at' = [at EXCEPT ![p] = resume]
      /\ st[CCI] # "READY" => state'[CCI] = st[CCI]
    BY <1>1, <1>2, SwitchStarved
<1> QED
    BY <1>2, <1>3 DEF StopInv, CCIMail

(* The kernel calls of the programs.                                       *)
LEMMA RequestMail ==
    ASSUME TableOrder, RTXInv, StarveInv, StopInv, NEW p \in Client, RequestEnv(p)
    PROVE  StopInv'
<1>1. /\ Runs(p) /\ p \in User /\ UNCHANGED priority /\ fault = "none"
      /\ TypeOK /\ at \in [User -> Place] /\ state \in [User -> States]
    BY Processes DEF RequestEnv, Runs, RTXInv, KernelInv, TypeOK, States
<1>2. priority = Priority => p = CCI /\ Starved(state, pcbs, CCI)
    BY <1>1, Running, Processes DEF StarveInv, Client
<1>3. CASE envs.head[envelope_q] # NULL
    <2>1. at' = [at EXCEPT ![p] = "user"] /\ fault' = fault
        BY <1>3 DEF RequestEnv
    <2> QED
        BY <1>1, <1>2, <2>1 DEF StopInv, CCIMail
<1>4. CASE envs.head[envelope_q] = NULL
    <2> DEFINE st == [state EXCEPT ![p] = "BLK_ON_ENV"]
               q  == PCB_ENQ(pcbs, blocked_on_envelope, p)
    <2>1. process_switch(st, q, "request", "spin") /\ envs' = envs
        BY <1>4 DEF RequestEnv
    <2>2. st \in [User -> States] /\ (p # CCI => st[CCI] = state[CCI])
        BY <1>1 DEF States
    <2>3. priority = Priority => Starved(st, q, NULL) /\ q \in Store(User, PcbQueue)
        BY <1>1, <1>2, LeaveStarved
    <2> HIDE DEF st, q
    <2> QED
        BY <1>1, <2>1, <2>2, <2>3, SwitchMail
<1> QED
    BY <1>3, <1>4

LEMMA ReceiveMail ==
    ASSUME TableOrder, RTXInv, StarveInv, StopInv, NEW p \in Client,
           ReceiveMessage(p) \/ ResumeReceive(p)
    PROVE  StopInv'
<1>1. /\ Runs(p) /\ p \in User /\ UNCHANGED priority /\ fault = "none"
      /\ TypeOK /\ at \in [User -> Place] /\ state \in [User -> States]
    BY Processes DEF ReceiveMessage, ResumeReceive, Runs, RTXInv, KernelInv, TypeOK, States
<1>2. priority = Priority => p = CCI /\ Starved(state, pcbs, CCI)
    BY <1>1, Running, Processes DEF StarveInv, Client
<1>3. CASE envs.head[p] # NULL
    <2>1. /\ at' = [at EXCEPT ![p] = "user"] \/ at' = [at EXCEPT ![p] = "taking"]
          /\ fault' = fault
        BY <1>3 DEF ReceiveMessage, ResumeReceive, TakeMessage
    <2>2. at'[p] # "receive"
        BY <1>1, <2>1
    <2> QED
        BY <1>1, <1>2, <2>1, <2>2 DEF StopInv, CCIMail
<1>4. CASE envs.head[p] = NULL /\ ReceiveMessage(p)
    <2> DEFINE st == [state EXCEPT ![p] = "BLK_ON_RCV"]
               q  == PCB_DEQ(pcbs, priority[p])
    <2>1. process_switch(st, q, "receive", "null_env") /\ envs' = envs
        BY <1>4 DEF ReceiveMessage
    <2>2. /\ st \in [User -> States] /\ st[p] = "BLK_ON_RCV"
          /\ p # CCI => st[CCI] = state[CCI]
        BY <1>1 DEF States
    <2>3. priority = Priority => Starved(st, q, NULL) /\ q \in Store(User, PcbQueue)
        BY <1>1, <1>2, LeaveStarved
    <2> HIDE DEF st, q
    <2> QED
        BY <1>1, <2>1, <2>2, <2>3, SwitchMail
<1>5. CASE envs.head[p] = NULL /\ ResumeReceive(p)
    <2>1. priority # Priority
        <3>1. at[p] = "receive"
            BY <1>5 DEF ResumeReceive
        <3>2. Starved(state, pcbs, CCI) => state[CCI] = "RUNNING"
            BY DEF Starved
        <3> QED
            BY <1>2, <1>5, <3>1, <3>2 DEF StopInv, CCIMail
    <2> QED
        BY <1>1, <2>1 DEF StopInv
<1> QED
    BY <1>3, <1>4, <1>5

(* The two steps inside a dequeue.                                         *)
LEMMA StoreMail ==
    ASSUME RTXInv, StarveInv, StopInv, NEW p \in Client, StoreHead(p) \/ StoreTail(p)
    PROVE  StopInv'
<1>1. /\ Runs(p) /\ UNCHANGED <<priority, fault>> /\ fault = "none" /\ p \in User
      /\ at \in [User -> Place]
      /\ at' = [at EXCEPT ![p] = "emptied"] \/ at' = [at EXCEPT ![p] = "user"]
    BY Processes DEF StoreHead, StoreTail, Runs, RTXInv, KernelInv, TypeOK
<1>2. priority = Priority => p = CCI
    BY <1>1, Running, Processes DEF Client
<1>3. at'[p] # "receive"
    BY <1>1
<1> QED
    BY <1>1, <1>2, <1>3 DEF StopInv, CCIMail

LEMMA ReleaseProcessorMail ==
    ASSUME TableOrder, RTXInv, StarveInv, StopInv, NEW p \in User, ReleaseProcessor(p)
    PROVE  StopInv'
<1> DEFINE st == [state EXCEPT ![p] = "READY"]
           q  == PCB_ENQ(pcbs, priority[p], p)
<1>1. /\ Runs(p) /\ UNCHANGED <<priority, envs>> /\ TypeOK
      /\ process_switch(st, q, "user", "none")
    BY DEF ReleaseProcessor, RTXInv, KernelInv
<1>2. st \in [User -> States] /\ (p # CCI => st[CCI] = state[CCI])
    BY <1>1 DEF TypeOK, States
<1>3. priority = Priority => Starved(st, q, NULL) /\ q \in Store(User, PcbQueue)
    <2>1. priority = Priority => p \in {CCI, C} /\ Starved(state, pcbs, p)
        BY <1>1, Running DEF StarveInv
    <2> QED
        BY <1>1, <2>1, LeaveStarved
<1> HIDE DEF st, q
<1> QED
    BY <1>1, <1>2, <1>3, SwitchMail

(* While the CCI runs no process waits for an envelope, so that it wakes   *)
(* nobody.                                                                 *)
LEMMA CCIReleaseMail ==
    ASSUME RTXInv, StarveInv, StopInv, CCIRelease
    PROVE  StopInv'
<1>1. /\ Runs(CCI) /\ k_release_msg_env(env[CCI]) /\ UNCHANGED <<priority, at, fault>>
    BY DEF CCIRelease
<1>2. CASE priority = Priority
    <2>1. pcbs.head[blocked_on_envelope] = NULL
        BY <1>1, <1>2, Running DEF StarveInv, Starved
    <2>2. state' = state /\ envs' = env_ENQ(envs, envelope_q, env[CCI])
        BY <1>1, <2>1 DEF k_release_msg_env
    <2>3. env[CCI] \in Env \cup {NULL}
        BY Processes DEF RTXInv, Programs
    <2>4. CCI \in PID /\ CCI # envelope_q /\ TypeOK
        BY Processes, Domains DEF RTXInv, KernelInv
    <2>5. CASE env[CCI] = NULL
        BY <1>1, <2>2, <2>5, MailStays
    <2>6. CASE env[CCI] \in Env
        <3>1. envs'.head[CCI] = envs.head[CCI]
            BY <2>2, <2>4, <2>6, HeadsAfterENQ
        <3> QED
            BY <1>1, <2>2, <3>1, MailStays
    <2> QED
        BY <2>3, <2>5, <2>6
<1>3. CASE priority # Priority
    BY <1>1, <1>3 DEF StopInv
<1> QED
    BY <1>2, <1>3

(* A change of a priority ends the claim for good.                         *)
LEMMA ChangePriorityMail ==
    ASSUME NeverRestored, RTXInv, NEW p, NEW l \in Level, NEW target \in User,
           ChangePriority(p, l, target)
    PROVE  StopInv'
<1>1. /\ priority' = [priority EXCEPT ![target] = l] /\ <<l, target>> \in ChangesAllowed
      /\ priority \in [User -> Level]
    BY DEF ChangePriority, RTXInv, KernelInv, TypeOK
<1>2. l # Priority[target]
    BY <1>1 DEF NeverRestored
<1>3. priority' # Priority
    BY <1>1, <1>2
<1> QED
    BY <1>3 DEF StopInv

(* The steps of the programs, of the handlers and of the signals.          *)
LEMMA ProgramMail ==
    ASSUME TableOrder, NeverRestored, RTXInv, StarveInv, StopInv, Program
    PROVE  StopInv'
<1>1. TypeOK /\ at \in [User -> Place]
    BY DEF RTXInv, KernelInv, TypeOK
<1>2. ASSUME NEW p \in Client, NEW here, NEW next, Requests(p, here, next)
      PROVE  StopInv'
    BY <1>2, RequestMail DEF Requests
<1>3. ASSUME NEW p \in Client, NEW here, NEW dest_id, NEW next, Sends(p, here, dest_id, next)
      PROVE  StopInv'
    <2>1. /\ k_send_message(dest_id, env[p]) /\ UNCHANGED <<priority, at, fault>>
          /\ env[p] \in Env
        BY <1>1, <1>3, Processes DEF Sends, SendMessage, TypeOK
    <2> QED
        BY <2>1, MailComes
<1>4. ASSUME NEW p \in Client, NEW next, Receives(p, next)
      PROVE  StopInv'
    BY <1>4, ReceiveMail, StoreMail DEF Receives
<1>5. ASSUME NEW p \in Client, NEW next, Yields(p, next)
      PROVE  StopInv'
    BY <1>5, ReleaseProcessorMail, Processes DEF Yields
<1>6. UNCHANGED vars => StopInv'
    BY DEF vars, StopInv, CCIMail
<1>7. CASE CCIStep
    <2>1. CASE CCIFirst \/ CCIRenew("s", "start") \/ CCIRenew("print", "print")
        BY <2>1, RequestMail, Processes DEF CCIFirst, CCIRenew
    <2>2. CASE CCIReceive
        BY <1>4, <2>2, Processes DEF CCIReceive
    <2>3. CASE CCIClock
        BY <1>6, <2>3 DEF CCIClock, vars
    <2>4. CASE CCIChange
        <3>1. PICK c \in ChangesAllowed : IF priority[c[2]] = c[1] THEN UNCHANGED vars
                                          ELSE ChangePriority(CCI, c[1], c[2])
            BY <2>4 DEF CCIChange
        <3>2. c[1] \in Level /\ c[2] \in User
            BY TableAssumption
        <3> QED
            BY <1>6, <3>1, <3>2, ChangePriorityMail
    <2> QED
        BY <1>2, <1>3, <1>5, <1>7, <2>1, <2>2, <2>3, <2>4, CCIReleaseMail, Processes
        DEF CCIStep
<1>8. CASE AStep
    <2>1. CASE ADequeue
        <3>1. CASE StoreHead(A) \/ StoreTail(A)
            BY <3>1, StoreMail, Processes
        <3>2. CASE ~ (StoreHead(A) \/ StoreTail(A))
            <4>1. /\ UNCHANGED <<priority, state, fault>> /\ Runs(A)
                  /\ at' = at \/ at' = [at EXCEPT ![A] = "taking"]
                  /\ envs' = envs \/ envs' = env_DEQ(envs, A)
                BY <2>1, <3>2 DEF ADequeue
            <4>2. A \in EnvQueue \ {CCI} /\ at'[CCI] = at[CCI]
                BY <1>1, <4>1, Processes, Domains
            <4> QED
                BY <4>1, <4>2, MailStays
        <3> QED
            BY <3>1, <3>2
    <2> QED
        BY <1>2, <1>3, <1>4, <1>5, <1>8, <2>1, Processes DEF AStep
<1>9. CASE BStep
    BY <1>3, <1>4, <1>5, <1>9, Processes DEF BStep
<1>10. CASE NullStep
    <2>1. PICK p \in NullProcs : NullDrain(p) \/ ReleaseProcessor(p)
        BY <1>10 DEF NullStep
    <2>2. CASE NullDrain(p)
        <3>1. /\ UNCHANGED <<priority, state, fault>>
              /\ at' = at \/ at' = [at EXCEPT ![p] = "drained"]
              /\ envs' = envs \/ envs' = env_DEQ(envs, NULLPID)
            BY <2>2 DEF NullDrain
        <3>2. CCI \notin NullProcs /\ NULLPID \in EnvQueue \ {CCI}
            BY Processes, Domains, TableAssumption DEF Client
        <3>3. at'[CCI] = at[CCI]
            BY <1>1, <3>1, <3>2, Processes
        <3> QED
            BY <3>1, <3>2, <3>3, MailStays
    <2>3. CASE ReleaseProcessor(p)
        BY <2>3, ReleaseProcessorMail, Processes
    <2> QED
        BY <2>1, <2>2, <2>3
<1> QED
    BY <1>7, <1>8, <1>9, <1>10 DEF Program

LEMMA HandlerMail ==
    ASSUME RTXInv, StopInv, HandlerStep
    PROVE  StopInv'
<1>1. CCI \in User /\ 2 \in EnvQueue \ {CCI} /\ envelope_q \in EnvQueue \ {CCI}
    BY Processes, Domains
<1>2. CASE KbdTransfer \/ CrtTransfer
    <2>1. /\ k_send_message(sender_id[Top.env], Top.env) /\ frames # <<>> /\ Top.env # NULL
          /\ UNCHANGED <<priority, at, fault>>
        BY <1>2 DEF KbdTransfer, CrtTransfer, Reply
    <2>2. Top.env \in Env
        BY <2>1, TopHandler, Processes DEF RTXInv, Stack, Frame, Top
    <2> QED
        BY <2>1, <2>2, MailComes
<1>3. CASE KbdDrop \/ CrtDrop \/ HandlerReturn
    BY <1>3, MailStays DEF KbdDrop, CrtDrop, HandlerReturn, Return
<1>4. CASE ClockRequest
    <2>1. /\ UNCHANGED <<priority, state, at>> /\ fault' \in {fault, "iproc_blocked"}
          /\ envs' = envs \/ envs' = env_DEQ(envs, envelope_q)
        BY <1>4 DEF ClockRequest
    <2> QED
        BY <1>1, <2>1, MailStays
<1>5. CASE ClockSend
    <2>1. /\ k_send_message(1, Top.env) /\ frames # <<>>
          /\ UNCHANGED <<priority, at, fault>> /\ Doing(2, "display")
        BY <1>5 DEF ClockSend, Doing
    <2>2. Top.env \in Env
        BY <2>1, TopHandler, Processes DEF RTXInv, Stack, Frame, Top, Doing
    <2> QED
        BY <2>1, <2>2, MailComes
<1>6. CASE TimerReceive
    <2>1. envs' = env_DEQ(envs, 2) /\ UNCHANGED <<priority, state, at, fault>>
        BY <1>6 DEF TimerReceive
    <2> QED
        BY <1>1, <2>1, MailStays
<1> QED
    BY <1>2, <1>3, <1>4, <1>5, <1>6 DEF HandlerStep

LEMMA SignalMail ==
    ASSUME RTXInv, StopInv, Signal
    PROVE  StopInv'
<1>1. {0, 1} \subseteq EnvQueue \ {CCI}
    BY Processes, Domains
<1>2. ASSUME NEW i \in {0, 1}, Interrupt(i)
      PROVE  StopInv'
    <2>1. envs' = env_DEQ(envs, i) /\ UNCHANGED <<priority, state, at, fault>>
        BY <1>2 DEF Interrupt
    <2> QED
        BY <1>1, <2>1, MailStays
<1>3. CASE TimerSignal
    BY <1>3, MailStays DEF TimerSignal
<1> QED
    BY <1>2, <1>3 DEF Signal, KbdSignal, CrtSignal

LEMMA NextStopInv ==
    ASSUME TableOrder, NeverRestored
    PROVE  RTXInv /\ StarveInv /\ StopInv /\ [RTXNext]_all => StopInv'
<1> SUFFICES ASSUME RTXInv, StarveInv, StopInv, [RTXNext]_all
             PROVE  StopInv'
    OBVIOUS
<1>1. CASE UNCHANGED vars
    BY <1>1 DEF vars, StopInv, CCIMail
<1>2. CASE SendsNowhere
    BY <1>2, Unsent, MailStays
<1> QED
    BY <1>1, <1>2, ProgramMail, HandlerMail, SignalMail DEF RTXNext, Type, all

(* A send to a queue without a tail takes a line typed ahead, or process   *)
(* A: an envelope that is sent to a queue with one in it finds it with a   *)
(* tail, and nobody sends to the CCI while it is inside its dequeue.       *)
LEMMA SentSomewhere ==
    ASSUME RTXInv, Shape
    PROVE  ~ SendsNowhere
<1> SUFFICES ASSUME SendsNowhere
             PROVE  FALSE
    OBVIOUS
<1>1. PICK b \in Seq(Env), c \in Seq(Env), D \in SUBSET Env,
           k \in Env \cup {NULL}, x \in Env \cup {NULL}, z \in Env \cup {NULL},
           kh \in Env \cup {NULL}, ch \in Env \cup {NULL} : Layout(b, c, D, k, x, z, kh, ch)
    BY DEF Shape
<1>2. /\ NULL \notin Env /\ \A q \in EnvQueue : envs.head[q] \in Env \cup {NULL}
      /\ \A i \in 1 .. Len(c) : c[i] \in Env
    BY Stocked, EnvSeq
<1>3. ~ NullTail(1)
    <2>1. CASE c = <<>>
        BY <1>1, <2>1 DEF Layout, Threads, Screen, NullTail
    <2>2. CASE c # <<>>
        <3>1. Len(c) \in 1 .. Len(c)
            BY <2>2, EnvSeq
        <3> QED
            BY <1>1, <1>2, <2>2, <3>1 DEF Layout, Threads, Screen, NullTail
    <2> QED
        BY <2>1, <2>2
<1>4. ~ NullTail(2)
    BY <1>1, <1>2 DEF Layout, Threads, Downstream, NullTail
<1>5. CASE \E s \in { <<CCI, "ask", 0>>, <<CCI, "start", A>>, <<CCI, "print", 1>>,
                     <<A, "console", 0>>, <<A, "send", B>>, <<B, "send", C>> } :
             pc[s[1]] = s[2] /\ NullTail(s[3])
    <2>1. pc[A] = "receive" /\ pc[B] = "receive"
        BY <1>1 DEF Layout, Others
    <2>2. \/ pc[CCI] = "ask" /\ NullTail(0)
          \/ pc[CCI] = "start" /\ NullTail(A)
          \/ pc[CCI] = "print" /\ NullTail(1)
        BY <1>5, <2>1
    <2> QED
        BY <1>1, <1>3, <2>2 DEF Layout, Console, Others, NullTail
<1>6. CASE /\ frames # <<>> /\ hpc[Len(hpc)] = "transfer" /\ Top.pid \in {0, 1}
           /\ Top.env # NULL /\ NullTail(sender_id[Top.env])
    <2>1. CASE Top.pid = 0
        <3>1. Top.env = kh /\ kh # NULL
            BY <1>1, <1>6, <2>1, TopOf DEF Layout, Hands
        <3>2. kh = k /\ sender_id[k] = CCI /\ envs.head[CCI] = NULL
            BY <1>1, <3>1 DEF Layout, Console
        <3> QED
            BY <1>6, <3>1, <3>2 DEF NullTail
    <2>2. CASE Top.pid = 1
        <3>1. Top.env = ch /\ ch # NULL
            BY <1>1, <1>6, <2>2, TopOf DEF Layout, Hands
        <3>2. sender_id[ch] = IF ch = x THEN CCI ELSE 2
            BY <1>1, <3>1 DEF Layout, Senders
        <3>3. CASE ch # x
            BY <1>4, <1>6, <3>1, <3>2, <3>3
        <3>4. CASE ch = x
            <4>1. envs.head[CCI] # x
                BY <1>1, <3>1, <3>4 DEF Layout, Text
            <4>2. envs.head[CCI] = NULL
                BY <1>1, <3>1, <3>4, <4>1 DEF Layout, Console, Off, Text
            <4> QED
                BY <1>6, <3>1, <3>2, <3>4, <4>2 DEF NullTail
        <3> QED
            BY <3>3, <3>4
    <2> QED
        BY <1>6, <2>1, <2>2
<1> QED
    BY <1>5, <1>6 DEF SendsNowhere, Doing

(* Before the CCI has begun nobody has anything to send.                   *)
LEMMA BootSilent ==
    ASSUME RTXInv, Boot
    PROVE  ~ SendsNowhere
<1> SUFFICES ASSUME SendsNowhere
             PROVE  FALSE
    OBVIOUS
<1>1. CASE \E s \in { <<CCI, "ask", 0>>, <<CCI, "start", A>>, <<CCI, "print", 1>>,
                     <<A, "console", 0>>, <<A, "send", B>>, <<B, "send", C>> } : pc[s[1]] = s[2]
    BY <1>1 DEF Boot
<1>2. CASE frames # <<>> /\ Top.env # NULL
    BY <1>2, TopOf DEF Boot
<1>3. CASE \E s \in { <<CCI, "ask", 0>>, <<CCI, "start", A>>, <<CCI, "print", 1>>,
                     <<A, "console", 0>>, <<A, "send", B>>, <<B, "send", C>> } :
             Runs(s[1]) /\ at[s[1]] = "user" /\ pc[s[1]] = s[2] /\ NullTail(s[3])
    BY <1>1, <1>3
<1> QED
    BY <1>2, <1>3 DEF SendsNowhere, Doing

(* Nothing but such a send stops the RTX in this way.                      *)
Faultless == fault' = "null_tail" => fault = "null_tail"

LEMMA NextFaultless ==
    ASSUME RTXInv, [RTXNext]_all, ~ SendsNowhere
    PROVE  Faultless
<1>1. CASE Program
    <2>1. ASSUME NEW p, RequestEnv(p) \/ ReceiveMessage(p) \/ ResumeReceive(p) \/ ReleaseProcessor(p)
          PROVE  Faultless
        BY <2>1 DEF RequestEnv, ReceiveMessage, ResumeReceive, ReleaseProcessor, TakeMessage,
                    process_switch, Faultless
    <2> QED
        BY <1>1, <2>1, ProgramCalls DEF Faultless
<1>2. CASE HandlerStep
    BY <1>2 DEF HandlerStep, KbdTransfer, CrtTransfer, KbdDrop, CrtDrop, HandlerReturn, ClockRequest,
                ClockSend, TimerReceive, Reply, Return, Faultless
<1>3. CASE Signal \/ (\E c \in Commands : Type(c)) \/ UNCHANGED all
    BY <1>3 DEF Signal, KbdSignal, CrtSignal, TimerSignal, Interrupt, Type, all, vars, Faultless
<1> QED
    BY <1>1, <1>2, <1>3 DEF RTXNext

NowhereInv == fault = "null_tail" => Excused \/ Spent >= NUM_ENV - 2

LEMMA NextNowhereInv ==
    ASSUME RTXInv, BudgetInv, NowhereInv, [RTXNext]_all
    PROVE  NowhereInv'
<1>1. SUFFICES ASSUME fault' = "null_tail"
               PROVE  Excused' \/ Spent' >= NUM_ENV - 2
    BY DEF NowhereInv
<1>2. Excused \/ Spent >= NUM_ENV - 2
    <2>1. CASE SendsNowhere
        BY <2>1, BootSilent, SentSomewhere DEF BudgetInv
    <2>2. CASE ~ SendsNowhere
        BY <1>1, <2>2, NextFaultless DEF Faultless, NowhereInv
    <2> QED
        BY <2>1, <2>2
<1>3. CASE Excused
    BY <1>3, ExcusedStays
<1>4. CASE Spent >= NUM_ENV - 2
    BY <1>4, SpentStays
<1> QED
    BY <1>2, <1>3, <1>4

(* As long as the priorities are those of the table the RTX comes to a     *)
(* stop in one way only, unless a line is typed ahead or process A comes   *)
(* into play: when all envelopes but two are spent, the timer blocked in   *)
(* its handler or the CCI blocked on an envelope.  Whatever is typed, no   *)
(* receiver ever goes on without a message and no caller spins in          *)
(* process_switch.                                                         *)
THEOREM RTXStopsOnlyWhenSpent ==
    ASSUME TableOrder, NeverRestored
    PROVE  RTXSpec => [](priority = Priority => StopsOnlyWhenSpent)
<1>1. RTXInit => StarveInv /\ StopInv /\ NowhereInv
    BY InitStarveInv, InitStopInv DEF RTXInit, Init, NowhereInv
<1>2. /\ RTXInv /\ StarveInv /\ StopInv /\ [RTXNext]_all => StarveInv' /\ StopInv'
      /\ RTXInv /\ BudgetInv /\ NowhereInv /\ [RTXNext]_all => NowhereInv'
    BY NextStarveInv, NextStopInv, NextNowhereInv
<1>3. StopInv /\ NowhereInv /\ PoolLasts => (priority = Priority => StopsOnlyWhenSpent)
    BY DEF StopInv, NowhereInv, StopsOnlyWhenSpent
<1> QED
    BY <1>1, <1>2, <1>3, RTXInvariant, BudgetInvariant, RTXPoolLasts, PTL DEF RTXSpec
==============================================================================
