----------------------------- MODULE KernelProofs -----------------------------
(***************************************************************************)
(* Proofs about Kernel, for any number of processes, i-processes and       *)
(* envelopes, any priority table, any calls of change_priority and any     *)
(* depth of the signal stack: the type of the state, links without cycles, *)
(* no process blocked on receive while it has a message, no envelope lost  *)
(* or duplicated, receive queues that are a Mailbox; and, where no level   *)
(* is shared with a process whose priority changes, a scheduler whose      *)
(* queues and states agree.                                                *)
(***************************************************************************)
EXTENDS Kernel, LinkQueueProofs, SequenceTheorems

States == {"RUNNING", "READY", "BLK_ON_ENV", "BLK_ON_RCV"}
Faults == {"none", "null_env", "null_tail", "spin", "iproc_blocked"}

(* Only a client is behind a switch or in the dequeue that follows, and    *)
(* the message it is about to take stays at the head of its queue.         *)
Taking ==
    \A p \in User :
        /\ at[p] \in {"receive", "request", "taking", "emptied"} => p \in Client
        /\ at[p] = "taking" => envs.head[p] # NULL

KernelInv == TypeOK /\ LinksAcyclic /\ BlockedHasNoMail /\ Taking

(* The processes and the envelopes are numbers, and the queues have the    *)
(* names they are used with.                                               *)
LEMMA Domains ==
    /\ NULLPID \in Nat /\ User \subseteq 0 .. NULLPID /\ User \subseteq PID
    /\ Iproc \subseteq PID /\ Iproc \cap User = {}
    /\ NULL \notin User /\ NULL \notin Env /\ NULL \notin PID
    /\ Level \subseteq PcbQueue /\ blocked_on_envelope \in PcbQueue
    /\ PID \subseteq EnvQueue /\ envelope_q \in EnvQueue /\ envelope_q \notin PID
    /\ Level \subseteq Nat /\ User \subseteq Nat /\ -1 \notin PID
    /\ Env \subseteq 0 .. NUM_ENV /\ NUM_ENV \in Env
BY SizeAssumption, NullAssumption
DEF NULLPID, User, PID, Iproc, Env, Level, PcbQueue, blocked_on_envelope, EnvQueue, envelope_q

LEMMA FirstOf ==
    ASSUME NEW S, S \subseteq Nat
    PROVE  First(S) \in S \cup {NULL} /\ (S # {} => First(S) \in S)
<1>1. CASE S = {}
    BY <1>1 DEF First
<1>2. CASE S # {}
    <2>1. \E n \in S : \A m \in S : n <= m
        BY <1>2, LeastNat
    <2> QED
        BY <1>2, <2>1 DEF First
<1> QED
    BY <1>1, <1>2

LEMMA LastOf ==
    ASSUME NEW b \in Nat, NEW S, S \subseteq 0 .. b
    PROVE  Last(S) \in S \cup {NULL}
<1>1. CASE S = {}
    BY <1>1 DEF Last
<1>2. CASE S # {}
    <2>1. \E n \in S : \A m \in S : m <= n
        BY <1>2, GreatestNat
    <2> QED
        BY <1>2, <2>1 DEF Last
<1> QED
    BY <1>1, <1>2

(* Links that only lead to higher numbers form no cycle.                   *)
LEMMA UpwardAcyclic ==
    ASSUME NEW b \in Nat, NEW N, N \subseteq 0 .. b, NEW p \in [N -> Nat \cup {NULL}],
           \A n \in N : p[n] # NULL => p[n] > n
    PROVE  Acyclic(p)
<1>1. SUFFICES ASSUME NEW S \in SUBSET N, S # {}
               PROVE  \E n \in S : p[n] \notin S
    BY DEF Acyclic
<1>2. PICK x \in S : \A y \in S : y <= x
    BY <1>1, GreatestNat
<1>3. p[x] \notin S
    <2>1. SUFFICES ASSUME p[x] \in S
                   PROVE  FALSE
        OBVIOUS
    <2>2. p[x] \in Nat /\ x \in Nat /\ p[x] <= x
        <3>1. \A y \in S : y \in 0 .. b
            BY <1>1
        <3>2. \A y \in 0 .. b : y \in Nat
            OBVIOUS
        <3>3. p[x] <= x
            BY <1>2, <2>1
        <3>4. p[x] \in 0 .. b /\ x \in 0 .. b
            BY <2>1, <3>1
        <3> QED
            BY <3>2, <3>3, <3>4
    <2>3. p[x] # NULL
        BY <2>2, NullAssumption
    <2> QED
        BY <1>1, <2>2, <2>3
<1> QED
    BY <1>3

-----------------------------------------------------------------------------
(* The queues that init_processes and init_env build.                      *)
LEMMA InitPcbsGood == InitPcbs \in Store(User, PcbQueue) /\ Acyclic(InitPcbs.p)
<1> DEFINE above(n) == { m \in Waiting(Priority[n]) : m > n /\ n # BootPid }
<1>1. \A q : Waiting(q) \subseteq User
    BY DEF Waiting
<1>2. \A q : First(Waiting(q)) \in User \cup {NULL} /\ Last(Waiting(q)) \in User \cup {NULL}
    <2> TAKE q
    <2>1. Waiting(q) \subseteq Nat /\ Waiting(q) \subseteq 0 .. NULLPID
        BY <1>1, Domains
    <2> QED
        BY <1>1, <2>1, FirstOf, LastOf, Domains
<1>3. \A n \in User : /\ First(above(n)) \in User \cup {NULL}
                      /\ First(above(n)) # NULL => First(above(n)) > n
    <2> TAKE n \in User
    <2>1. above(n) \subseteq User /\ above(n) \subseteq Nat
        BY <1>1, Domains
    <2>2. First(above(n)) \in above(n) \cup {NULL}
        <3> HIDE DEF above
        <3> QED
            BY <2>1, FirstOf
    <2> QED
        BY <2>1, <2>2
<1>4. InitPcbs.p = [n \in User |-> First(above(n))]
    BY DEF InitPcbs
<1> HIDE DEF above
<1>5. InitPcbs.p \in [User -> User \cup {NULL}]
    BY <1>3, <1>4
<1>6. InitPcbs \in Store(User, PcbQueue)
    <2>1. /\ InitPcbs.head = [q \in PcbQueue |-> First(Waiting(q))]
          /\ InitPcbs.tail = [q \in PcbQueue |-> Last(Waiting(q))]
          /\ InitPcbs = [head |-> InitPcbs.head, tail |-> InitPcbs.tail, p |-> InitPcbs.p]
        BY DEF InitPcbs
    <2>2. /\ InitPcbs.head \in [PcbQueue -> User \cup {NULL}]
          /\ InitPcbs.tail \in [PcbQueue -> User \cup {NULL}]
        BY <1>2, <2>1
    <2> QED
        BY <1>5, <2>1, <2>2 DEF Store
<1>7. Acyclic(InitPcbs.p)
    <2>1. InitPcbs.p \in [User -> Nat \cup {NULL}]
        BY <1>5, Domains
    <2>2. \A n \in User : InitPcbs.p[n] # NULL => InitPcbs.p[n] > n
        BY <1>3, <1>4
    <2> QED
        BY <2>1, <2>2, Domains, UpwardAcyclic
<1> QED
    BY <1>6, <1>7

LEMMA InitEnvsGood == InitEnvs \in Store(Env, EnvQueue) /\ Acyclic(InitEnvs.p)
<1>1. InitEnvs.p \in [Env -> Env \cup {NULL}]
    BY SizeAssumption DEF InitEnvs, Env
<1>2. InitEnvs \in Store(Env, EnvQueue)
    <2>1. 1 \in Env /\ NUM_ENV \in Env
        BY SizeAssumption DEF Env
    <2> QED
        BY <1>1, <2>1 DEF InitEnvs, Store
<1>3. Acyclic(InitEnvs.p)
    <2>1. InitEnvs.p \in [Env -> Nat \cup {NULL}] /\ Env \subseteq 0 .. NUM_ENV
        BY <1>1, SizeAssumption DEF Env
    <2>2. \A e \in Env : InitEnvs.p[e] # NULL => InitEnvs.p[e] > e
        BY SizeAssumption DEF InitEnvs, Env
    <2> QED
        BY <2>1, <2>2, SizeAssumption, UpwardAcyclic
<1> QED
    BY <1>2, <1>3

LEMMA InitKernelInv == Init => KernelInv
<1> SUFFICES ASSUME Init
             PROVE  KernelInv
    OBVIOUS
<1>1. BootPid \in User /\ Priority \in [User -> Level]
    BY TableAssumption
<1>2. TypeOK
    BY <1>1, InitPcbsGood, InitEnvsGood, Domains
    DEF Init, TypeOK, Place
<1>3. LinksAcyclic
    BY InitPcbsGood, InitEnvsGood DEF Init, LinksAcyclic
<1>4. BlockedHasNoMail
    BY DEF Init, BlockedHasNoMail
<1>5. Taking
    BY DEF Init, Taking
<1> QED
    BY <1>2, <1>3, <1>4, <1>5 DEF KernelInv

-----------------------------------------------------------------------------
(* A step that begins no dequeue and empties no queue of a process that is *)
(* in the middle of one.                                                   *)
LEMMA TakingRest ==
    ASSUME Taking,
           \A k \in User : \/ at'[k] = at[k]
                           \/ at'[k] \in {"user", "drained"}
                           \/ k \in Client /\ at'[k] \in {"receive", "request"},
           \A k \in User : at[k] = "taking" /\ at'[k] = "taking" /\ envs.head[k] # NULL
                          => envs'.head[k] # NULL
    PROVE  Taking'
BY DEF Taking

(* A switch leaves processes and queues of their types, adds no link and   *)
(* blocks nobody.                                                          *)
LEMMA SwitchGood ==
    ASSUME NEW st, st \in [User -> States],
           NEW q, q \in Store(User, PcbQueue), Acyclic(q.p),
           NEW resume \in Place, NEW otherwise \in Faults,
           TypeOK, curr_process \in User,
           process_switch(st, q, resume, otherwise)
    PROVE  /\ at' \in [User -> Place]
           /\ state' \in [User -> States]
           /\ pcbs' \in Store(User, PcbQueue) /\ Acyclic(pcbs'.p)
           /\ curr_process' \in PID
           /\ fault' \in Faults
           /\ \A p \in User : state'[p] = "BLK_ON_RCV" => st[p] = "BLK_ON_RCV"
           /\ at' = [at EXCEPT ![curr_process] = resume]
<1> DEFINE ready == { l \in Level : q.head[l] # NULL }
           level == First(ready)
           new   == q.head[level]
           old   == IF st[curr_process] = "RUNNING" THEN "READY" ELSE st[curr_process]
<1>1. at' = [at EXCEPT ![curr_process] = resume]
    BY DEF process_switch
<1>2. at' \in [User -> Place]
    BY <1>1 DEF TypeOK
<1>3. CASE ready = {}
    <2>1. state' = st /\ pcbs' = q /\ fault' = otherwise /\ curr_process' = curr_process
        BY <1>3 DEF process_switch
    <2> QED
        BY <1>1, <1>2, <2>1, Domains
<1>4. CASE ready # {}
    <2>1. /\ state' = [st EXCEPT ![curr_process] = old, ![new] = "RUNNING"]
          /\ pcbs' = PCB_DEQ(q, level) /\ curr_process' = new /\ fault' = fault
        BY <1>4 DEF process_switch
    <2>2. level \in ready
        <3>1. ready \subseteq Nat
            BY Domains
        <3> HIDE DEF ready
        <3> QED
            BY <1>4, <3>1, FirstOf
    <2>3. level \in PcbQueue /\ new \in User
        BY <2>2, Domains DEF Store
    <2>4. pcbs' \in Store(User, PcbQueue) /\ Acyclic(pcbs'.p)
        BY <2>1, <2>3, Domains, DEQType, DEQAcyclic
    <2> HIDE DEF new, level
    <2>5. /\ state' \in [User -> States]
          /\ \A p \in User : state'[p] = "BLK_ON_RCV" => st[p] = "BLK_ON_RCV"
        BY <2>1, <2>3 DEF States
    <2> QED
        BY <1>1, <1>2, <2>1, <2>3, <2>4, <2>5, Domains DEF TypeOK, Faults
<1> QED
    BY <1>3, <1>4

(* A message to dest_id: only the head of dest_id's queue can change, and  *)
(* the process of that queue is not blocked on receive afterwards.         *)
LEMMA SendGood ==
    ASSUME KernelInv, NEW dest_id \in PID \cup {-1}, NEW e \in Env,
           k_send_message(dest_id, e)
    PROVE  /\ sender_id' \in [Env -> PID \cup {-1}]
           /\ envs' \in Store(Env, EnvQueue) /\ pcbs' \in Store(User, PcbQueue)
           /\ state' \in [User -> States]
           /\ LinksAcyclic' /\ BlockedHasNoMail'
           /\ \A p \in User : envs.head[p] # NULL => envs'.head[p] # NULL
<1>1. /\ envs \in Store(Env, EnvQueue) /\ pcbs \in Store(User, PcbQueue)
      /\ Acyclic(envs.p) /\ Acyclic(pcbs.p) /\ state \in [User -> States]
      /\ curr_process \in PID /\ sender_id \in [Env -> PID \cup {-1}]
      /\ priority \in [User -> Level]
    BY DEF KernelInv, TypeOK, LinksAcyclic, States
<1>2. sender_id' \in [Env -> PID \cup {-1}]
    BY <1>1 DEF k_send_message
<1>3. envs' \in Store(Env, EnvQueue) /\ Acyclic(envs'.p)
    BY <1>1, Domains, ENQType, ENQAcyclic DEF k_send_message
<1>4. /\ pcbs' \in Store(User, PcbQueue) /\ Acyclic(pcbs'.p)
      /\ state' \in [User -> States]
      /\ \A p \in User : state'[p] = "BLK_ON_RCV" => p # dest_id /\ state[p] = "BLK_ON_RCV"
    <2>1. CASE dest_id \in User /\ state[dest_id] = "BLK_ON_RCV"
        <3>1. /\ pcbs' = PCB_ENQ(pcbs, priority[dest_id], dest_id)
              /\ state' = [state EXCEPT ![dest_id] = "READY"]
            BY <2>1 DEF k_send_message
        <3>2. pcbs' \in Store(User, PcbQueue) /\ Acyclic(pcbs'.p)
            BY <1>1, <2>1, <3>1, Domains, ENQType, ENQAcyclic
        <3> QED
            BY <1>1, <3>1, <3>2 DEF States
    <2>2. CASE ~ (dest_id \in User /\ state[dest_id] = "BLK_ON_RCV")
        <3>1. UNCHANGED <<pcbs, state>>
            BY <2>2 DEF k_send_message
        <3> QED
            BY <1>1, <2>2, <3>1
    <2> QED
        BY <2>1, <2>2
<1>5. BlockedHasNoMail'
    <2>1. SUFFICES ASSUME NEW p \in User, state'[p] = "BLK_ON_RCV"
                   PROVE  envs'.head[p] = NULL
        BY DEF BlockedHasNoMail
    <2>2. p # dest_id /\ p \in EnvQueue /\ envs.head[p] = NULL
        BY <1>4, <2>1, Domains DEF KernelInv, BlockedHasNoMail
    <2>3. envs' = env_ENQ(envs, dest_id, e)
        BY DEF k_send_message
    <2> QED
        BY <1>1, <2>2, <2>3, Domains, ENQHeads
<1>6. ASSUME NEW p \in User, envs.head[p] # NULL
      PROVE  envs'.head[p] # NULL
    <2>1. envs' = env_ENQ(envs, dest_id, e) /\ p \in EnvQueue /\ e # NULL
        BY Domains DEF k_send_message
    <2> QED
        BY <1>1, <1>6, <2>1 DEF env_ENQ, PCB_ENQ, Store
<1> QED
    BY <1>2, <1>3, <1>4, <1>5, <1>6 DEF LinksAcyclic

-----------------------------------------------------------------------------
(* One lemma per action.                                                   *)
LEMMA RequestEnvGood ==
    ASSUME KernelInv, NEW p \in User, RequestEnv(p)
    PROVE  KernelInv'
<1> DEFINE e == envs.head[envelope_q]
<1>1. /\ TypeOK /\ Acyclic(envs.p) /\ Acyclic(pcbs.p) /\ BlockedHasNoMail
      /\ Taking /\ curr_process = p /\ p \in Client
      /\ UNCHANGED <<priority, sender_id, frames, lost>>
    BY DEF KernelInv, LinksAcyclic, RequestEnv, Runs, Taking
<1>2. CASE e # NULL
    <2>1. /\ envs' = env_DEQ(envs, envelope_q)
          /\ held' = [held EXCEPT ![p] = @ \cup {e}]
          /\ at' = [at EXCEPT ![p] = "user"]
          /\ UNCHANGED <<curr_process, state, pcbs, fault>>
        BY <1>2 DEF RequestEnv
    <2>2. envs' \in Store(Env, EnvQueue) /\ Acyclic(envs'.p) /\ e \in Env
        <3>1. envs \in Store(Env, EnvQueue) /\ envelope_q \in EnvQueue /\ NULL \notin Env
            BY <1>1, Domains DEF TypeOK
        <3>2. e \in Env
            BY <1>2, <3>1 DEF Store
        <3> QED
            BY <1>1, <2>1, <3>1, <3>2, DEQType, DEQAcyclic
    <2>3. \A k \in User : envs'.head[k] = envs.head[k]
        <3>1. envs \in Store(Env, EnvQueue) /\ envelope_q \in EnvQueue /\ NULL \notin Env
            BY <1>1, Domains DEF TypeOK
        <3>2. \A k \in User : k \in EnvQueue /\ k # envelope_q
            BY Domains
        <3> QED
            BY <2>1, <3>1, <3>2, DEQHeads
    <2>4. TypeOK'
        BY <1>1, <2>1, <2>2 DEF TypeOK, Place
    <2>5. LinksAcyclic' /\ BlockedHasNoMail'
        BY <1>1, <2>1, <2>2, <2>3 DEF LinksAcyclic, BlockedHasNoMail
    <2>6. Taking'
        BY <1>1, <2>1, <2>3, TakingRest DEF TypeOK
    <2> QED
        BY <2>4, <2>5, <2>6 DEF KernelInv
<1>3. CASE e = NULL
    <2> DEFINE st == [state EXCEPT ![p] = "BLK_ON_ENV"]
               q  == PCB_ENQ(pcbs, blocked_on_envelope, p)
    <2>1. process_switch(st, q, "request", "spin") /\ UNCHANGED <<envs, held>>
        BY <1>3 DEF RequestEnv
    <2>2. /\ st \in [User -> States]
          /\ \A k \in User : st[k] = "BLK_ON_RCV" => state[k] = "BLK_ON_RCV"
        BY <1>1 DEF TypeOK, States
    <2>3. q \in Store(User, PcbQueue) /\ Acyclic(q.p)
        BY <1>1, Domains, ENQType, ENQAcyclic DEF TypeOK
    <2>4. "request" \in Place /\ "spin" \in Faults
        BY DEF Place, Faults
    <2> HIDE DEF st, q
    <2>5. /\ at' \in [User -> Place] /\ state' \in [User -> States]
          /\ pcbs' \in Store(User, PcbQueue) /\ Acyclic(pcbs'.p)
          /\ curr_process' \in PID /\ fault' \in Faults
          /\ \A k \in User : state'[k] = "BLK_ON_RCV" => st[k] = "BLK_ON_RCV"
          /\ at' = [at EXCEPT ![curr_process] = "request"]
        BY <1>1, <2>1, <2>2, <2>3, <2>4, SwitchGood
    <2>6. TypeOK'
        BY <1>1, <2>1, <2>5 DEF TypeOK, States, Faults
    <2>7. LinksAcyclic' /\ BlockedHasNoMail'
        BY <1>1, <2>1, <2>2, <2>5 DEF LinksAcyclic, BlockedHasNoMail
    <2>8. Taking'
        BY <1>1, <2>1, <2>5, TakingRest DEF TypeOK
    <2> QED
        BY <2>6, <2>7, <2>8 DEF KernelInv
<1> QED
    BY <1>2, <1>3

LEMMA ReleaseEnvGood ==
    ASSUME KernelInv, NEW p \in User, NEW e \in Env, ReleaseEnv(p, e)
    PROVE  KernelInv'
<1> DEFINE temp == pcbs.head[blocked_on_envelope]
<1>1. /\ TypeOK /\ Acyclic(envs.p) /\ Acyclic(pcbs.p) /\ BlockedHasNoMail
      /\ envs' = env_ENQ(envs, envelope_q, e)
      /\ held' = [held EXCEPT ![p] = @ \ {e}]
      /\ UNCHANGED <<curr_process, priority, sender_id, at, frames, lost, fault>>
    BY DEF KernelInv, LinksAcyclic, ReleaseEnv, k_release_msg_env
<1>2. envs' \in Store(Env, EnvQueue) /\ Acyclic(envs'.p)
    BY <1>1, Domains, ENQType, ENQAcyclic DEF TypeOK
<1>3. \A k \in User : envs'.head[k] = envs.head[k]
    BY <1>1, Domains, ENQHeads DEF TypeOK
<1>4. /\ state' \in [User -> States]
      /\ pcbs' \in Store(User, PcbQueue) /\ Acyclic(pcbs'.p)
      /\ \A k \in User : state'[k] = "BLK_ON_RCV" => state[k] = "BLK_ON_RCV"
    <2>1. CASE temp = NULL
        BY <1>1, <2>1 DEF ReleaseEnv, k_release_msg_env, TypeOK, States
    <2>2. CASE temp # NULL
        <3> DEFINE q == PCB_DEQ(pcbs, blocked_on_envelope)
        <3>1. /\ state' = [state EXCEPT ![temp] = "READY"]
              /\ pcbs' = PCB_ENQ(q, priority[temp], temp)
            BY <2>2 DEF ReleaseEnv, k_release_msg_env
        <3>2. temp \in User
            BY <1>1, <2>2, Domains DEF TypeOK, Store
        <3>3. q \in Store(User, PcbQueue) /\ Acyclic(q.p)
            BY <1>1, Domains, DEQType, DEQAcyclic DEF TypeOK
        <3> HIDE DEF q
        <3>4. pcbs' \in Store(User, PcbQueue) /\ Acyclic(pcbs'.p)
            BY <3>1, <3>2, <3>3, Domains, ENQType, ENQAcyclic
        <3> QED
            BY <1>1, <3>1, <3>2, <3>4 DEF TypeOK, States
    <2> QED
        BY <2>1, <2>2
<1>5. TypeOK'
    BY <1>1, <1>2, <1>4 DEF TypeOK, States
<1>6. Taking'
    BY <1>1, <1>3, TakingRest DEF KernelInv
<1> QED
    BY <1>1, <1>2, <1>3, <1>4, <1>5, <1>6 DEF KernelInv, LinksAcyclic, BlockedHasNoMail

LEMMA SendMessageGood ==
    ASSUME KernelInv, NEW p \in User, NEW e \in Env, NEW dest_id \in PID,
           SendMessage(p, dest_id, e)
    PROVE  KernelInv'
<1>1. /\ TypeOK
      /\ k_send_message(dest_id, e)
      /\ held' = [held EXCEPT ![p] = @ \ {e}]
      /\ UNCHANGED <<curr_process, priority, at, frames, lost, fault>>
    BY DEF KernelInv, SendMessage
<1>2. /\ sender_id' \in [Env -> PID \cup {-1}]
      /\ envs' \in Store(Env, EnvQueue) /\ pcbs' \in Store(User, PcbQueue)
      /\ state' \in [User -> States]
      /\ LinksAcyclic' /\ BlockedHasNoMail'
      /\ \A k \in User : envs.head[k] # NULL => envs'.head[k] # NULL
    BY <1>1, SendGood
<1>3. TypeOK'
    BY <1>1, <1>2 DEF TypeOK, States
<1>4. Taking'
    BY <1>1, <1>2, TakingRest DEF KernelInv
<1> QED
    BY <1>2, <1>3, <1>4 DEF KernelInv

LEMMA TakeMessageGood ==
    ASSUME KernelInv, NEW p \in User, envs.head[p] # NULL, TakeMessage(p),
           UNCHANGED <<priority, sender_id, frames, lost>>
    PROVE  KernelInv'
<1>1. /\ TypeOK /\ Acyclic(envs.p) /\ Acyclic(pcbs.p) /\ BlockedHasNoMail
      /\ envs' = env_DEQ(envs, p)
      /\ held' = [held EXCEPT ![p] = @ \cup {envs.head[p]}]
      /\ at' = [at EXCEPT ![p] = "user"]
      /\ UNCHANGED <<curr_process, state, pcbs, fault>>
    BY DEF KernelInv, LinksAcyclic, TakeMessage
<1>2. p \in EnvQueue /\ envs.head[p] \in Env
    BY <1>1, Domains DEF TypeOK, Store
<1>3. envs' \in Store(Env, EnvQueue) /\ Acyclic(envs'.p)
    BY <1>1, <1>2, Domains, DEQType, DEQAcyclic DEF TypeOK
<1>4. \A k \in User : envs.head[k] = NULL => envs'.head[k] = NULL
    BY <1>1, <1>2, Domains, DEQHeads DEF TypeOK
<1>5. TypeOK'
    BY <1>1, <1>2, <1>3 DEF TypeOK, Place
<1>6. \A k \in User : k # p => envs'.head[k] = envs.head[k]
    BY <1>1, <1>2, Domains, DEQHeads DEF TypeOK
<1>7. Taking'
    BY <1>1, <1>6, TakingRest DEF KernelInv, TypeOK
<1> QED
    BY <1>1, <1>3, <1>4, <1>5, <1>7 DEF KernelInv, LinksAcyclic, BlockedHasNoMail

(* The only step that blocks a process on receive: its queue is empty.     *)
LEMMA ReceiveMessageGood ==
    ASSUME KernelInv, NEW p \in User, ReceiveMessage(p)
    PROVE  KernelInv'
<1>1. /\ TypeOK /\ Acyclic(envs.p) /\ Acyclic(pcbs.p) /\ BlockedHasNoMail
      /\ curr_process = p /\ p \in Client /\ Taking
      /\ UNCHANGED <<priority, sender_id, frames, lost>>
    BY DEF KernelInv, LinksAcyclic, ReceiveMessage, Runs
<1>2. CASE envs.head[p] # NULL
    BY <1>1, <1>2, TakeMessageGood DEF ReceiveMessage
<1>3. CASE envs.head[p] = NULL
    <2> DEFINE st == [state EXCEPT ![p] = "BLK_ON_RCV"]
               q  == PCB_DEQ(pcbs, priority[p])
    <2>1. process_switch(st, q, "receive", "null_env") /\ UNCHANGED <<envs, held>>
        BY <1>3 DEF ReceiveMessage
    <2>2. /\ st \in [User -> States]
          /\ \A k \in User : st[k] = "BLK_ON_RCV" => k = p \/ state[k] = "BLK_ON_RCV"
        BY <1>1 DEF TypeOK, States
    <2>3. q \in Store(User, PcbQueue) /\ Acyclic(q.p)
        <3>1. priority[p] \in PcbQueue
            BY <1>1, Domains DEF TypeOK
        <3> QED
            BY <1>1, <3>1, Domains, DEQType, DEQAcyclic DEF TypeOK
    <2>4. "receive" \in Place /\ "null_env" \in Faults
        BY DEF Place, Faults
    <2> HIDE DEF st, q
    <2>5. /\ at' \in [User -> Place] /\ state' \in [User -> States]
          /\ pcbs' \in Store(User, PcbQueue) /\ Acyclic(pcbs'.p)
          /\ curr_process' \in PID /\ fault' \in Faults
          /\ \A k \in User : state'[k] = "BLK_ON_RCV" => st[k] = "BLK_ON_RCV"
          /\ at' = [at EXCEPT ![curr_process] = "receive"]
        BY <1>1, <2>1, <2>2, <2>3, <2>4, SwitchGood
    <2>6. TypeOK'
        BY <1>1, <2>1, <2>5 DEF TypeOK, States, Faults
    <2>7. LinksAcyclic' /\ BlockedHasNoMail'
        BY <1>1, <1>3, <2>1, <2>2, <2>5 DEF LinksAcyclic, BlockedHasNoMail
    <2>8. Taking'
        BY <1>1, <2>1, <2>5, TakingRest DEF TypeOK
    <2> QED
        BY <2>6, <2>7, <2>8 DEF KernelInv
<1> QED
    BY <1>2, <1>3

LEMMA ResumeReceiveGood ==
    ASSUME KernelInv, NEW p \in User, ResumeReceive(p)
    PROVE  KernelInv'
<1>1. CASE envs.head[p] = NULL
    <2>1. /\ fault' = "null_env"
          /\ UNCHANGED <<curr_process, state, pcbs, envs, held, at, priority,
                         sender_id, frames, lost>>
        BY <1>1 DEF ResumeReceive
    <2> QED
        BY <2>1 DEF KernelInv, TypeOK, LinksAcyclic, BlockedHasNoMail, Taking
<1>2. CASE envs.head[p] # NULL /\ envs.p[envs.head[p]] # NULL
    BY <1>2, TakeMessageGood DEF ResumeReceive
<1>3. CASE envs.head[p] # NULL /\ envs.p[envs.head[p]] = NULL
    <2>1. /\ at' = [at EXCEPT ![p] = "taking"] /\ at[p] = "receive"
          /\ UNCHANGED <<curr_process, state, pcbs, envs, held, fault, priority,
                         sender_id, frames, lost>>
        BY <1>3 DEF ResumeReceive
    <2>2. TypeOK'
        BY <2>1 DEF KernelInv, TypeOK, Place
    <2>3. Taking'
        BY <1>3, <2>1 DEF KernelInv, TypeOK, Taking
    <2> QED
        BY <2>1, <2>2, <2>3 DEF KernelInv, LinksAcyclic, BlockedHasNoMail
<1> QED
    BY <1>1, <1>2, <1>3

(* The stores of the unprotected dequeue only cut links.                   *)
LEMMA StoreHeadGood ==
    ASSUME KernelInv, NEW p \in User, StoreHead(p)
    PROVE  KernelInv'
<1> DEFINE temp == envs.head[p]
<1>1. /\ TypeOK /\ Acyclic(envs.p) /\ Acyclic(pcbs.p) /\ BlockedHasNoMail /\ Taking
      /\ at[p] = "taking" /\ at' = [at EXCEPT ![p] = "emptied"]
      /\ envs' = [envs EXCEPT !.head[p] = NULL, !.p[temp] = NULL]
      /\ held' = [held EXCEPT ![p] = @ \cup {temp}]
      /\ lost' = lost \cup (On(envs, p) \ {temp})
      /\ UNCHANGED <<curr_process, state, priority, pcbs, sender_id, frames, fault>>
    BY DEF KernelInv, LinksAcyclic, StoreHead
<1>2. /\ p \in EnvQueue /\ p \in Client /\ temp \in Env
      /\ envs \in Store(Env, EnvQueue) /\ envs.p \in [Env -> Env \cup {NULL}]
    BY <1>1, Domains DEF TypeOK, Store, Taking
<1>3. On(envs, p) \subseteq Env
    BY <1>2, OnFacts, Domains
<1> HIDE DEF temp
<1>4. /\ envs' \in Store(Env, EnvQueue)
      /\ envs'.p = [envs.p EXCEPT ![temp] = NULL]
      /\ \A k \in EnvQueue : envs'.head[k] = IF k = p THEN NULL ELSE envs.head[k]
    BY <1>1, <1>2 DEF Store
<1>5. Acyclic(envs'.p)
    BY <1>1, <1>2, <1>4, ClearAcyclic, Domains
<1>6. TypeOK'
    BY <1>1, <1>2, <1>3, <1>4 DEF TypeOK, Place
<1>7. Taking' /\ BlockedHasNoMail'
    BY <1>1, <1>2, <1>4, Domains DEF TypeOK, Taking, BlockedHasNoMail
<1> QED
    BY <1>1, <1>5, <1>6, <1>7 DEF KernelInv, LinksAcyclic

LEMMA StoreTailGood ==
    ASSUME KernelInv, NEW p \in User, StoreTail(p)
    PROVE  KernelInv'
<1>1. /\ TypeOK /\ Acyclic(envs.p) /\ Acyclic(pcbs.p) /\ BlockedHasNoMail /\ Taking
      /\ at' = [at EXCEPT ![p] = "user"]
      /\ envs' = [envs EXCEPT !.tail[p] = NULL]
      /\ UNCHANGED <<curr_process, state, priority, pcbs, sender_id, held, frames, lost, fault>>
    BY DEF KernelInv, LinksAcyclic, StoreTail
<1>2. envs' \in Store(Env, EnvQueue) /\ envs'.p = envs.p /\ envs'.head = envs.head
    BY <1>1 DEF TypeOK, Store
<1>3. TypeOK' /\ BlockedHasNoMail'
    BY <1>1, <1>2 DEF TypeOK, Place, BlockedHasNoMail
<1>4. Taking'
    BY <1>1, <1>2, TakingRest DEF TypeOK
<1> QED
    BY <1>1, <1>2, <1>3, <1>4 DEF KernelInv, LinksAcyclic

LEMMA SendFaultsGood ==
    ASSUME KernelInv, SendFaults
    PROVE  KernelInv'
BY DEF KernelInv, SendFaults, TypeOK, LinksAcyclic, BlockedHasNoMail, Taking

LEMMA ReleaseProcessorGood ==
    ASSUME KernelInv, NEW p \in User, ReleaseProcessor(p)
    PROVE  KernelInv'
<1> DEFINE st == [state EXCEPT ![p] = "READY"]
           q  == PCB_ENQ(pcbs, priority[p], p)
<1>1. /\ TypeOK /\ Acyclic(envs.p) /\ Acyclic(pcbs.p) /\ BlockedHasNoMail
      /\ curr_process = p /\ Taking
      /\ process_switch(st, q, "user", "none")
      /\ UNCHANGED <<priority, envs, sender_id, held, frames, lost>>
    BY DEF KernelInv, LinksAcyclic, ReleaseProcessor, Runs
<1>2. /\ st \in [User -> States]
      /\ \A k \in User : st[k] = "BLK_ON_RCV" => state[k] = "BLK_ON_RCV"
    BY <1>1 DEF TypeOK, States
<1>3. q \in Store(User, PcbQueue) /\ Acyclic(q.p)
    BY <1>1, Domains, ENQType, ENQAcyclic DEF TypeOK
<1>4. "user" \in Place /\ "none" \in Faults
    BY DEF Place, Faults
<1> HIDE DEF st, q
<1>5. /\ at' \in [User -> Place] /\ state' \in [User -> States]
      /\ pcbs' \in Store(User, PcbQueue) /\ Acyclic(pcbs'.p)
      /\ curr_process' \in PID /\ fault' \in Faults
      /\ \A k \in User : state'[k] = "BLK_ON_RCV" => st[k] = "BLK_ON_RCV"
      /\ at' = [at EXCEPT ![curr_process] = "user"]
    BY <1>1, <1>2, <1>3, <1>4, SwitchGood
<1>6. TypeOK'
    BY <1>1, <1>5 DEF TypeOK, States, Faults
<1>7. LinksAcyclic' /\ BlockedHasNoMail'
    BY <1>1, <1>2, <1>5 DEF LinksAcyclic, BlockedHasNoMail
<1>8. Taking'
    BY <1>1, <1>5, TakingRest DEF TypeOK
<1> QED
    BY <1>6, <1>7, <1>8 DEF KernelInv

(* The stale tail that PCB_REMOVE may leave breaks queues, not links.      *)
LEMMA ChangePriorityGood ==
    ASSUME KernelInv, NEW p \in User, NEW l \in Level, NEW target \in User,
           ChangePriority(p, l, target)
    PROVE  KernelInv'
<1>1. /\ TypeOK /\ Acyclic(envs.p) /\ Acyclic(pcbs.p) /\ BlockedHasNoMail
      /\ priority' = [priority EXCEPT ![target] = l]
      /\ UNCHANGED <<curr_process, state, envs, sender_id, held, at, frames, lost, fault>>
    BY DEF KernelInv, LinksAcyclic, ChangePriority
<1>2. pcbs' \in Store(User, PcbQueue) /\ Acyclic(pcbs'.p)
    <2> DEFINE q == PCB_REMOVE(pcbs, priority[target], target)
    <2>1. pcbs' = pcbs \/ pcbs' = PCB_ENQ(q, l, target)
        BY DEF ChangePriority
    <2>2. priority[target] \in PcbQueue
        BY <1>1, Domains DEF TypeOK
    <2>3. q \in Store(User, PcbQueue) /\ Acyclic(q.p)
        BY <1>1, <2>2, Domains, REMOVEType, REMOVEAcyclic DEF TypeOK
    <2> HIDE DEF q
    <2> QED
        BY <1>1, <2>1, <2>3, Domains, ENQType, ENQAcyclic DEF TypeOK
<1>3. TypeOK'
    BY <1>1, <1>2 DEF TypeOK
<1>4. Taking'
    BY <1>1, TakingRest DEF KernelInv
<1> QED
    BY <1>1, <1>2, <1>3, <1>4 DEF KernelInv, LinksAcyclic, BlockedHasNoMail

LEMMA NullDrainGood ==
    ASSUME KernelInv, NEW p \in User, NullDrain(p)
    PROVE  KernelInv'
<1> DEFINE e == envs.head[NULLPID]
<1>1. /\ TypeOK /\ Acyclic(envs.p) /\ Acyclic(pcbs.p) /\ BlockedHasNoMail
      /\ UNCHANGED <<curr_process, state, priority, pcbs, sender_id, frames, lost, fault>>
    BY DEF KernelInv, LinksAcyclic, NullDrain
<1>2. CASE e # NULL
    <2>1. /\ envs' = env_DEQ(envs, NULLPID) /\ held' = [held EXCEPT ![p] = {e}]
          /\ UNCHANGED at
        BY <1>2 DEF NullDrain
    <2>2. NULLPID \in EnvQueue
        BY TableAssumption, Domains
    <2>3. envs \in Store(Env, EnvQueue) /\ NULL \notin Env
        BY <1>1, Domains DEF TypeOK
    <2>4. envs' \in Store(Env, EnvQueue) /\ Acyclic(envs'.p)
        BY <1>1, <2>1, <2>2, <2>3, DEQType, DEQAcyclic
    <2>5. e \in Env
        BY <1>2, <2>2, <2>3 DEF Store
    <2>6. \A k \in User : envs.head[k] = NULL => envs'.head[k] = NULL
        BY <2>1, <2>2, <2>3, Domains, DEQHeads
    <2>7. TypeOK'
        BY <1>1, <2>1, <2>4, <2>5 DEF TypeOK
    <2>8. \A k \in User : k # NULLPID => envs'.head[k] = envs.head[k]
        BY <2>1, <2>2, <2>3, Domains, DEQHeads
    <2>9. at[NULLPID] # "taking"
        BY TableAssumption DEF KernelInv, Taking, Client
    <2>10. Taking'
        BY <2>1, <2>8, <2>9, TakingRest DEF KernelInv
    <2> QED
        BY <1>1, <2>4, <2>6, <2>7, <2>10 DEF KernelInv, LinksAcyclic, BlockedHasNoMail
<1>3. CASE e = NULL
    <2>1. at' = [at EXCEPT ![p] = "drained"] /\ UNCHANGED <<envs, held>>
        BY <1>3 DEF NullDrain
    <2>2. Taking'
        BY <1>1, <2>1, TakingRest DEF KernelInv, TypeOK
    <2> QED
        BY <1>1, <2>1, <2>2 DEF KernelInv, TypeOK, Place, LinksAcyclic, BlockedHasNoMail
<1> QED
    BY <1>2, <1>3

-----------------------------------------------------------------------------
(* Handlers.                                                               *)
LEMMA TopFrame ==
    ASSUME TypeOK, frames # <<>>
    PROVE  /\ Top \in Frame /\ Len(frames) \in Nat \ {0}
           /\ Len(frames) \in 1 .. Len(frames)
<1>1. Len(frames) \in Nat \ {0}
    BY EmptySeq DEF TypeOK
<1>2. Len(frames) \in 1 .. Len(frames)
    BY <1>1
<1> QED
    BY <1>1, <1>2, ElementOfSeq DEF TypeOK, Top

LEMMA InterruptGood ==
    ASSUME KernelInv, NEW i \in Iproc, Interrupt(i)
    PROVE  KernelInv'
<1> DEFINE f == [ pid |-> i, interrupted |-> curr_process, env |-> envs.head[i] ]
<1>1. /\ TypeOK /\ Acyclic(envs.p) /\ Acyclic(pcbs.p) /\ BlockedHasNoMail
      /\ frames' = Append(frames, f)
      /\ envs' = env_DEQ(envs, i) /\ curr_process' = i
      /\ UNCHANGED <<state, priority, pcbs, sender_id, held, at, lost, fault>>
    BY DEF KernelInv, LinksAcyclic, Interrupt
<1>2. envs \in Store(Env, EnvQueue) /\ NULL \notin Env /\ i \in EnvQueue /\ i \in PID
    BY <1>1, Domains DEF TypeOK
<1>3. envs' \in Store(Env, EnvQueue) /\ Acyclic(envs'.p)
    BY <1>1, <1>2, DEQType, DEQAcyclic
<1>4. \A k \in User : envs'.head[k] = envs.head[k]
    BY <1>1, <1>2, Domains, DEQHeads
<1>5. f \in Frame
    BY <1>1, <1>2 DEF Frame, TypeOK, Store
<1> HIDE DEF f
<1>6. frames' \in Seq(Frame)
    BY <1>1, <1>5, AppendProperties DEF TypeOK
<1>7. TypeOK'
    BY <1>1, <1>2, <1>3, <1>6 DEF TypeOK
<1>8. Taking'
    BY <1>1, <1>4, TakingRest DEF KernelInv
<1> QED
    BY <1>1, <1>3, <1>4, <1>7, <1>8 DEF KernelInv, LinksAcyclic, BlockedHasNoMail

LEMMA ReplyGood ==
    ASSUME KernelInv, Reply
    PROVE  KernelInv'
<1>1. /\ TypeOK /\ frames # <<>> /\ Top.env # NULL
      /\ k_send_message(sender_id[Top.env], Top.env)
      /\ frames' = [frames EXCEPT ![Len(frames)].env = NULL]
      /\ UNCHANGED <<curr_process, priority, held, at, lost, fault>>
    BY DEF KernelInv, Reply
<1>2. Top.env \in Env /\ sender_id[Top.env] \in PID \cup {-1}
    BY <1>1, TopFrame DEF Frame, TypeOK
<1>3. /\ sender_id' \in [Env -> PID \cup {-1}]
      /\ envs' \in Store(Env, EnvQueue) /\ pcbs' \in Store(User, PcbQueue)
      /\ state' \in [User -> States]
      /\ LinksAcyclic' /\ BlockedHasNoMail'
      /\ \A k \in User : envs.head[k] # NULL => envs'.head[k] # NULL
    BY <1>1, <1>2, SendGood
<1>4. frames' \in Seq(Frame)
    <2> DEFINE f == [Top EXCEPT !.env = NULL]
    <2>1. f \in Frame /\ Len(frames) \in 1 .. Len(frames) /\ frames \in Seq(Frame)
        BY <1>1, TopFrame DEF Frame, TypeOK
    <2>2. frames' = [frames EXCEPT ![Len(frames)] = f]
        BY <1>1, <2>1 DEF Top
    <2> HIDE DEF f
    <2> QED
        BY <2>1, <2>2, ExceptSeq
<1>5. TypeOK'
    BY <1>1, <1>3, <1>4 DEF TypeOK, States
<1>6. Taking'
    BY <1>1, <1>3, TakingRest DEF KernelInv
<1> QED
    BY <1>3, <1>5, <1>6 DEF KernelInv

LEMMA ReturnGood ==
    ASSUME KernelInv, Return
    PROVE  KernelInv'
<1>1. /\ TypeOK /\ frames # <<>>
      /\ curr_process' = Top.interrupted
      /\ lost' = lost \cup ({Top.env} \ {NULL})
      /\ frames' = SubSeq(frames, 1, Len(frames) - 1)
      /\ UNCHANGED <<state, priority, pcbs, envs, sender_id, held, at, fault>>
    BY DEF KernelInv, Return
<1>2. curr_process' \in PID /\ lost' \subseteq Env
    BY <1>1, TopFrame DEF Frame, TypeOK
<1>3. frames' \in Seq(Frame)
    <2>1. Len(frames) \in Nat \ {0} /\ frames \in Seq(Frame)
        BY <1>1, TopFrame DEF TypeOK
    <2>2. \A k \in 1 .. Len(frames) - 1 : frames[k] \in Frame
        BY <2>1, ElementOfSeq
    <2> QED
        BY <1>1, <2>1, <2>2, SubSeqProperties
<1>4. TypeOK'
    BY <1>1, <1>2, <1>3 DEF TypeOK
<1>5. Taking'
    BY <1>1, TakingRest DEF KernelInv
<1> QED
    BY <1>1, <1>4, <1>5 DEF KernelInv, LinksAcyclic, BlockedHasNoMail

-----------------------------------------------------------------------------
LEMMA NextKernelInv == KernelInv /\ [Next]_vars => KernelInv'
<1> SUFFICES ASSUME KernelInv, [Next]_vars
             PROVE  KernelInv'
    OBVIOUS
<1>1. ASSUME NEW p \in User, Primitive(p)
      PROVE  KernelInv'
    BY <1>1, Domains, RequestEnvGood, ReleaseEnvGood, SendMessageGood, ReceiveMessageGood,
       ResumeReceiveGood, StoreHeadGood, StoreTailGood, ReleaseProcessorGood,
       ChangePriorityGood, NullDrainGood
    DEF Primitive
<1>2. ASSUME Handler
      PROVE  KernelInv'
    BY <1>2, InterruptGood, ReplyGood, ReturnGood DEF Handler
<1>3. CASE UNCHANGED vars
    BY <1>3 DEF vars, KernelInv, TypeOK, LinksAcyclic, BlockedHasNoMail, Taking
<1> QED
    BY <1>1, <1>2, <1>3, SendFaultsGood DEF Next

THEOREM KernelInvariant == Spec => []KernelInv
BY InitKernelInv, NextKernelInv, PTL DEF Spec

(* Every variable of the kernel keeps its type: no queue, no state and no  *)
(* handler ever refers to a process or an envelope that does not exist.    *)
THEOREM TypeCorrect == Spec => []TypeOK
<1>1. KernelInv => TypeOK
    BY DEF KernelInv
<1> QED
    BY <1>1, KernelInvariant, PTL

(* No lost wakeup: k_send_message and k_receive_message never leave a      *)
(* process blocked on receive with a message in its queue, whichever       *)
(* handlers and priority changes come between them.                        *)
THEOREM NoLostWakeup == Spec => []BlockedHasNoMail
<1>1. KernelInv => BlockedHasNoMail
    BY DEF KernelInv
<1> QED
    BY <1>1, KernelInvariant, PTL

(* The queue traversals of the kernel end, even where change_priority has  *)
(* left a ready queue with a stale tail.                                   *)
THEOREM TraversalsEnd == Spec => []LinksAcyclic
<1>1. KernelInv => LinksAcyclic
    BY DEF KernelInv
<1> QED
    BY <1>1, KernelInvariant, PTL
-----------------------------------------------------------------------------
(* Messages: no envelope is in two places or in none, and the receive      *)
(* queues are a Mailbox, whatever the scheduler does.                      *)

(* The places of an envelope: a queue, a user program, a handler, or lost. *)
Queued(e) == \E q \in EnvQueue : e \in On(envs, q)
Framed(e) == \E k \in 1 .. Len(frames) : frames[k].env = e

Placed ==
    \A e \in Env : Queued(e) \/ (\E p \in User : e \in held[p]) \/ Framed(e) \/ e \in lost

QueuedApart ==
    \A e \in Env : Queued(e) => (\A p \in User : e \notin held[p]) /\ ~ Framed(e) /\ e \notin lost

HeldApart ==
    \A e \in Env, p \in User :
        e \in held[p] => /\ \A r \in User : e \in held[r] => r = p
                         /\ ~ Framed(e) /\ e \notin lost

FramedApart ==
    \A k \in 1 .. Len(frames) :
        frames[k].env # NULL => /\ frames[k].env \notin lost
                                /\ \A j \in 1 .. Len(frames) :
                                      frames[j].env = frames[k].env => j = k

(* What an i-process has or can receive has been sent by a process, so     *)
(* that its reply has a destination.                                       *)
SentBySomeone ==
    \A e \in Env : (Framed(e) \/ \E q \in PID : e \in On(envs, q)) => sender_id[e] \in PID

(* What was sent into a dequeue that was about to empty its queue may keep *)
(* its link, and only the queue of a user process can be without a tail.   *)
EnvsInOrder ==
    /\ Ordered(envs, Env, EnvQueue, lost)
    /\ \A q \in EnvQueue : q \notin User => HasTail(envs, q)

MailInv ==
    EnvsInOrder /\ Placed /\ QueuedApart /\ HeldApart /\ FramedApart /\ SentBySomeone

LEMMA EnvFinite == IsFiniteSet(Env)
BY FS_Interval, SizeAssumption DEF Env

-----------------------------------------------------------------------------
(* init_env: all the envelopes, on envelope_q.                             *)
LEMMA InitEnvsInOrder ==
    /\ WellFormed(InitEnvs, Env, EnvQueue)
    /\ On(InitEnvs, envelope_q) = Env
    /\ \A q \in PID : On(InitEnvs, q) = {}
<1> DEFINE p == [e \in Env |-> IF e = NUM_ENV THEN NULL ELSE e + 1]
<1>1. /\ InitEnvs.p = p
      /\ InitEnvs.head[envelope_q] = 1 /\ InitEnvs.tail[envelope_q] = NUM_ENV
      /\ \A q \in PID : InitEnvs.head[q] = NULL
    BY Domains DEF InitEnvs
<1>2. 1 \in Env /\ NUM_ENV \in Env /\ Env \subseteq Nat /\ 1 # NULL /\ DOMAIN p = Env
    BY SizeAssumption, NullAssumption DEF Env
<1>3. Env \subseteq From(p, 1)
    <2>1. SUFFICES ASSUME NEW S \in SUBSET Env, 1 \in S,
                          \A m \in S : p[m] \in S \cup {NULL},
                          Env \ S # {}
                   PROVE  FALSE
        BY <1>2 DEF From
    <2>2. PICK n \in Env \ S : \A m \in Env \ S : n <= m
        <3>1. Env \ S \subseteq Nat
            BY <1>2
        <3> QED
            BY <2>1, <3>1, LeastNat
    <2>3. n - 1 \in Env /\ n - 1 # NUM_ENV /\ n # 1
        BY <2>1, <2>2, SizeAssumption DEF Env
    <2>4. n - 1 \in S
        BY <1>2, <2>2, <2>3
    <2>5. p[n - 1] = n
        BY <1>2, <2>2, <2>3
    <2> QED
        BY <2>1, <2>2, <2>4, <2>5, Domains
<1> HIDE DEF p
<1>4. On(InitEnvs, envelope_q) = Env /\ \A q \in PID : On(InitEnvs, q) = {}
    BY <1>1, <1>2, <1>3, FromDomain DEF On
<1>5. p[NUM_ENV] = NULL
    BY <1>2 DEF p
<1>6. EnvQueue = PID \cup {envelope_q}
    BY DEF EnvQueue
<1>7. \A q \in EnvQueue : InitEnvs.head[q] # NULL => q = envelope_q
    BY <1>1, <1>6
<1>8. WellFormed(InitEnvs, Env, EnvQueue)
    BY <1>1, <1>2, <1>4, <1>5, <1>6, <1>7, InitEnvsGood DEF WellFormed, OnNone
<1> QED
    BY <1>4, <1>8

LEMMA InitMailInv == Init => MailInv
<1> SUFFICES ASSUME Init
             PROVE  MailInv
    OBVIOUS
<1>3. Ordered(InitEnvs, Env, EnvQueue, {}) /\ \A q \in EnvQueue : HasTail(InitEnvs, q)
    BY InitEnvsInOrder, WellFormedOrdered, Domains
<1>1. /\ envs = InitEnvs /\ frames = <<>> /\ lost = {}
      /\ held = [p \in User |-> {}]
    BY DEF Init
<1>2. 1 .. Len(frames) = {}
    BY <1>1
<1> QED
    BY <1>1, <1>2, <1>3, InitEnvsInOrder, Domains
    DEF MailInv, EnvsInOrder, Placed, QueuedApart, HeldApart, FramedApart,
        SentBySomeone, Queued, Framed

-----------------------------------------------------------------------------
(* What happens to the receive queues in a step: nothing, a message more   *)
(* at the end of one of them, or one less at the head.                     *)
NoMail == \A o \in PID : Delivered(o)' = Delivered(o)

Step == NoMail \/ Mail!Next

(* No process reads or stores a head in the step.                          *)
SamePlace == \A k \in User : at'[k] = "taking" <=> at[k] = "taking"

InDequeue(q) == q \in User /\ at[q] = "taking"

LEMMA Moved ==
    ASSUME TypeOK, NEW p \in User, NEW x, at' = [at EXCEPT ![p] = x],
           x # "taking", at[p] # "taking"
    PROVE  SamePlace
BY DEF TypeOK, SamePlace

(* What has been delivered to a process is on its queue.                   *)
LEMMA DeliveredOn ==
    ASSUME EnvsInOrder, Taking, NEW o \in PID
    PROVE  /\ \A i \in DOMAIN Delivered(o) : Delivered(o)[i] \in On(envs, o)
           /\ ~ InDequeue(o) => Delivered(o) = Chain(envs, o)
           /\ InDequeue(o) => Delivered(o) = << envs.head[o] >>
<1>1. /\ IsFiniteSet(Env) /\ NULL \notin Env /\ o \in EnvQueue
      /\ Ordered(envs, Env, EnvQueue, lost)
    BY EnvFinite, Domains DEF EnvsInOrder
<1>2. CASE InDequeue(o)
    <2>1. Delivered(o) = << envs.head[o] >> /\ envs.head[o] # NULL
        BY <1>2 DEF Delivered, InDequeue, Taking
    <2>2. envs.head[o] \in On(envs, o)
        BY <1>1, <2>1, OnFacts DEF Ordered
    <2> QED
        BY <1>2, <2>1, <2>2
<1>3. CASE ~ InDequeue(o)
    <2>1. Delivered(o) = Chain(envs, o)
        BY <1>3 DEF Delivered, InDequeue
    <2>2. Chain(envs, o) \in Seq(On(envs, o))
        BY <1>1, ChainFacts
    <2>3. \A i \in DOMAIN Chain(envs, o) : Chain(envs, o)[i] \in On(envs, o)
        BY ONLY <2>2
    <2> QED
        BY <1>3, <2>1, <2>3
<1> QED
    BY <1>2, <1>3

(* A queue whose chain and whose head are the same delivers the same.      *)
LEMMA SameDelivered ==
    ASSUME SamePlace, NEW o \in PID, envs'.head[o] = envs.head[o] \/ ~ InDequeue(o),
           Chain(envs', o) = Chain(envs, o) \/ InDequeue(o)
    PROVE  Delivered(o)' = Delivered(o)
<1>1. CASE InDequeue(o)
    BY <1>1 DEF Delivered, InDequeue, SamePlace
<1>2. CASE ~ InDequeue(o)
    BY <1>2 DEF Delivered, InDequeue, SamePlace
<1> QED
    BY <1>1, <1>2

(* A message sent to a process in the middle of its dequeue is not         *)
(* delivered; any other is the last of its queue.                          *)
LEMMA MailSend ==
    ASSUME EnvsInOrder, Taking, SamePlace, NEW dest \in PID, NEW e \in Env,
           ~ Queued(e), e \notin lost, HasTail(envs, dest),
           envs' = env_ENQ(envs, dest, e)
    PROVE  Step
<1>1. IsFiniteSet(Env) /\ NULL \notin Env /\ dest \in EnvQueue
    BY EnvFinite, Domains
<1>2. OnNone(envs, EnvQueue, e) /\ Ordered(envs, Env, EnvQueue, lost) /\ e \in Env \ lost
    BY DEF Queued, OnNone, EnvsInOrder
<1>3. AddsLast(envs, dest, e, PCB_ENQ(envs, dest, e), EnvQueue)
    BY <1>1, <1>2, ENQChain
<1>4. AddsLast(envs, dest, e, envs', EnvQueue)
    BY <1>3 DEF env_ENQ
<1>5. /\ Chain(envs', dest) = Append(Chain(envs, dest), e)
      /\ \A o \in PID : o # dest => Chain(envs', o) = Chain(envs, o)
    BY <1>4, Domains DEF AddsLast
<1>6. /\ \A o \in PID : o # dest => envs'.head[o] = envs.head[o]
      /\ envs.head[dest] # NULL => envs'.head[dest] = envs.head[dest]
    BY <1>1, <1>2, Domains DEF env_ENQ, PCB_ENQ, Ordered, Store
<1>7. \A o \in PID : o # dest => Delivered(o)' = Delivered(o)
    BY <1>5, <1>6, SameDelivered
<1>8. CASE InDequeue(dest)
    <2>1. Delivered(dest)' = Delivered(dest)
        BY <1>6, <1>8, SameDelivered DEF Taking, InDequeue
    <2> QED
        BY <1>7, <2>1 DEF Step, NoMail
<1>9. CASE ~ InDequeue(dest)
    <2>1. ASSUME NEW r \in PID, NEW i \in DOMAIN Delivered(r)
          PROVE  Delivered(r)[i] # e
        <3>1. r \in EnvQueue /\ Delivered(r)[i] \in On(envs, r)
            BY DeliveredOn, Domains
        <3> QED
            BY <1>2, <3>1 DEF OnNone
    <2>2. Delivered(dest)' = Append(Delivered(dest), e)
        BY <1>5, <1>9 DEF Delivered, InDequeue, SamePlace
    <2> DEFINE box == [o \in PID |-> Delivered(o)]
    <2>3. [o \in PID |-> Delivered(o)]' = [box EXCEPT ![dest] = Append(@, e)]
        BY <1>7, <2>2
    <2>4. Mail!Send(dest, e)
        BY <2>1, <2>3 DEF Mail!Send
    <2> QED
        BY <2>4 DEF Step, Mail!Next
<1> QED
    BY <1>8, <1>9

LEMMA MailReceive ==
    ASSUME EnvsInOrder, Taking, SamePlace, NEW q \in EnvQueue, envs.head[q] # NULL,
           ~ InDequeue(q), envs' = env_DEQ(envs, q)
    PROVE  Step
<1>1. /\ IsFiniteSet(Env) /\ NULL \notin Env /\ Ordered(envs, Env, EnvQueue, lost)
      /\ Dequeued(envs, q, envs')
    BY EnvFinite, Domains DEF EnvsInOrder, Dequeued
<1>2. TakesFirst(envs, q, envs', EnvQueue)
    BY <1>1, DEQChain
<1>3. /\ Chain(envs', q) = Tail(Chain(envs, q))
      /\ \A o \in PID : o # q => Chain(envs', o) = Chain(envs, o)
    BY <1>2, Domains DEF TakesFirst
<1>4. Chain(envs, q) # <<>>
    BY <1>1, ChainFacts
<1>5. \A o \in PID : o # q => envs'.head[o] = envs.head[o]
    BY <1>1, Domains, DEQHeads DEF Ordered
<1>6. \A o \in PID : o # q => Delivered(o)' = Delivered(o)
    BY <1>3, <1>5, SameDelivered
<1>7. CASE q \notin PID
    BY <1>6, <1>7 DEF Step, NoMail
<1>8. CASE q \in PID
    <2> DEFINE box == [o \in PID |-> Delivered(o)]
    <2>1. Delivered(q)' = Tail(Delivered(q)) /\ Delivered(q) # <<>>
        BY <1>3, <1>4 DEF Delivered, InDequeue, SamePlace
    <2>2. [o \in PID |-> Delivered(o)]' = [box EXCEPT ![q] = Tail(@)]
        BY <1>6, <1>8, <2>1
    <2>3. Mail!Receive(q)
        BY <1>8, <2>1, <2>2 DEF Mail!Receive
    <2> QED
        BY <1>8, <2>3 DEF Step, Mail!Next
<1> QED
    BY <1>7, <1>8

-----------------------------------------------------------------------------
(* The moves of an envelope.  From a queue to a program or to a new        *)
(* handler:                                                                *)
LEMMA TakenFromQueue ==
    ASSUME EnvsInOrder, Taking, SamePlace, NEW q \in EnvQueue, envs.head[q] # NULL,
           ~ InDequeue(q), envs' = env_DEQ(envs, q), UNCHANGED lost
    PROVE  /\ EnvsInOrder' /\ Step
           /\ envs.head[q] \in Env /\ envs.head[q] \in On(envs, q)
           /\ \A e \in Env : Queued(e)' <=> Queued(e) /\ e # envs.head[q]
           /\ \A k \in EnvQueue : On(envs', k) \subseteq On(envs, k)
<1>1. /\ NULL \notin Env /\ Ordered(envs, Env, EnvQueue, lost)
      /\ Dequeued(envs, q, envs')
    BY Domains DEF EnvsInOrder, Dequeued
<1>2. /\ Ordered(envs', Env, EnvQueue, lost) /\ Takes(envs, q, envs', EnvQueue)
      /\ \A k \in EnvQueue : HasTail(envs, k) => HasTail(envs', k)
    BY <1>1, DEQOrdered
<1>3. /\ On(envs', q) = On(envs, q) \ {envs.head[q]}
      /\ envs.head[q] \in On(envs, q)
      /\ \A k \in EnvQueue : k # q => On(envs', k) = On(envs, k)
    BY <1>2 DEF Takes
<1>4. envs.head[q] \in Env
    BY <1>1 DEF Ordered, Store
<1>5. \A k \in EnvQueue : envs.head[q] \in On(envs, k) => k = q
    BY <1>1, <1>3 DEF Ordered
<1>6. \A e \in Env : Queued(e)' <=> Queued(e) /\ e # envs.head[q]
    BY <1>3, <1>5 DEF Queued
<1>7. \A k \in EnvQueue : On(envs', k) \subseteq On(envs, k)
    BY <1>3
<1>8. EnvsInOrder'
    BY <1>2 DEF EnvsInOrder
<1> QED
    BY <1>3, <1>4, <1>6, <1>7, <1>8, MailReceive

LEMMA PutOnQueue ==
    ASSUME EnvsInOrder, Taking, SamePlace, NEW q \in EnvQueue, NEW e \in Env,
           ~ Queued(e), e \notin lost, HasTail(envs, q),
           envs' = env_ENQ(envs, q, e), UNCHANGED lost
    PROVE  /\ EnvsInOrder' /\ Step
           /\ \A f \in Env : Queued(f)' <=> Queued(f) \/ f = e
           /\ \A k \in EnvQueue, f \in Env :
                 f \in On(envs', k) => f \in On(envs, k) \/ (f = e /\ k = q)
<1>1. /\ OnNone(envs, EnvQueue, e) /\ Ordered(envs, Env, EnvQueue, lost) /\ NULL \notin Env
      /\ e \in Env \ lost
    BY Domains DEF Queued, OnNone, EnvsInOrder
<1>2. /\ Ordered(PCB_ENQ(envs, q, e), Env, EnvQueue, lost)
      /\ Adds(envs, q, e, PCB_ENQ(envs, q, e), EnvQueue)
      /\ \A k \in EnvQueue : HasTail(envs, k) => HasTail(PCB_ENQ(envs, q, e), k)
    BY <1>1, ENQOrdered
<1>3. /\ Ordered(envs', Env, EnvQueue, lost) /\ Adds(envs, q, e, envs', EnvQueue)
      /\ \A k \in EnvQueue : HasTail(envs, k) => HasTail(envs', k)
    BY <1>2 DEF env_ENQ
<1>4. /\ On(envs', q) = On(envs, q) \cup {e}
      /\ \A k \in EnvQueue : k # q => On(envs', k) = On(envs, k)
    BY <1>3 DEF Adds
<1>5. Step
    <2>1. CASE q \in PID
        BY <2>1, MailSend
    <2>2. CASE q \notin PID
        <3>1. IsFiniteSet(Env)
            BY EnvFinite
        <3>2. AddsLast(envs, q, e, PCB_ENQ(envs, q, e), EnvQueue)
            BY <1>1, <3>1, ENQChain
        <3>3. \A o \in PID : Chain(envs', o) = Chain(envs, o)
            BY <2>2, <3>2, Domains DEF AddsLast, env_ENQ
        <3>4. \A o \in PID : envs'.head[o] = envs.head[o]
            BY <1>1, <2>2, Domains DEF env_ENQ, PCB_ENQ, Ordered, Store
        <3> QED
            BY <3>3, <3>4, SameDelivered DEF Step, NoMail
    <2> QED
        BY <2>1, <2>2
<1>6. \A f \in Env : Queued(f)' <=> Queued(f) \/ f = e
    BY <1>4 DEF Queued
<1>7. \A k \in EnvQueue, f \in Env :
          f \in On(envs', k) => f \in On(envs, k) \/ (f = e /\ k = q)
    BY <1>4
<1>8. EnvsInOrder'
    BY <1>3 DEF EnvsInOrder
<1> QED
    BY <1>5, <1>6, <1>7, <1>8

-----------------------------------------------------------------------------
(* A program takes the first envelope of a queue.                          *)
LEMMA TakeGood ==
    ASSUME TypeOK, Taking, MailInv, SamePlace, NEW p \in User, NEW q \in EnvQueue,
           envs.head[q] # NULL, ~ InDequeue(q), envs' = env_DEQ(envs, q),
           held' = [held EXCEPT ![p] = @ \cup {envs.head[q]}],
           UNCHANGED <<sender_id, frames, lost>>
    PROVE  MailInv' /\ Step
<1> DEFINE h == envs.head[q]
<1>1. /\ EnvsInOrder' /\ Step
      /\ h \in Env /\ Queued(h)
      /\ \A e \in Env : Queued(e)' <=> Queued(e) /\ e # h
      /\ \A k \in EnvQueue : On(envs', k) \subseteq On(envs, k)
    BY TakenFromQueue DEF MailInv, Queued
<1>2. /\ sender_id' = sender_id /\ frames' = frames /\ lost' = lost
      /\ \A e \in Env : Framed(e)' <=> Framed(e)
    BY DEF Framed
<1>3. \A e \in Env, r \in User : e \in held'[r] <=> e \in held[r] \/ (r = p /\ e = h)
    BY DEF TypeOK
<1> HIDE DEF h
<1>4. ~ Framed(h) /\ h \notin lost /\ \A r \in User : h \notin held[r]
    BY <1>1 DEF MailInv, QueuedApart
<1>5. Placed'
    BY <1>1, <1>2, <1>3 DEF MailInv, Placed
<1>6. QueuedApart'
    BY <1>1, <1>2, <1>3 DEF MailInv, QueuedApart
<1>7. HeldApart'
    BY <1>1, <1>2, <1>3, <1>4 DEF MailInv, HeldApart
<1>8. FramedApart'
    BY <1>2 DEF MailInv, FramedApart
<1>9. SentBySomeone'
    BY <1>1, <1>2, Domains DEF MailInv, SentBySomeone
<1> QED
    BY <1>1, <1>5, <1>6, <1>7, <1>8, <1>9 DEF MailInv

(* A program puts an envelope on a queue.                                  *)
LEMMA PutGood ==
    ASSUME TypeOK, Taking, MailInv, SamePlace, NEW p \in User, NEW q \in EnvQueue,
           NEW e \in held[p], HasTail(envs, q), envs' = env_ENQ(envs, q, e),
           held' = [held EXCEPT ![p] = @ \ {e}],
           \/ q = envelope_q /\ sender_id' = sender_id
           \/ sender_id' = [sender_id EXCEPT ![e] = curr_process],
           UNCHANGED <<frames, lost>>
    PROVE  MailInv' /\ Step
<1>1. /\ e \in Env /\ ~ Queued(e) /\ ~ Framed(e) /\ e \notin lost
      /\ \A r \in User : e \in held[r] => r = p
    BY DEF TypeOK, MailInv, QueuedApart, HeldApart
<1>2. /\ EnvsInOrder' /\ Step
      /\ \A f \in Env : Queued(f)' <=> Queued(f) \/ f = e
      /\ \A k \in EnvQueue, f \in Env :
            f \in On(envs', k) => f \in On(envs, k) \/ (f = e /\ k = q)
    BY <1>1, PutOnQueue DEF MailInv
<1>3. /\ frames' = frames /\ lost' = lost
      /\ \A f \in Env : Framed(f)' <=> Framed(f)
    BY DEF Framed
<1>4. \A f \in Env, r \in User : f \in held'[r] <=> f \in held[r] /\ f # e
    BY <1>1 DEF TypeOK
<1>5. /\ \A f \in Env : sender_id[f] \in PID => sender_id'[f] \in PID
      /\ q \in PID => sender_id'[e] \in PID
    BY <1>1, Domains DEF TypeOK
<1>6. Placed'
    BY <1>2, <1>3, <1>4 DEF MailInv, Placed
<1>7. QueuedApart'
    BY <1>1, <1>2, <1>3, <1>4 DEF MailInv, QueuedApart
<1>8. HeldApart'
    BY <1>2, <1>3, <1>4 DEF MailInv, HeldApart
<1>9. FramedApart'
    BY <1>3 DEF MailInv, FramedApart
<1>10. SentBySomeone'
    BY <1>1, <1>2, <1>3, <1>5, Domains DEF MailInv, SentBySomeone
<1> QED
    BY <1>2, <1>6, <1>7, <1>8, <1>9, <1>10 DEF MailInv

(* A step that touches no envelope.                                        *)
LEMMA IdleGood ==
    ASSUME MailInv, SamePlace, UNCHANGED <<envs, sender_id, held, frames, lost>>
    PROVE  MailInv' /\ Step
<1>1. NoMail
    BY SameDelivered DEF NoMail
<1>2. /\ EnvsInOrder' /\ FramedApart'
      /\ \A e \in Env : /\ Queued(e)' <=> Queued(e)
                        /\ Framed(e)' <=> Framed(e)
    BY DEF MailInv, EnvsInOrder, FramedApart, Queued, Framed
<1>3. Placed' /\ QueuedApart' /\ HeldApart' /\ SentBySomeone'
    BY <1>2 DEF MailInv, Placed, QueuedApart, HeldApart, SentBySomeone
<1> QED
    BY <1>1, <1>2, <1>3 DEF MailInv, Step

-----------------------------------------------------------------------------
(* One lemma per action that moves an envelope.                            *)
LEMMA RequestEnvMail ==
    ASSUME TypeOK, Taking, MailInv, NEW p \in User, RequestEnv(p)
    PROVE  MailInv' /\ Step
<1>1. /\ UNCHANGED <<sender_id, frames, lost>>
      /\ at[p] # "taking" /\ curr_process = p
    BY DEF RequestEnv, Runs
<1>2. CASE envs.head[envelope_q] # NULL
    <2>1. SamePlace
        BY <1>1, <1>2, Moved DEF RequestEnv
    <2>2. ~ InDequeue(envelope_q) /\ envelope_q \in EnvQueue
        BY Domains DEF InDequeue
    <2> QED
        BY <1>1, <1>2, <2>1, <2>2, TakeGood DEF RequestEnv
<1>3. CASE envs.head[envelope_q] = NULL
    <2>1. SamePlace
        BY <1>1, <1>3, Moved DEF RequestEnv, process_switch
    <2> QED
        BY <1>1, <1>3, <2>1, IdleGood DEF RequestEnv
<1> QED
    BY <1>2, <1>3

LEMMA ReleaseEnvMail ==
    ASSUME TypeOK, Taking, MailInv, NEW p \in User, NEW e \in Env, ReleaseEnv(p, e)
    PROVE  MailInv' /\ Step
<1>1. SamePlace /\ HasTail(envs, envelope_q) /\ envelope_q \in EnvQueue
    BY Domains DEF ReleaseEnv, SamePlace, MailInv, EnvsInOrder
<1> QED
    BY <1>1, PutGood DEF ReleaseEnv, k_release_msg_env

LEMMA SendMessageMail ==
    ASSUME TypeOK, Taking, MailInv, NEW p \in User, NEW e \in Env, NEW dest_id \in PID,
           SendMessage(p, dest_id, e)
    PROVE  MailInv' /\ Step
<1>1. SamePlace /\ HasTail(envs, dest_id) /\ dest_id \in EnvQueue
    BY Domains DEF SendMessage, SamePlace, NullTail, HasTail
<1> QED
    BY <1>1, PutGood DEF SendMessage, k_send_message

LEMMA TakeMessageMail ==
    ASSUME TypeOK, Taking, MailInv, NEW p \in User, envs.head[p] # NULL,
           at[p] # "taking", TakeMessage(p), UNCHANGED <<sender_id, frames, lost>>
    PROVE  MailInv' /\ Step
<1>1. p \in EnvQueue /\ ~ InDequeue(p)
    BY Domains DEF InDequeue
<1>2. SamePlace
    BY Moved DEF TakeMessage
<1> QED
    BY <1>1, <1>2, TakeGood DEF TakeMessage

LEMMA ReceiveMessageMail ==
    ASSUME TypeOK, Taking, MailInv, NEW p \in User, ReceiveMessage(p)
    PROVE  MailInv' /\ Step
<1>1. at[p] = "user" /\ curr_process = p
    BY DEF ReceiveMessage, Runs
<1>2. CASE envs.head[p] # NULL
    BY <1>1, <1>2, TakeMessageMail DEF ReceiveMessage
<1>3. CASE envs.head[p] = NULL
    <2>1. SamePlace
        BY <1>1, <1>3, Moved DEF ReceiveMessage, process_switch
    <2> QED
        BY <1>3, <2>1, IdleGood DEF ReceiveMessage
<1> QED
    BY <1>2, <1>3

(* Once the NULL link of the head is read, the head is what is delivered.  *)
LEMMA ResumeReceiveMail ==
    ASSUME TypeOK, Taking, MailInv, NEW p \in User, ResumeReceive(p)
    PROVE  MailInv' /\ Step
<1>1. at[p] = "receive"
    BY DEF ResumeReceive
<1>2. CASE envs.head[p] = NULL
    <2>1. SamePlace
        BY <1>2 DEF ResumeReceive, SamePlace
    <2> QED
        BY <1>2, <2>1, IdleGood DEF ResumeReceive
<1>3. CASE envs.head[p] # NULL /\ envs.p[envs.head[p]] # NULL
    BY <1>1, <1>3, TakeMessageMail DEF ResumeReceive
<1>4. CASE envs.head[p] # NULL /\ envs.p[envs.head[p]] = NULL
    <2>1. /\ at' = [at EXCEPT ![p] = "taking"]
          /\ UNCHANGED <<envs, sender_id, held, frames, lost>>
        BY <1>4 DEF ResumeReceive
    <2>2. MailInv'
        BY <2>1 DEF MailInv, EnvsInOrder, Placed, QueuedApart, HeldApart, FramedApart,
                    SentBySomeone, Queued, Framed
    <2>3. Chain(envs, p) = << envs.head[p] >>
        BY <1>4, ChainOfOne, EnvFinite, Domains DEF MailInv, EnvsInOrder
    <2>4. ASSUME NEW o \in PID
          PROVE  Delivered(o)' = Delivered(o)
        <3>1. CASE o = p
            BY <1>1, <2>1, <2>3, <3>1 DEF Delivered, TypeOK
        <3>2. CASE o # p
            BY <2>1, <3>2 DEF Delivered, TypeOK
        <3> QED
            BY <3>1, <3>2
    <2> QED
        BY <2>2, <2>4 DEF Step, NoMail
<1> QED
    BY <1>2, <1>3, <1>4

(* The head leaves its queue; what was linked behind it since is lost.     *)
LEMMA StoreHeadMail ==
    ASSUME TypeOK, Taking, MailInv, NEW p \in User, StoreHead(p)
    PROVE  MailInv' /\ Step
<1> DEFINE h == envs.head[p]
           L == On(envs, p) \ {h}
<1>1. /\ at[p] = "taking" /\ at' = [at EXCEPT ![p] = "emptied"] /\ h # NULL
      /\ envs' = [envs EXCEPT !.head[p] = NULL, !.p[h] = NULL]
      /\ held' = [held EXCEPT ![p] = @ \cup {h}]
      /\ lost' = lost \cup L
      /\ UNCHANGED <<sender_id, frames>>
    BY DEF StoreHead, Taking
<1>2. /\ IsFiniteSet(Env) /\ NULL \notin Env /\ p \in EnvQueue /\ p \in PID
      /\ Ordered(envs, Env, EnvQueue, lost)
    BY EnvFinite, Domains DEF MailInv, EnvsInOrder
<1>3. /\ Ordered(envs', Env, EnvQueue, lost')
      /\ On(envs', p) = {}
      /\ \A k \in EnvQueue : k # p => /\ envs'.head[k] = envs.head[k]
                                     /\ envs'.tail[k] = envs.tail[k]
                                     /\ On(envs', k) = On(envs, k)
                                     /\ \A n \in On(envs, k) : envs'.p[n] = envs.p[n]
    <2>1. HeadOff(envs, p, envs') /\ envs.head[p] # NULL
        BY <1>1 DEF HeadOff
    <2>2. /\ Ordered(envs', Env, EnvQueue, lost \cup (On(envs, p) \ {envs.head[p]}))
          /\ Empties(envs, p, envs', EnvQueue)
        BY ONLY <1>2, <2>1, HeadCleared
    <2> QED
        BY <1>1, <2>2 DEF Empties
<1>4. h \in On(envs, p) /\ On(envs, p) \subseteq Env
    BY <1>1, <1>2, OnFacts DEF Ordered
<1>5. \A k \in EnvQueue : k # p => On(envs, k) \cap On(envs, p) = {}
    BY <1>2 DEF Ordered
<1> HIDE DEF h
<1>6. \A e \in Env : /\ Queued(e)' <=> Queued(e) /\ e \notin On(envs, p)
                     /\ e \in On(envs, p) => Queued(e)
                     /\ Framed(e)' <=> Framed(e)
                     /\ e \in lost' <=> e \in lost \/ (e \in On(envs, p) /\ e # h)
    BY <1>1, <1>2, <1>3, <1>5 DEF Queued, Framed
<1>7. \A e \in Env, r \in User : e \in held'[r] <=> e \in held[r] \/ (r = p /\ e = h)
    BY <1>1 DEF TypeOK
<1> HIDE DEF L
<1>8. EnvsInOrder'
    <2>1. \A q \in EnvQueue : q \notin User => HasTail(envs', q)
        BY <1>3 DEF MailInv, EnvsInOrder, HasTail
    <2> QED
        BY <1>3, <2>1 DEF EnvsInOrder
<1>9. \A e \in Env : e \in On(envs, p) =>
          ~ Framed(e) /\ e \notin lost /\ \A r \in User : e \notin held[r]
    BY <1>6 DEF MailInv, QueuedApart
<1>10. Placed'
    BY <1>4, <1>6, <1>7 DEF MailInv, Placed
<1>11. QueuedApart'
    BY <1>4, <1>6, <1>7 DEF MailInv, QueuedApart
<1>12. HeldApart'
    BY <1>4, <1>6, <1>7, <1>9 DEF MailInv, HeldApart
<1>13. FramedApart'
    <2>1. \A k \in 1 .. Len(frames) : frames[k].env # NULL => frames[k].env \in Env
        <3>1. \A k \in 1 .. Len(frames) : frames[k] \in Frame
            BY ElementOfSeq DEF TypeOK
        <3> QED
            BY <3>1 DEF Frame
    <2>2. \A k \in 1 .. Len(frames) : frames[k].env # NULL => frames[k].env \notin lost'
        BY <1>6, <1>9, <2>1 DEF MailInv, FramedApart, Framed
    <2> QED
        BY <1>1, <2>2 DEF MailInv, FramedApart
<1>14. SentBySomeone'
    <2>1. \A e \in Env, q \in PID : e \in On(envs', q) => e \in On(envs, q)
        BY <1>3, Domains
    <2> QED
        BY <1>1, <1>6, <2>1 DEF MailInv, SentBySomeone
<1>15. Step
    <2>1. ASSUME NEW o \in PID, o # p
          PROVE  Delivered(o)' = Delivered(o)
        <3>1. o \in EnvQueue /\ Chain(envs', o) = Chain(envs, o) /\ envs'.head[o] = envs.head[o]
            <4>1. /\ o \in EnvQueue /\ envs'.head[o] = envs.head[o]
                  /\ On(envs', o) = On(envs, o)
                  /\ \A n \in On(envs, o) : envs'.p[n] = envs.p[n]
                BY <1>3, <2>1, Domains
            <4>2. Chain(envs', o) = Chain(envs, o)
                BY ONLY <1>2, <1>3, <4>1, ChainSame
            <4> QED
                BY <4>1, <4>2
        <3> QED
            BY <1>1, <2>1, <3>1 DEF Delivered, TypeOK
    <2>2. Delivered(p) = <<h>>
        BY <1>1 DEF Delivered, h
    <2>3. Delivered(p)' = <<>>
        <3>1. envs'.head[p] = NULL
            BY <1>2, <1>3, <1>4, OnFacts DEF Ordered
        <3>2. Chain(envs', p) = <<>>
            BY <1>2, <1>3, <3>1, ChainFacts
        <3> QED
            BY <1>1, <3>2 DEF Delivered, TypeOK
    <2> DEFINE box == [o \in PID |-> Delivered(o)]
    <2>4. Tail(Delivered(p)) = <<>> /\ Delivered(p) # <<>>
        BY <2>2
    <2>5. [o \in PID |-> Delivered(o)]' = [box EXCEPT ![p] = Tail(@)]
        BY <2>1, <2>3, <2>4
    <2>6. Mail!Receive(p)
        BY <1>2, <2>4, <2>5 DEF Mail!Receive
    <2> QED
        BY <1>2, <2>6 DEF Step, Mail!Next
<1> QED
    BY <1>8, <1>10, <1>11, <1>12, <1>13, <1>14, <1>15 DEF MailInv

LEMMA StoreTailMail ==
    ASSUME TypeOK, Taking, MailInv, NEW p \in User, StoreTail(p)
    PROVE  MailInv' /\ Step
<1>1. /\ at[p] = "emptied" /\ at' = [at EXCEPT ![p] = "user"]
      /\ envs' = [envs EXCEPT !.tail[p] = NULL]
      /\ UNCHANGED <<sender_id, held, frames, lost>>
    BY DEF StoreTail
<1>2. /\ IsFiniteSet(Env) /\ NULL \notin Env /\ p \in EnvQueue
      /\ Ordered(envs, Env, EnvQueue, lost)
    BY EnvFinite, Domains DEF MailInv, EnvsInOrder
<1>3. /\ Ordered(envs', Env, EnvQueue, lost)
      /\ envs'.p = envs.p /\ envs'.head = envs.head
      /\ \A k \in EnvQueue : k # p => envs'.tail[k] = envs.tail[k]
      /\ \A k \in EnvQueue : On(envs', k) = On(envs, k)
    BY <1>1, <1>2, TailCleared
<1>4. \A k \in PID : Chain(envs', k) = Chain(envs, k)
    BY <1>2, <1>3, ChainSame, Domains
<1>5. SamePlace
    BY <1>1, Moved
<1>6. Step
    BY <1>3, <1>4, <1>5, SameDelivered DEF Step, NoMail
<1>7. EnvsInOrder'
    BY <1>1, <1>3 DEF MailInv, EnvsInOrder, HasTail
<1>8. \A e \in Env : (Queued(e)' <=> Queued(e)) /\ (Framed(e)' <=> Framed(e))
    BY <1>1, <1>3 DEF Queued, Framed
<1>9. FramedApart'
    BY <1>1 DEF MailInv, FramedApart
<1>10. Placed' /\ QueuedApart' /\ HeldApart' /\ SentBySomeone'
    BY <1>1, <1>3, <1>8, Domains
    DEF MailInv, Placed, QueuedApart, HeldApart, SentBySomeone
<1> QED
    BY <1>6, <1>7, <1>9, <1>10 DEF MailInv

(* null_process holds nothing when it takes the next envelope.             *)
LEMMA NullDrainMail ==
    ASSUME TypeOK, Taking, MailInv, NEW p \in User, NullDrain(p)
    PROVE  MailInv' /\ Step
<1>1. UNCHANGED <<sender_id, frames, lost>> /\ held[p] = {} /\ at[p] = "user"
    BY DEF NullDrain
<1>2. CASE envs.head[NULLPID] # NULL
    <2>1. NULLPID \in EnvQueue /\ ~ InDequeue(NULLPID)
        BY Domains, TableAssumption DEF InDequeue, Taking, Client
    <2>2. /\ envs' = env_DEQ(envs, NULLPID)
          /\ held' = [held EXCEPT ![p] = @ \cup {envs.head[NULLPID]}]
          /\ SamePlace
        BY <1>1, <1>2 DEF NullDrain, SamePlace
    <2> QED
        BY <1>1, <1>2, <2>1, <2>2, TakeGood
<1>3. CASE envs.head[NULLPID] = NULL
    <2>1. SamePlace
        BY <1>1, <1>3, Moved DEF NullDrain
    <2> QED
        BY <1>1, <1>3, <2>1, IdleGood DEF NullDrain
<1> QED
    BY <1>2, <1>3

(* A handler takes a message that was sent, or gets none.                  *)
LEMMA InterruptMail ==
    ASSUME TypeOK, Taking, MailInv, NEW i \in Iproc, Interrupt(i)
    PROVE  MailInv' /\ Step
<1> DEFINE h == envs.head[i]
           f == [ pid |-> i, interrupted |-> curr_process, env |-> h ]
           n == Len(frames)
<1>1. /\ frames' = Append(frames, f) /\ envs' = env_DEQ(envs, i)
      /\ UNCHANGED <<sender_id, held, lost>>
      /\ i \in EnvQueue /\ i \in PID /\ ~ InDequeue(i) /\ SamePlace
    BY Domains DEF Interrupt, InDequeue, SamePlace
<1>2. /\ frames \in Seq(Frame) /\ n \in Nat
      /\ Len(frames') = n + 1 /\ frames'[n + 1] = f
      /\ \A k \in 1 .. n : frames'[k] = frames[k]
    BY <1>1 DEF TypeOK
<1>3. /\ f.env = h
      /\ 1 .. Len(frames') = (1 .. n) \cup {n + 1}
    BY <1>2
<1>4. \A k \in 1 .. n : frames'[k].env = frames[k].env
    BY <1>2
<1>5. frames'[n + 1].env = h
    BY <1>2, <1>3
<1> HIDE DEF f, n
<1>6. \A e \in Env : Framed(e)' <=> Framed(e) \/ e = h
    BY <1>3, <1>4, <1>5 DEF Framed, n
<1>7. CASE h = NULL
    <2>1. envs' = envs /\ NULL \notin Env
        BY <1>1, <1>7, Domains DEF env_DEQ
    <2>2. NoMail
        BY <1>1, <2>1, SameDelivered DEF NoMail
    <2>3. \A e \in Env : /\ Queued(e)' <=> Queued(e)
                         /\ Framed(e)' <=> Framed(e)
        BY <1>6, <1>7, <2>1 DEF Queued
    <2>4. EnvsInOrder' /\ Placed' /\ QueuedApart' /\ HeldApart' /\ SentBySomeone'
        BY <1>1, <2>1, <2>3
        DEF MailInv, EnvsInOrder, Placed, QueuedApart, HeldApart, SentBySomeone
    <2>5. FramedApart'
        BY <1>1, <1>3, <1>4, <1>5, <1>7 DEF MailInv, FramedApart, n
    <2> QED
        BY <2>2, <2>4, <2>5 DEF MailInv, Step
<1>8. CASE h # NULL
    <2>1. /\ EnvsInOrder' /\ Step
          /\ h \in Env /\ h \in On(envs, i) /\ Queued(h)
          /\ \A e \in Env : Queued(e)' <=> Queued(e) /\ e # h
          /\ \A k \in EnvQueue : On(envs', k) \subseteq On(envs, k)
        BY <1>1, <1>8, TakenFromQueue DEF MailInv, Queued
    <2> HIDE DEF h
    <2>2. h \notin lost /\ ~ Framed(h) /\ \A r \in User : h \notin held[r]
        BY <2>1 DEF MailInv, QueuedApart
    <2>3. sender_id[h] \in PID
        BY <1>1, <2>1 DEF MailInv, SentBySomeone
    <2>4. Placed' /\ QueuedApart' /\ HeldApart'
        BY <1>1, <1>6, <2>1, <2>2 DEF MailInv, Placed, QueuedApart, HeldApart
    <2>5. \A k \in 1 .. n : frames[k].env # h
        BY <2>2 DEF Framed, n
    <2>6. FramedApart'
        BY <1>1, <1>3, <1>4, <1>5, <2>2, <2>5 DEF MailInv, FramedApart, n
    <2>7. SentBySomeone'
        BY <1>1, <1>6, <2>1, <2>3, Domains DEF MailInv, SentBySomeone
    <2> QED
        BY <2>1, <2>4, <2>6, <2>7 DEF MailInv
<1> QED
    BY <1>7, <1>8

(* The envelope goes back to a process: its sender_id names one.           *)
LEMMA ReplyMail ==
    ASSUME TypeOK, Taking, MailInv, Reply
    PROVE  MailInv' /\ Step
<1> DEFINE e == Top.env
           n == Len(frames)
           q == sender_id[e]
<1>1. /\ frames # <<>> /\ e # NULL
      /\ frames' = [frames EXCEPT ![n].env = NULL]
      /\ envs' = env_ENQ(envs, q, e)
      /\ sender_id' = [sender_id EXCEPT ![e] = curr_process]
      /\ UNCHANGED <<held, lost>> /\ SamePlace /\ HasTail(envs, q)
    BY DEF Reply, k_send_message, SamePlace, NullTail, HasTail
<1>2. /\ n \in 1 .. n /\ frames \in Seq(Frame) /\ e \in Env /\ frames[n].env = e
    BY <1>1, TopFrame DEF Frame, TypeOK, Top
<1>3. Len(frames') = n /\ frames'[n].env = NULL
      /\ \A k \in 1 .. n : k # n => frames'[k].env = frames[k].env
    <2>1. /\ DOMAIN frames = 1 .. n
          /\ frames'[n] = [frames[n] EXCEPT !.env = NULL]
          /\ \A k \in 1 .. n : k # n => frames'[k] = frames[k]
        <3>1. DOMAIN frames = 1 .. n
            BY ONLY <1>2
        <3> HIDE DEF n
        <3> QED
            BY ONLY <1>1, <1>2, <3>1
    <2>2. frames[n] \in Frame
        BY <1>2, ElementOfSeq
    <2>3. frames'[n].env = NULL
        BY <2>1, <2>2 DEF Frame
    <2>4. Len(frames') = n
        BY <1>1, <1>2
    <2> QED
        BY <2>1, <2>3, <2>4
<1> HIDE DEF n
<1>4. Framed(e)
    BY <1>2 DEF Framed, n
<1> HIDE DEF e
<1>5. /\ ~ Queued(e) /\ e \notin lost /\ \A r \in User : e \notin held[r]
    <2>1. ~ Queued(e) /\ \A r \in User : e \notin held[r]
        BY <1>2, <1>4 DEF MailInv, QueuedApart, HeldApart
    <2>2. e \notin lost
        BY <1>1, <1>2 DEF MailInv, FramedApart, n
    <2> QED
        BY <2>1, <2>2
<1>6. q \in PID /\ q \in EnvQueue
    BY <1>2, <1>4, Domains DEF MailInv, SentBySomeone
<1>7. /\ EnvsInOrder' /\ Step
      /\ \A f \in Env : Queued(f)' <=> Queued(f) \/ f = e
      /\ \A k \in EnvQueue, f \in Env :
            f \in On(envs', k) => f \in On(envs, k) \/ (f = e /\ k = q)
    BY <1>1, <1>2, <1>5, <1>6, PutOnQueue DEF MailInv
<1>8. \A f \in Env : Framed(f)' <=> Framed(f) /\ f # e
    <2>1. \A k \in 1 .. n : k # n => frames[k].env # e
        BY <1>1, <1>2 DEF MailInv, FramedApart, n
    <2> QED
        BY <1>2, <1>3, <2>1, Domains DEF Framed, n
<1>9. sender_id'[e] \in PID /\ \A f \in Env : f # e => sender_id'[f] = sender_id[f]
    BY <1>1, <1>2 DEF TypeOK
<1>10. Placed' /\ QueuedApart' /\ HeldApart'
    BY <1>1, <1>5, <1>7, <1>8 DEF MailInv, Placed, QueuedApart, HeldApart
<1>11. FramedApart'
    BY <1>1, <1>2, <1>3 DEF MailInv, FramedApart, n
<1>12. SentBySomeone'
    BY <1>7, <1>8, <1>9, Domains DEF MailInv, SentBySomeone
<1> QED
    BY <1>7, <1>10, <1>11, <1>12 DEF MailInv

LEMMA ReturnMail ==
    ASSUME TypeOK, Taking, MailInv, Return
    PROVE  MailInv' /\ Step
<1> DEFINE e == Top.env
           n == Len(frames)
<1>1. /\ frames # <<>>
      /\ lost' = lost \cup ({e} \ {NULL})
      /\ frames' = SubSeq(frames, 1, n - 1)
      /\ UNCHANGED <<envs, sender_id, held>> /\ SamePlace
    BY DEF Return, SamePlace
<1>2. n \in 1 .. n /\ frames \in Seq(Frame) /\ n \in Nat \ {0} /\ e \in Env \cup {NULL}
      /\ frames[n].env = e
    BY <1>1, TopFrame DEF Frame, TypeOK, Top
<1>3. Len(frames') = n - 1 /\ \A k \in 1 .. n - 1 : frames'[k] = frames[k]
    <2>1. \A k \in 1 .. n - 1 : frames[k] \in Frame
        BY <1>2, ElementOfSeq
    <2>2. Len(SubSeq(frames, 1, n - 1)) = IF 1 <= n - 1 THEN (n - 1) - 1 + 1 ELSE 0
        BY <1>2, <2>1, SubSeqProperties
    <2>3. \A k \in 1 .. (n - 1) - 1 + 1 : SubSeq(frames, 1, n - 1)[k] = frames[1 + k - 1]
        BY <1>2, <2>1, SubSeqProperties
    <2> HIDE DEF n
    <2> QED
        BY <1>1, <1>2, <2>2, <2>3
<1>4. 1 .. Len(frames') = (1 .. n) \ {n}
    BY <1>2, <1>3
<1> HIDE DEF n, e
<1>5. \A k \in (1 .. n) \ {n} : frames'[k].env = frames[k].env
    BY <1>3, <1>4
<1>6. e # NULL => Framed(e)
    BY <1>2 DEF Framed, n
<1>7. \A f \in Env : Framed(f)' <=> Framed(f) /\ f # e
    <2>1. e # NULL => \A k \in 1 .. n : k # n => frames[k].env # e
        BY <1>2 DEF MailInv, FramedApart, n
    <2> QED
        BY <1>2, <1>4, <1>5, <2>1, Domains DEF Framed, n
<1>8. \A f \in Env : Queued(f)' <=> Queued(f)
    BY <1>1 DEF Queued
<1>9. NoMail
    BY <1>1, SameDelivered DEF NoMail
<1>10. \A f \in Env : f \in lost' <=> f \in lost \/ f = e
    BY <1>1, Domains
<1>11. Placed' /\ QueuedApart' /\ HeldApart'
    BY <1>1, <1>2, <1>6, <1>7, <1>8, <1>10, Domains
    DEF MailInv, Placed, QueuedApart, HeldApart
<1>12. FramedApart'
    BY <1>1, <1>2, <1>4, <1>5 DEF MailInv, FramedApart, n
<1>13. EnvsInOrder' /\ SentBySomeone'
    BY <1>1, <1>7, <1>8, <1>10 DEF MailInv, EnvsInOrder, SentBySomeone, Ordered
<1> QED
    BY <1>9, <1>11, <1>12, <1>13 DEF MailInv, Step

-----------------------------------------------------------------------------
LEMMA SendFaultsMail ==
    ASSUME MailInv, SendFaults
    PROVE  MailInv' /\ Step
<1>1. UNCHANGED <<envs, sender_id, held, at, frames, lost>>
    BY DEF SendFaults
<1>2. SamePlace
    BY <1>1 DEF SamePlace
<1> QED
    BY <1>1, <1>2, IdleGood

LEMMA NextMailInv ==
    ASSUME TypeOK, Taking, MailInv, [Next]_vars
    PROVE  MailInv' /\ Step
<1>1. ASSUME NEW p \in User, Primitive(p)
      PROVE  MailInv' /\ Step
    <2>1. ASSUME NEW l \in Level, NEW target \in User, ChangePriority(p, l, target)
          PROVE  MailInv' /\ Step
        <3>1. SamePlace
            BY <2>1 DEF ChangePriority, SamePlace
        <3> QED
            BY <2>1, <3>1, IdleGood DEF ChangePriority
    <2>2. ASSUME ReleaseProcessor(p)
          PROVE  MailInv' /\ Step
        <3>1. SamePlace
            BY <2>2, Moved DEF ReleaseProcessor, Runs, process_switch
        <3> QED
            BY <2>2, <3>1, IdleGood DEF ReleaseProcessor
    <2> QED
        BY <1>1, <2>1, <2>2, RequestEnvMail, ReleaseEnvMail, SendMessageMail,
           ReceiveMessageMail, ResumeReceiveMail, StoreHeadMail, StoreTailMail,
           NullDrainMail DEF Primitive
<1>2. ASSUME Handler
      PROVE  MailInv' /\ Step
    BY <1>2, InterruptMail, ReplyMail, ReturnMail DEF Handler
<1>3. CASE UNCHANGED vars
    <2>1. SamePlace
        BY <1>3 DEF vars, SamePlace
    <2> QED
        BY <1>3, <2>1, IdleGood DEF vars
<1> QED
    BY <1>1, <1>2, <1>3, SendFaultsMail DEF Next

THEOREM MailInvariant == Spec => []MailInv
<1>1. KernelInv /\ MailInv /\ [Next]_vars => MailInv'
    BY NextMailInv DEF KernelInv
<1> QED
    BY <1>1, InitMailInv, KernelInvariant, PTL DEF Spec

(* Each envelope is in one place: env_ENQ and env_DEQ move it between the  *)
(* queues, the programs and the handlers, and it is never in two of these  *)
(* places, whatever is interrupted; the only others are those a handler    *)
(* has dropped and those sent into the unprotected dequeue of a receiver.  *)
THEOREM EnvelopesKept == Spec => []EnvelopesConserved
<1>1. ASSUME TypeOK, MailInv
      PROVE  EnvelopesConserved
    <2>1. SUFFICES ASSUME NEW e \in Env
                   PROVE  \E x : Places(e) = {x}
        BY FS_Singleton DEF EnvelopesConserved
    <2> DEFINE Q == { q \in EnvQueue : e \in On(envs, q) }
               H == { p \in User : e \in held[p] }
               F == { k \in DOMAIN frames : frames[k].env = e }
               L == { f \in lost : f = e }
    <2>2. DOMAIN frames = 1 .. Len(frames) /\ Env \subseteq Int /\ e # NULL
        BY <1>1, Domains DEF TypeOK, Env
    <2>3. /\ \A q \in Q : Q = {q} /\ H = {} /\ F = {} /\ L = {}
          /\ \A p \in H : Q = {} /\ H = {p} /\ F = {} /\ L = {}
          /\ \A k \in F : Q = {} /\ H = {} /\ F = {k} /\ L = {}
          /\ e \in lost => Q = {} /\ H = {} /\ F = {} /\ L = {e}
          /\ Q # {} \/ H # {} \/ F # {} \/ e \in lost
        <3>1. ASSUME NEW q \in Q
              PROVE  Q = {q} /\ H = {} /\ F = {} /\ L = {}
            <4>1. Queued(e) /\ \A r \in EnvQueue : e \in On(envs, r) => r = q
                BY <1>1 DEF Queued, MailInv, EnvsInOrder, Ordered
            <4> QED
                BY <1>1, <2>2, <4>1 DEF MailInv, QueuedApart, Framed
        <3>2. ASSUME NEW p \in H
              PROVE  Q = {} /\ H = {p} /\ F = {} /\ L = {}
            BY <1>1, <2>2 DEF MailInv, QueuedApart, HeldApart, Framed, Queued
        <3>3. ASSUME NEW k \in F
              PROVE  Q = {} /\ H = {} /\ F = {k} /\ L = {}
            <4>1. Framed(e) /\ frames[k].env = e /\ k \in 1 .. Len(frames)
                BY <2>2 DEF Framed
            <4>2. e \notin lost /\ \A j \in 1 .. Len(frames) : frames[j].env = e => j = k
                BY <1>1, <2>2, <4>1 DEF MailInv, FramedApart
            <4> QED
                BY <1>1, <2>2, <4>1, <4>2 DEF MailInv, QueuedApart, HeldApart, Queued
        <3>4. ASSUME e \in lost
              PROVE  Q = {} /\ H = {} /\ F = {} /\ L = {e}
            <4>1. F = {}
                BY <1>1, <2>2, <3>3, <3>4
            <4> QED
                BY <1>1, <3>4, <4>1 DEF MailInv, QueuedApart, HeldApart, Queued
        <3>5. Q # {} \/ H # {} \/ F # {} \/ e \in lost
            BY <1>1, <2>2 DEF MailInv, Placed, Queued, Framed
        <3> QED
            BY <3>1, <3>2, <3>3, <3>4, <3>5
    <2>4. Places(e) = { <<"queue", q>> : q \in Q } \cup { <<"held", p>> : p \in H }
                      \cup { <<"frame", k>> : k \in F } \cup { <<"lost", 0>> : l \in L }
        BY DEF Places
    <2> HIDE DEF Q, H, F, L
    <2>5. CASE Q # {}
        <3>1. PICK q \in Q : TRUE
            BY <2>5
        <3>2. Places(e) = { <<"queue", q>> }
            BY <2>3, <2>4
        <3> QED
            BY <3>2
    <2>6. CASE H # {}
        <3>1. PICK p \in H : TRUE
            BY <2>6
        <3>2. Places(e) = { <<"held", p>> }
            BY <2>3, <2>4
        <3> QED
            BY <3>2
    <2>7. CASE F # {}
        <3>1. PICK k \in F : TRUE
            BY <2>7
        <3>2. Places(e) = { <<"frame", k>> }
            BY <2>3, <2>4
        <3> QED
            BY <3>2
    <2>8. CASE e \in lost
        <3>1. Places(e) = { <<"lost", 0>> }
            BY <2>3, <2>4, <2>8
        <3> QED
            BY <3>1
    <2> QED
        BY <2>3, <2>5, <2>6, <2>7, <2>8
<1>2. KernelInv => TypeOK
    BY DEF KernelInv
<1> QED
    BY <1>1, <1>2, KernelInvariant, MailInvariant, PTL

(* The receive queues are a Mailbox: a message waits where it was sent to, *)
(* is received once, and the messages of one process are received in the   *)
(* order of the calls of send_message, from whichever process or handler;  *)
(* a message that a handler sends between two stores of its receiver's     *)
(* dequeue is not delivered at all.                                        *)
THEOREM KernelImplementsMailbox == Spec => MailboxSpec
<1>1. Init => Mail!Init
    <2> SUFFICES ASSUME Init
                 PROVE  Mail!Init
        OBVIOUS
    <2>1. /\ Ordered(envs, Env, EnvQueue, {})
          /\ \A q \in PID : envs.head[q] = NULL
          /\ \A q \in User : at[q] = "user"
        BY InitEnvsInOrder, WellFormedOrdered, Domains DEF Init, InitEnvs
    <2>2. \A q \in PID : Chain(envs, q) = <<>>
        BY <2>1, ChainFacts, EnvFinite, Domains
    <2>3. \A q \in PID : Delivered(q) = <<>>
        BY <2>1, <2>2 DEF Delivered
    <2> QED
        BY <2>3 DEF Mail!Init
<1>2. KernelInv /\ MailInv /\ [Next]_vars => [Mail!Next]_([o \in PID |-> Delivered(o)])
    <2> SUFFICES ASSUME KernelInv, MailInv, [Next]_vars
                 PROVE  [Mail!Next]_([o \in PID |-> Delivered(o)])
        OBVIOUS
    <2>1. Step
        BY NextMailInv DEF KernelInv
    <2> QED
        BY <2>1 DEF Step, NoMail
<1> QED
    BY <1>1, <1>2, KernelInvariant, MailInvariant, PTL DEF Spec, MailboxSpec, Mail!Spec, Delivered

-----------------------------------------------------------------------------
(* The scheduler: the ready queues and the queue of processes blocked on   *)
(* envelopes against the process states.                                   *)
(*                                                                         *)
(* PCB_REMOVE leaves a stale tail behind when it takes a process that is   *)
(* not the first of its ready queue, and the next process put on that      *)
(* queue is then lost (run kernel_change).  What is proved here is         *)
(* therefore about systems that do not meet it: MovedAlone, where a        *)
(* process whose priority is ever changed never shares a level.  It covers *)
(* every system that does not call change_priority, whatever its table.    *)
(*                                                                         *)
(* The PCB_DEQ of k_receive_message takes the first ready process of the   *)
(* caller's level off its queue (run kernel_dispatch).  It never takes a   *)
(* process that is Kept: one whose level is that of no other client.  In   *)
(* the initialization table these are the CCI, the wall clock and the null *)
(* process; A and B share a level and are not.                             *)

Levels(p) == {Priority[p]} \cup { l \in Level : <<l, p>> \in ChangesAllowed }

MovedAlone ==
    \A l \in Level, p, r \in User :
        <<l, p>> \in ChangesAllowed /\ r # p => Levels(p) \cap Levels(r) = {}

Kept(p) == \A c \in Client : c # p => Levels(p) \cap Levels(c) = {}

(* What the queues q say of the processes whose states are st.             *)
ReadyQueues(st, q) ==
    \A p \in User, l \in Level : p \in On(q, l) => st[p] = "READY" /\ priority[p] = l

BlockedQueue(st, q) == On(q, blocked_on_envelope) = { p \in User : st[p] = "BLK_ON_ENV" }

ReadyQueued(st, q) ==
    \A p \in User : Kept(p) /\ st[p] = "READY" => p \in On(q, priority[p])

(* Where a process is, and what may become of its priority.                *)
Whereabouts ==
    \A p \in User : /\ state[p] = "BLK_ON_ENV" => at[p] = "request"
                    /\ state[p] = "BLK_ON_RCV" => at[p] = "receive"
                    /\ at[p] \in {"request", "receive"} => p \in Client
                    /\ priority[p] \in Levels(p)

PcbsInOrder ==
    /\ WellFormed(pcbs, User, PcbQueue)
    /\ ReadyQueues(state, pcbs)
    /\ BlockedQueue(state, pcbs)
    /\ ReadyQueued(state, pcbs)

SchedInv == PcbsInOrder /\ Whereabouts /\ FramesNest /\ OneRunning /\ WokenHasMail

-----------------------------------------------------------------------------
(* init_processes: each level holds its processes, and main has taken the  *)
(* first one off again.                                                    *)
LEMMA InitPcbsInOrder ==
    /\ WellFormed(InitPcbs, User, PcbQueue)
    /\ \A q \in PcbQueue : On(InitPcbs, q) = Waiting(q)
<1> DEFINE p == InitPcbs.p
           above(n) == { m \in Waiting(Priority[n]) : m > n /\ n # BootPid }
<1>1. /\ InitPcbs \in Store(User, PcbQueue) /\ Acyclic(p)
      /\ p \in [User -> User \cup {NULL}] /\ DOMAIN p = User
      /\ \A n \in User : p[n] = First(above(n))
      /\ \A q \in PcbQueue : /\ InitPcbs.head[q] = First(Waiting(q))
                             /\ InitPcbs.tail[q] = Last(Waiting(q))
    BY InitPcbsGood DEF InitPcbs, Store
<1>2. /\ \A q : Waiting(q) \subseteq User
      /\ User \subseteq Nat /\ User \subseteq 0 .. NULLPID /\ NULLPID \in Nat
      /\ NULL \notin User
    BY Domains DEF Waiting
<1>3. \A q, n : n \in Waiting(q) => above(n) = { m \in Waiting(q) : m > n }
    BY DEF Waiting
<1> HIDE DEF p, above
<1>4. ASSUME NEW q \in PcbQueue, Waiting(q) # {}
      PROVE  /\ First(Waiting(q)) \in Waiting(q)
             /\ From(p, First(Waiting(q))) = Waiting(q)
             /\ Last(Waiting(q)) \in Waiting(q) /\ p[Last(Waiting(q))] = NULL
    <2> DEFINE W == Waiting(q)
               f == First(W)
    <2>1. W \subseteq Nat /\ W \subseteq 0 .. NULLPID /\ W \subseteq User
        BY <1>2
    <2>2. f \in W /\ \A m \in W : f <= m
        <3>1. \E n \in W : \A m \in W : n <= m
            BY <1>4, <2>1, LeastNat
        <3> QED
            BY <1>4, <3>1 DEF First
    <2>3. Last(W) \in W /\ \A m \in W : m <= Last(W)
        <3>1. \E n \in W : \A m \in W : m <= n
            BY <1>2, <1>4, <2>1, GreatestNat
        <3> QED
            BY <1>4, <3>1 DEF Last
    <2>4. p[Last(W)] = NULL
        <3>1. above(Last(W)) = {}
            BY <1>3, <2>1, <2>3
        <3> QED
            BY <1>1, <2>1, <2>3, <3>1 DEF First
    <2>5. ASSUME NEW n \in W
          PROVE  p[n] \in W \cup {NULL}
        <3>1. above(n) \subseteq W /\ above(n) \subseteq Nat
            BY <1>3, <2>1
        <3> QED
            BY <1>1, <2>1, <3>1, FirstOf
    <2> HIDE DEF W, f
    <2>6. From(p, f) \subseteq W
        BY <1>1, <2>1, <2>2, <2>5, FromLeast
    <2>7. ASSUME NEW S \in SUBSET User, f \in S,
                 \A m \in S : p[m] \in S \cup {NULL}, W \ S # {}
          PROVE  FALSE
        <3>1. PICK x \in W \ S : \A m \in W \ S : x <= m
            <4>1. W \ S \subseteq Nat
                BY <2>1
            <4> QED
                BY <2>7, <4>1, LeastNat
        <3> DEFINE T == { m \in W : m < x }
        <3>2. f \in T /\ T \subseteq 0 .. NULLPID
            <4>1. f # x /\ f <= x
                BY <2>2, <2>7, <3>1
            <4>2. f \in Nat /\ x \in Nat
                BY <2>1, <2>2, <3>1
            <4>3. f < x
                BY <4>1, <4>2
            <4> QED
                BY <2>1, <2>2, <4>3
        <3>3. PICK y \in T : \A m \in T : m <= y
            BY <1>2, <3>2, GreatestNat
        <3>4. y \in S /\ y \in W
            BY <2>1, <3>1, <3>3
        <3>5. p[y] = x
            <4>1. above(y) = { m \in W : m > y }
                BY <1>3, <3>4 DEF W
            <4>2. x \in Nat /\ y \in Nat /\ y < x /\ x \in W
                BY <2>1, <3>1, <3>3
            <4>3. x \in above(y)
                BY <4>1, <4>2
            <4>4. ASSUME NEW m \in above(y)
                  PROVE  m \in Nat /\ x <= m
                <5>1. m \in W /\ m > y /\ m \in Nat
                    BY <2>1, <4>1
                <5>2. ~ (m < x)
                    BY <3>3, <4>2, <5>1
                <5> QED
                    BY <4>2, <5>1, <5>2
            <4>5. First(above(y)) \in above(y) /\ \A m \in above(y) : First(above(y)) <= m
                BY <4>3, <4>4 DEF First
            <4>6. First(above(y)) = x
                <5>1. First(above(y)) \in Nat /\ x <= First(above(y))
                    BY <4>4, <4>5
                <5>2. First(above(y)) <= x
                    BY <4>3, <4>5
                <5> QED
                    BY <4>2, <5>1, <5>2
            <4> QED
                BY <1>1, <2>1, <3>4, <4>6
        <3> QED
            BY <1>2, <2>1, <2>7, <3>1, <3>4, <3>5
    <2>8. W \subseteq From(p, f)
        BY <1>1, <2>1, <2>7 DEF From
    <2> QED
        BY <2>2, <2>3, <2>4, <2>6, <2>8 DEF W, f
<1>5. ASSUME NEW q \in PcbQueue
      PROVE  On(InitPcbs, q) = Waiting(q)
    <2>1. CASE Waiting(q) = {}
        BY <1>1, <2>1 DEF On, First
    <2>2. CASE Waiting(q) # {}
        BY <1>1, <1>2, <1>4, <2>2 DEF On, p
    <2> QED
        BY <2>1, <2>2
<1>6. \A n \in User : OnNone(InitPcbs, PcbQueue, n) => p[n] = NULL
    <2>1. SUFFICES ASSUME NEW n \in User, OnNone(InitPcbs, PcbQueue, n)
                   PROVE  p[n] = NULL
        OBVIOUS
    <2>2. Priority[n] \in Level /\ Priority[n] \in PcbQueue
        BY TableAssumption, Domains
    <2>3. n = BootPid
        BY <1>5, <2>1, <2>2 DEF OnNone, Waiting
    <2>4. above(n) = {}
        BY <2>3 DEF above
    <2> QED
        BY <1>1, <2>4 DEF First
<1>7. \A q, k \in PcbQueue : q # k => On(InitPcbs, q) \cap On(InitPcbs, k) = {}
    BY <1>5 DEF Waiting
<1>8. \A q \in PcbQueue : InitPcbs.head[q] # NULL => /\ InitPcbs.tail[q] \in On(InitPcbs, q)
                                                     /\ p[InitPcbs.tail[q]] = NULL
    <2>1. SUFFICES ASSUME NEW q \in PcbQueue, InitPcbs.head[q] # NULL
                   PROVE  InitPcbs.tail[q] \in On(InitPcbs, q) /\ p[InitPcbs.tail[q]] = NULL
        OBVIOUS
    <2>2. Waiting(q) # {}
        BY <1>1, <2>1 DEF First
    <2> QED
        BY <1>1, <1>4, <1>5, <2>2
<1> QED
    BY <1>1, <1>5, <1>6, <1>7, <1>8 DEF WellFormed, p

LEMMA InitSchedInv == Init => SchedInv
<1> SUFFICES ASSUME Init
             PROVE  SchedInv
    OBVIOUS
<1>1. /\ pcbs = InitPcbs /\ priority = Priority /\ frames = <<>>
      /\ curr_process = BootPid /\ BootPid \in User
      /\ state = [p \in User |-> IF p = BootPid THEN "RUNNING" ELSE "READY"]
      /\ at = [p \in User |-> "user"]
      /\ Priority \in [User -> Level]
    BY TableAssumption DEF Init
<1>2. blocked_on_envelope \notin Level
    BY DEF Level, blocked_on_envelope
<1>3. PcbsInOrder
    <2>1. WellFormed(pcbs, User, PcbQueue)
        BY <1>1, InitPcbsInOrder
    <2>2. ReadyQueues(state, pcbs)
        BY <1>1, InitPcbsInOrder, Domains DEF ReadyQueues, Waiting
    <2>3. BlockedQueue(state, pcbs)
        <3>1. { p \in User : state[p] = "BLK_ON_ENV" } = {}
            BY <1>1
        <3>2. On(InitPcbs, blocked_on_envelope) = {}
            BY <1>2, InitPcbsInOrder, Domains DEF Waiting
        <3> QED
            BY <1>1, <3>1, <3>2 DEF BlockedQueue
    <2>4. ReadyQueued(state, pcbs)
        <3>1. SUFFICES ASSUME NEW p \in User, state[p] = "READY"
                       PROVE  p \in On(pcbs, priority[p])
            BY DEF ReadyQueued
        <3>2. p # BootPid /\ Priority[p] \in Level
            BY <1>1, <3>1
        <3>3. p \in Waiting(Priority[p])
            BY <3>2 DEF Waiting
        <3> QED
            BY <1>1, <3>2, <3>3, InitPcbsInOrder, Domains
    <2> QED
        BY <2>1, <2>2, <2>3, <2>4 DEF PcbsInOrder
<1>4. Whereabouts
    BY <1>1 DEF Whereabouts, Levels
<1>5. FramesNest /\ OneRunning
    BY <1>1 DEF FramesNest, OneRunning, Interrupted
<1>6. WokenHasMail
    BY <1>1 DEF WokenHasMail
<1> QED
    BY <1>3, <1>4, <1>5, <1>6 DEF SchedInv

-----------------------------------------------------------------------------
(* The calls on the PCB queues, when the store is in order.                *)
LEMMA PcbAdd ==
    ASSUME NEW q, WellFormed(q, User, PcbQueue), NEW k \in PcbQueue, NEW p \in User,
           OnNone(q, PcbQueue, p)
    PROVE  /\ WellFormed(PCB_ENQ(q, k, p), User, PcbQueue)
           /\ Adds(q, k, p, PCB_ENQ(q, k, p), PcbQueue)
BY ENQWellFormed, Domains

LEMMA PcbTake ==
    ASSUME NEW q, WellFormed(q, User, PcbQueue), NEW k \in PcbQueue
    PROVE  /\ WellFormed(PCB_DEQ(q, k), User, PcbQueue)
           /\ q.head[k] = NULL => On(q, k) = {} /\ PCB_DEQ(q, k) = q
           /\ q.head[k] # NULL => Takes(q, k, PCB_DEQ(q, k), PcbQueue) /\ q.head[k] \in User
<1>1. CASE q.head[k] = NULL
    BY <1>1 DEF PCB_DEQ, On
<1>2. CASE q.head[k] # NULL
    <2>1. Dequeued(q, k, PCB_DEQ(q, k)) /\ NULL \notin User
        BY Domains DEF Dequeued
    <2>2. WellFormed(PCB_DEQ(q, k), User, PcbQueue) /\ Takes(q, k, PCB_DEQ(q, k), PcbQueue)
        BY <1>2, <2>1, DEQWellFormed
    <2>3. q.head[k] \in User
        BY <1>2 DEF WellFormed, Store
    <2> QED
        BY <1>2, <2>2, <2>3
<1> QED
    BY <1>1, <1>2

(* A process that is neither ready nor blocked on envelopes is on no queue.*)
LEMMA Loose ==
    ASSUME NEW st, NEW q, ReadyQueues(st, q), BlockedQueue(st, q), NEW p \in User,
           st[p] # "READY", st[p] # "BLK_ON_ENV"
    PROVE  OnNone(q, PcbQueue, p)
BY DEF ReadyQueues, BlockedQueue, OnNone, PcbQueue

(* A switch from a process that is not RUNNING any more: the first ready   *)
(* process of the first level that has one is made RUNNING.                *)
Dispatched(st, q) ==
    /\ curr_process' \in User /\ st[curr_process'] = "READY"
    /\ state' = [st EXCEPT ![curr_process'] = "RUNNING"]
    /\ fault' = fault
    /\ \A l \in Level : On(q, l) # {} => priority[curr_process'] <= l

NothingReady(st, q, otherwise) ==
    /\ \A l \in Level : On(q, l) = {}
    /\ state' = st /\ pcbs' = q /\ curr_process' = curr_process /\ fault' = otherwise

(* Nobody who is Kept and ready then has a higher priority.                *)
Highest ==
    curr_process' # curr_process =>
        \A r \in User : Kept(r) /\ state'[r] = "READY"
                        => priority[curr_process'] <= priority[r]

LEMMA SwitchSched ==
    ASSUME NEW st \in [User -> States], NEW q, WellFormed(q, User, PcbQueue),
           ReadyQueues(st, q), BlockedQueue(st, q),
           ReadyQueued(st, q),
           \A r \in User : st[r] # "RUNNING",
           NEW resume, NEW otherwise, process_switch(st, q, resume, otherwise),
           curr_process \in User, UNCHANGED priority, TypeOK
    PROVE  /\ PcbsInOrder'
           /\ Dispatched(st, q) \/ NothingReady(st, q, otherwise)
           /\ Highest
<1> DEFINE ready == { l \in Level : q.head[l] # NULL }
           level == First(ready)
           new   == q.head[level]
           old   == IF st[curr_process] = "RUNNING" THEN "READY" ELSE st[curr_process]
<1>1. CASE ready = {}
    <2>1. state' = st /\ pcbs' = q /\ fault' = otherwise /\ curr_process' = curr_process
        BY <1>1 DEF process_switch
    <2>2. \A l \in Level : On(q, l) = {}
        BY <1>1 DEF On
    <2>3. PcbsInOrder'
        BY <2>1 DEF PcbsInOrder, ReadyQueues, BlockedQueue, ReadyQueued
    <2> QED
        BY <2>1, <2>2, <2>3 DEF NothingReady, Highest
<1>2. CASE ready # {}
    <2>1. /\ state' = [st EXCEPT ![curr_process] = old, ![new] = "RUNNING"]
          /\ pcbs' = PCB_DEQ(q, level) /\ curr_process' = new /\ fault' = fault
        BY <1>2 DEF process_switch
    <2>2. level \in ready /\ \A l \in ready : level <= l
        <3>1. ready \subseteq Nat
            BY Domains
        <3> HIDE DEF ready
        <3>2. \E n \in ready : \A m \in ready : n <= m
            BY <1>2, <3>1, LeastNat
        <3> QED
            BY <1>2, <3>2 DEF First
    <2>3. level \in PcbQueue /\ level \in Level /\ q.head[level] # NULL
        BY <2>2, Domains
    <2>4. old = st[curr_process]
        OBVIOUS
    <2> HIDE DEF level, old
    <2>5. /\ WellFormed(pcbs', User, PcbQueue)
          /\ Takes(q, level, pcbs', PcbQueue) /\ new \in User
        BY <2>1, <2>3, PcbTake
    <2>6. /\ On(pcbs', level) = On(q, level) \ {new}
          /\ new \in On(q, level)
          /\ \A k \in PcbQueue : k # level => On(pcbs', k) = On(q, k)
        BY <2>5 DEF Takes
    <2> HIDE DEF new
    <2>7. st[new] = "READY" /\ priority[new] = level
        BY <2>3, <2>5, <2>6 DEF ReadyQueues
    <2>8. state' = [st EXCEPT ![new] = "RUNNING"]
        BY <2>1, <2>4
    <2>9. /\ state'[new] = "RUNNING"
          /\ \A r \in User : r # new => state'[r] = st[r]
        BY <2>5, <2>8
    <2>10. \A l \in Level : new \in On(q, l) => l = level
        BY <2>5, <2>7 DEF ReadyQueues
    <2>11. ReadyQueues(state', pcbs')
        BY <2>3, <2>6, <2>9, <2>10, Domains DEF ReadyQueues
    <2>12. BlockedQueue(state', pcbs')
        <3>1. blocked_on_envelope # level /\ blocked_on_envelope \in PcbQueue
            BY <2>3, Domains DEF Level, blocked_on_envelope
        <3> QED
            BY <2>6, <2>7, <2>9, <3>1 DEF BlockedQueue
    <2>13. ReadyQueued(state', pcbs')
        <3>1. SUFFICES ASSUME NEW r \in User, Kept(r), state'[r] = "READY"
                       PROVE  r \in On(pcbs', priority[r])
            BY DEF ReadyQueued
        <3>2. r # new /\ r \in On(q, priority[r]) /\ priority[r] \in PcbQueue
            BY <2>9, <3>1, Domains DEF ReadyQueued, TypeOK
        <3> QED
            BY <2>6, <3>2
    <2>14. PcbsInOrder'
        BY <2>5, <2>11, <2>12, <2>13 DEF PcbsInOrder, ReadyQueues, BlockedQueue, ReadyQueued
    <2>15. \A l \in Level : On(q, l) # {} => level <= l
        BY <2>2 DEF On
    <2>16. Dispatched(st, q)
        BY <2>1, <2>5, <2>7, <2>8, <2>15 DEF Dispatched
    <2>17. ASSUME NEW r \in User, Kept(r), state'[r] = "READY"
           PROVE  priority[new] <= priority[r]
        <3>1. st[r] = "READY"
            BY <2>9, <2>17
        <3>2. r \in On(q, priority[r]) /\ priority[r] \in Level
            BY <2>17, <3>1 DEF ReadyQueued, TypeOK
        <3> QED
            BY <2>7, <2>15, <3>2
    <2> QED
        BY <2>1, <2>14, <2>16, <2>17 DEF Highest
<1> QED
    BY <1>1, <1>2

(* The process whose program runs is the RUNNING one, on no queue.         *)
LEMMA RunsAlone ==
    ASSUME TypeOK, SchedInv, NEW p \in User, Runs(p)
    PROVE  /\ state[p] = "RUNNING" /\ \A r \in User : r # p => state[r] # "RUNNING"
           /\ OnNone(pcbs, PcbQueue, p)
           /\ curr_process = p /\ frames = <<>> /\ fault = "none"
<1>1. curr_process = p /\ frames = <<>> /\ fault = "none"
    BY DEF Runs
<1>2. state[p] = "RUNNING" /\ \A r \in User : r # p => state[r] # "RUNNING"
    BY <1>1 DEF SchedInv, OneRunning, Interrupted
<1>3. OnNone(pcbs, PcbQueue, p)
    BY <1>2, Loose DEF SchedInv, PcbsInOrder
<1> QED
    BY <1>1, <1>2, <1>3

(* The other parts of the invariant across a switch: p gives up the        *)
(* processor with its state in st, and is to go on at resume.              *)
SwitchedAway(p, st, q, resume, otherwise) ==
    /\ st[p] \in {"READY", "BLK_ON_ENV", "BLK_ON_RCV"}
    /\ \A r \in User : r # p => st[r] = state[r]
    /\ resume \in {"request", "receive", "user"}
    /\ resume # "user" => p \in Client
    /\ st[p] = "BLK_ON_ENV" => resume = "request"
    /\ st[p] = "BLK_ON_RCV" <=> resume = "receive"
    /\ at' = [at EXCEPT ![p] = resume]
    /\ Dispatched(st, q) \/ (NothingReady(st, q, otherwise) /\ otherwise # "none")

(* What a step does, beyond keeping the invariant: the bodies of the       *)
(* action properties, and that the RTX does not stop.                      *)
Wakes ==
    \A p \in User :
        state[p] = "BLK_ON_RCV" /\ state'[p] # "BLK_ON_RCV"
        => /\ state'[p] = "READY"
           /\ envs'.head[p] # NULL
           /\ Chain(pcbs', priority[p]) = Append(Chain(pcbs, priority[p]), p)

Chooses ==
    (frames = <<>> /\ frames' = <<>> /\ curr_process' # curr_process)
    => \A p \in User : Kept(p) /\ state'[p] = "READY"
                       => priority[curr_process'] <= priority[p]

GoesOn == Kept(NULLPID) /\ NoFault => NoFault'

SchedStep == Wakes /\ Chooses /\ GoesOn

LEMMA UserFinite == IsFiniteSet(User)
<1>1. IsFiniteSet(0 .. NULLPID)
    BY FS_Interval, Domains
<1> QED
    BY <1>1, FS_Subset, Domains

LEMMA SwitchRest ==
    ASSUME TypeOK, SchedInv, NEW p \in User, Runs(p), NEW st \in [User -> States],
           NEW q, NEW resume, NEW otherwise, SwitchedAway(p, st, q, resume, otherwise),
           UNCHANGED <<priority, frames, envs>>,
           ReadyQueued(st, q), Highest
    PROVE  Whereabouts' /\ FramesNest' /\ OneRunning' /\ WokenHasMail' /\ SchedStep
<1>1. /\ \A r \in User : r # p => st[r] = state[r]
      /\ \A r \in User : st[r] # "RUNNING"
      /\ curr_process = p /\ frames' = <<>>
    BY RunsAlone DEF SwitchedAway
<1>2. at'[p] = resume /\ \A r \in User : r # p => at'[r] = at[r]
    BY DEF TypeOK, SwitchedAway
<1>3. \/ /\ curr_process' \in User /\ st[curr_process'] = "READY"
         /\ state'[curr_process'] = "RUNNING"
         /\ \A r \in User : r # curr_process' => state'[r] = st[r]
      \/ state' = st /\ curr_process' = p /\ fault' # "none"
    BY <1>1 DEF SwitchedAway, Dispatched, NothingReady
<1>4. \A r \in User : \/ state'[r] = st[r]
                      \/ st[r] = "READY" /\ state'[r] = "RUNNING"
    BY <1>3
<1>5. Whereabouts'
    BY <1>1, <1>2, <1>4 DEF SwitchedAway, SchedInv, Whereabouts
<1>6. FramesNest'
    BY <1>1, <1>3 DEF FramesNest, Interrupted
<1>7. OneRunning'
    BY <1>1, <1>3 DEF OneRunning, Interrupted
<1>8. WokenHasMail'
    BY <1>1, <1>2, <1>4 DEF SwitchedAway, SchedInv, WokenHasMail
<1>9. Wakes
    <2>1. state[p] = "RUNNING"
        BY RunsAlone
    <2> QED
        BY <1>1, <1>4, <2>1 DEF Wakes
<1>10. Chooses
    BY <1>1, <1>3 DEF Chooses, Highest
<1>11. GoesOn
    <2>1. SUFFICES ASSUME Kept(NULLPID), NoFault
                   PROVE  NoFault'
        BY DEF GoesOn
    <2>2. NULLPID \in User /\ NULLPID \notin Client
        BY TableAssumption DEF Client
    <2>3. st[NULLPID] = "READY"
        <3>1. st[NULLPID] # "BLK_ON_ENV" /\ st[NULLPID] # "BLK_ON_RCV"
            BY <1>1, <2>2 DEF SwitchedAway, SchedInv, Whereabouts
        <3> QED
            BY <1>1, <2>2, <3>1 DEF States
    <2>4. NULLPID \in On(q, priority[NULLPID]) /\ priority[NULLPID] \in Level
        BY <2>1, <2>2, <2>3 DEF ReadyQueued, TypeOK
    <2>5. Dispatched(st, q)
        BY <2>4 DEF SwitchedAway, NothingReady
    <2> QED
        BY <2>1, <2>5 DEF Dispatched, NoFault
<1> QED
    BY <1>5, <1>6, <1>7, <1>8, <1>9, <1>10, <1>11 DEF SchedStep

-----------------------------------------------------------------------------
(* The heads of the receive queues.                                        *)
LEMMA HeadsAfterDEQ ==
    ASSUME TypeOK, NEW q \in EnvQueue, envs' = env_DEQ(envs, q)
    PROVE  \A k \in PID : k # q => envs'.head[k] = envs.head[k]
BY DEQHeads, Domains DEF TypeOK

LEMMA HeadsAfterENQ ==
    ASSUME TypeOK, NEW q, NEW e \in Env, envs' = env_ENQ(envs, q, e)
    PROVE  \A k \in PID : \/ envs'.head[k] = envs.head[k] /\ k # q
                          \/ k = q /\ envs'.head[k] # NULL
BY Domains DEF TypeOK, Store, env_ENQ, PCB_ENQ

(* A step that leaves the processes and their queues alone, and takes a    *)
(* message from no process that was woken for it.                          *)
LEMMA MailRest ==
    ASSUME TypeOK, SchedInv, UNCHANGED <<state, priority, pcbs>>,
           \A p \in User : at'[p] \in {"request", "receive"} => at'[p] = at[p],
           \A p \in User : state[p] \in {"BLK_ON_ENV", "BLK_ON_RCV"} => at'[p] = at[p],
           \A p \in User : at'[p] = "receive" /\ envs.head[p] # NULL => envs'.head[p] # NULL
    PROVE  PcbsInOrder' /\ Whereabouts' /\ WokenHasMail'
<1>1. PcbsInOrder'
    BY DEF SchedInv, PcbsInOrder, ReadyQueues, BlockedQueue, ReadyQueued
<1>2. Whereabouts'
    BY DEF SchedInv, Whereabouts
<1>3. WokenHasMail'
    BY DEF SchedInv, WokenHasMail
<1> QED
    BY <1>1, <1>2, <1>3

(* A step that changes neither who is interrupted nor who is RUNNING.      *)
SameProcessor == FramesNest' /\ Interrupted' = Interrupted /\ UNCHANGED fault

LEMMA SameFrames ==
    ASSUME SchedInv, UNCHANGED <<curr_process, frames, fault>>
    PROVE  SameProcessor
BY DEF SchedInv, FramesNest, Interrupted, Top, SameProcessor

LEMMA SameRunning ==
    ASSUME SchedInv, SameProcessor, UNCHANGED state
    PROVE  FramesNest' /\ OneRunning'
BY DEF SchedInv, OneRunning, SameProcessor

(* A step that wakes nobody and does not switch.                           *)
LEMMA Stays ==
    ASSUME SameProcessor, UNCHANGED state
    PROVE  SchedStep
BY DEF SchedStep, Wakes, Chooses, GoesOn, NoFault, SameProcessor, Interrupted

(* A process that was blocked is made ready, once it is on no queue.       *)
LEMMA Woken ==
    ASSUME TypeOK, SchedInv, NEW w \in User, state[w] \in {"BLK_ON_ENV", "BLK_ON_RCV"},
           NEW q, WellFormed(q, User, PcbQueue), OnNone(q, PcbQueue, w),
           \A l \in Level : On(q, l) = On(pcbs, l),
           On(q, blocked_on_envelope) = On(pcbs, blocked_on_envelope) \ {w},
           state' = [state EXCEPT ![w] = "READY"],
           pcbs' = PCB_ENQ(q, priority[w], w),
           SameProcessor, UNCHANGED <<priority, at>>,
           \A p \in User : envs.head[p] # NULL => envs'.head[p] # NULL,
           state[w] = "BLK_ON_RCV" => envs'.head[w] # NULL /\ q = pcbs
    PROVE  SchedInv' /\ SchedStep
<1>1. /\ WellFormed(pcbs, User, PcbQueue) /\ ReadyQueues(state, pcbs)
      /\ BlockedQueue(state, pcbs) /\ ReadyQueued(state, pcbs)
      /\ priority[w] \in Level /\ priority[w] \in PcbQueue
      /\ blocked_on_envelope \in PcbQueue /\ blocked_on_envelope \notin Level
    BY Domains DEF SchedInv, PcbsInOrder, TypeOK, Level, blocked_on_envelope
<1>2. state'[w] = "READY" /\ \A r \in User : r # w => state'[r] = state[r]
    BY DEF TypeOK
<1>3. WellFormed(pcbs', User, PcbQueue) /\ Adds(q, priority[w], w, pcbs', PcbQueue)
    BY <1>1, PcbAdd
<1>4. /\ On(pcbs', priority[w]) = On(pcbs, priority[w]) \cup {w}
      /\ \A l \in Level : l # priority[w] => On(pcbs', l) = On(pcbs, l)
      /\ On(pcbs', blocked_on_envelope) = On(pcbs, blocked_on_envelope) \ {w}
    BY <1>1, <1>3, Domains DEF Adds
<1>5. ReadyQueues(state', pcbs')
    BY <1>1, <1>2, <1>4 DEF ReadyQueues
<1>6. BlockedQueue(state', pcbs')
    BY <1>1, <1>2, <1>4 DEF BlockedQueue
<1>7. ReadyQueued(state', pcbs')
    BY <1>1, <1>2, <1>4 DEF ReadyQueued, TypeOK
<1>8. PcbsInOrder'
    BY <1>3, <1>5, <1>6, <1>7 DEF PcbsInOrder, ReadyQueues, BlockedQueue, ReadyQueued
<1>9. Whereabouts'
    BY <1>2 DEF SchedInv, Whereabouts
<1>10. FramesNest' /\ OneRunning'
    BY <1>2 DEF SchedInv, OneRunning, SameProcessor
<1>11. WokenHasMail'
    <2>1. SUFFICES ASSUME NEW r \in User, at[r] = "receive", state'[r] # "BLK_ON_RCV"
                   PROVE  envs'.head[r] # NULL
        BY DEF WokenHasMail
    <2>2. CASE r = w
        BY <2>1, <2>2 DEF SchedInv, Whereabouts
    <2>3. CASE r # w
        BY <1>2, <2>1, <2>3 DEF SchedInv, WokenHasMail
    <2> QED
        BY <2>2, <2>3
<1>12. ASSUME state[w] = "BLK_ON_RCV"
       PROVE  Chain(pcbs', priority[w]) = Append(Chain(pcbs, priority[w]), w)
    <2>1. q = pcbs
        BY <1>12
    <2>2. AddsLast(q, priority[w], w, PCB_ENQ(q, priority[w], w), PcbQueue)
        <3>1. /\ Ordered(q, User, PcbQueue, {}) /\ HasTail(q, priority[w])
              /\ NULL \notin User /\ w \in User \ {}
            BY <1>1, WellFormedOrdered, Domains
        <3> QED
            BY <1>1, <3>1, UserFinite, ENQChain
    <2> QED
        BY <2>1, <2>2 DEF AddsLast
<1>13. Wakes
    BY <1>2, <1>12 DEF Wakes
<1>14. SchedStep
    BY <1>13 DEF SchedStep, Chooses, GoesOn, NoFault, SameProcessor, Interrupted
<1> QED
    BY <1>8, <1>9, <1>10, <1>11, <1>14 DEF SchedInv

-----------------------------------------------------------------------------
(* One lemma per action.                                                   *)
LEMMA RequestEnvSched ==
    ASSUME TypeOK, SchedInv, NEW p \in User, RequestEnv(p)
    PROVE  SchedInv' /\ SchedStep
<1>1. /\ Runs(p) /\ p \in Client /\ UNCHANGED <<priority, frames>>
      /\ state[p] = "RUNNING" /\ \A r \in User : r # p => state[r] # "RUNNING"
      /\ OnNone(pcbs, PcbQueue, p) /\ curr_process = p
    BY RunsAlone DEF RequestEnv, SchedInv, Whereabouts
<1>2. CASE envs.head[envelope_q] # NULL
    <2>1. /\ envs' = env_DEQ(envs, envelope_q) /\ at' = [at EXCEPT ![p] = "user"]
          /\ UNCHANGED <<curr_process, state, pcbs, fault>>
        BY <1>2 DEF RequestEnv
    <2>2. \A k \in User : envs'.head[k] = envs.head[k]
        BY <2>1, HeadsAfterDEQ, Domains
    <2>3. at'[p] = "user" /\ \A r \in User : r # p => at'[r] = at[r]
        BY <2>1 DEF TypeOK
    <2> QED
        BY <1>1, <2>1, <2>2, <2>3, MailRest, SameFrames, SameRunning, Stays DEF SchedInv
<1>3. CASE envs.head[envelope_q] = NULL
    <2> DEFINE st == [state EXCEPT ![p] = "BLK_ON_ENV"]
               q  == PCB_ENQ(pcbs, blocked_on_envelope, p)
    <2>1. process_switch(st, q, "request", "spin") /\ UNCHANGED envs
        BY <1>3 DEF RequestEnv
    <2>2. /\ st \in [User -> States] /\ st[p] = "BLK_ON_ENV"
          /\ \A r \in User : r # p => st[r] = state[r]
          /\ \A r \in User : st[r] # "RUNNING"
        BY <1>1 DEF TypeOK, States
    <2>3. /\ WellFormed(q, User, PcbQueue)
          /\ Adds(pcbs, blocked_on_envelope, p, q, PcbQueue)
        BY <1>1, PcbAdd, Domains DEF SchedInv, PcbsInOrder
    <2>4. /\ On(q, blocked_on_envelope) = On(pcbs, blocked_on_envelope) \cup {p}
          /\ \A l \in Level : On(q, l) = On(pcbs, l)
        <3>1. \A l \in Level : l # blocked_on_envelope /\ l \in PcbQueue
            BY Domains DEF Level, blocked_on_envelope
        <3> QED
            BY <2>3, <3>1 DEF Adds
    <2> HIDE DEF q
    <2>5. ReadyQueues(st, q)
        BY <1>1, <2>2, <2>4 DEF SchedInv, PcbsInOrder, ReadyQueues
    <2>6. BlockedQueue(st, q)
        BY <1>1, <2>2, <2>4 DEF SchedInv, PcbsInOrder, BlockedQueue
    <2>7. ReadyQueued(st, q)
        BY <1>1, <2>2, <2>4 DEF SchedInv, PcbsInOrder, ReadyQueued, TypeOK
    <2>8. /\ PcbsInOrder'
          /\ Dispatched(st, q) \/ NothingReady(st, q, "spin")
          /\ Highest
        <3> HIDE DEF st
        <3> QED
            BY <1>1, <2>1, <2>2, <2>3, <2>5, <2>6, <2>7, SwitchSched
    <2>9. at' = [at EXCEPT ![p] = "request"]
        BY <1>1, <2>1 DEF process_switch
    <2>10. SwitchedAway(p, st, q, "request", "spin")
        BY <1>1, <2>2, <2>8, <2>9 DEF SwitchedAway
    <2> HIDE DEF st
    <2>11. Whereabouts' /\ FramesNest' /\ OneRunning' /\ WokenHasMail' /\ SchedStep
        BY <1>1, <2>1, <2>2, <2>7, <2>8, <2>10, SwitchRest
    <2> QED
        BY <2>8, <2>11 DEF SchedInv
<1> QED
    BY <1>2, <1>3

LEMMA ReleaseEnvSched ==
    ASSUME TypeOK, SchedInv, NEW p \in User, NEW e \in Env, ReleaseEnv(p, e)
    PROVE  SchedInv' /\ SchedStep
<1> DEFINE temp == pcbs.head[blocked_on_envelope]
           q    == PCB_DEQ(pcbs, blocked_on_envelope)
<1>1. /\ envs' = env_ENQ(envs, envelope_q, e)
      /\ UNCHANGED <<curr_process, priority, at, frames, fault>>
    BY DEF ReleaseEnv, k_release_msg_env
<1>2. \A k \in User : envs.head[k] # NULL => envs'.head[k] # NULL
    BY <1>1, HeadsAfterENQ, Domains
<1>3. CASE temp = NULL
    <2>1. UNCHANGED <<state, pcbs>>
        BY <1>3 DEF ReleaseEnv, k_release_msg_env
    <2> QED
        BY <1>1, <1>2, <2>1, MailRest, SameFrames, SameRunning, Stays DEF SchedInv
<1>4. CASE temp # NULL
    <2>1. /\ state' = [state EXCEPT ![temp] = "READY"]
          /\ pcbs' = PCB_ENQ(q, priority[temp], temp)
        BY <1>4 DEF ReleaseEnv, k_release_msg_env
    <2>2. /\ WellFormed(q, User, PcbQueue) /\ temp \in User
          /\ Takes(pcbs, blocked_on_envelope, q, PcbQueue)
        BY <1>4, PcbTake, Domains DEF SchedInv, PcbsInOrder
    <2>3. /\ temp \in On(pcbs, blocked_on_envelope)
          /\ On(q, blocked_on_envelope) = On(pcbs, blocked_on_envelope) \ {temp}
          /\ \A k \in PcbQueue : k # blocked_on_envelope => On(q, k) = On(pcbs, k)
        BY <2>2 DEF Takes
    <2> HIDE DEF q, temp
    <2>4. state[temp] = "BLK_ON_ENV"
        BY <2>3 DEF SchedInv, PcbsInOrder, BlockedQueue
    <2>5. \A l \in Level : On(q, l) = On(pcbs, l) /\ l \in PcbQueue
        BY <2>3, Domains DEF Level, blocked_on_envelope
    <2>6. OnNone(q, PcbQueue, temp)
        BY <2>2, <2>3, <2>4, <2>5 DEF OnNone, PcbQueue, SchedInv, PcbsInOrder, ReadyQueues
    <2> QED
        BY <1>1, <1>2, <2>1, <2>2, <2>3, <2>4, <2>5, <2>6, Woken, SameFrames
<1> QED
    BY <1>3, <1>4

(* A send, by a program or by a handler, as far as the scheduler goes.     *)
LEMMA SendSched ==
    ASSUME TypeOK, SchedInv, NEW dest_id, NEW e \in Env, k_send_message(dest_id, e),
           SameProcessor, UNCHANGED <<priority, at>>
    PROVE  SchedInv' /\ SchedStep
<1>1. envs' = env_ENQ(envs, dest_id, e)
    BY DEF k_send_message
<1>2. \A k \in User : /\ envs.head[k] # NULL => envs'.head[k] # NULL
                      /\ k = dest_id => envs'.head[k] # NULL
    BY <1>1, HeadsAfterENQ, Domains
<1>3. CASE dest_id \in User /\ state[dest_id] = "BLK_ON_RCV"
    <2>1. /\ pcbs' = PCB_ENQ(pcbs, priority[dest_id], dest_id)
          /\ state' = [state EXCEPT ![dest_id] = "READY"]
        BY <1>3 DEF k_send_message
    <2>2. WellFormed(pcbs, User, PcbQueue) /\ OnNone(pcbs, PcbQueue, dest_id)
        BY <1>3, Loose DEF SchedInv, PcbsInOrder
    <2>3. On(pcbs, blocked_on_envelope) = On(pcbs, blocked_on_envelope) \ {dest_id}
        BY <2>2, Domains DEF OnNone
    <2> QED
        BY <1>2, <1>3, <2>1, <2>2, <2>3, Woken
<1>4. CASE ~ (dest_id \in User /\ state[dest_id] = "BLK_ON_RCV")
    <2>1. UNCHANGED <<pcbs, state>>
        BY <1>4 DEF k_send_message
    <2> QED
        BY <1>2, <2>1, MailRest, SameFrames, SameRunning, Stays DEF SchedInv
<1> QED
    BY <1>3, <1>4

LEMMA SendMessageSched ==
    ASSUME TypeOK, SchedInv, NEW p \in User, NEW e \in Env, NEW dest_id \in PID,
           SendMessage(p, dest_id, e)
    PROVE  SchedInv' /\ SchedStep
BY SendSched, SameFrames DEF SendMessage

LEMMA TakeMessageSched ==
    ASSUME TypeOK, SchedInv, NEW p \in User, Runs(p), TakeMessage(p),
           UNCHANGED <<priority, frames>>
    PROVE  SchedInv' /\ SchedStep
<1>1. /\ envs' = env_DEQ(envs, p) /\ at' = [at EXCEPT ![p] = "user"]
      /\ UNCHANGED <<curr_process, state, pcbs, fault>>
    BY DEF TakeMessage
<1>2. \A k \in User : k # p => envs'.head[k] = envs.head[k]
    BY <1>1, HeadsAfterDEQ, Domains
<1>3. at'[p] = "user" /\ \A r \in User : r # p => at'[r] = at[r]
    BY <1>1 DEF TypeOK
<1>4. state[p] = "RUNNING"
    BY RunsAlone
<1>5. PcbsInOrder' /\ Whereabouts' /\ WokenHasMail'
    BY <1>1, <1>2, <1>3, <1>4, MailRest
<1> QED
    BY <1>1, <1>5, SameFrames, SameRunning, Stays DEF SchedInv

(* The PCB_DEQ on the way to being blocked takes a process that is ready   *)
(* off its queue, if the level has one.                                    *)
LEMMA ReceiveMessageSched ==
    ASSUME TypeOK, SchedInv, NEW p \in User, ReceiveMessage(p)
    PROVE  SchedInv' /\ SchedStep
<1>1. /\ Runs(p) /\ p \in Client /\ UNCHANGED <<priority, frames>>
      /\ state[p] = "RUNNING" /\ \A r \in User : r # p => state[r] # "RUNNING"
      /\ curr_process = p
    BY RunsAlone DEF ReceiveMessage
<1>2. CASE envs.head[p] # NULL
    <2>1. TakeMessage(p) /\ UNCHANGED curr_process
        BY <1>2 DEF ReceiveMessage, TakeMessage
    <2> QED
        BY <1>1, <2>1, TakeMessageSched DEF Highest
<1>3. CASE envs.head[p] = NULL
    <2> DEFINE st == [state EXCEPT ![p] = "BLK_ON_RCV"]
               l  == priority[p]
               q  == PCB_DEQ(pcbs, l)
    <2>1. process_switch(st, q, "receive", "null_env") /\ UNCHANGED envs
        BY <1>3 DEF ReceiveMessage
    <2>2. /\ st \in [User -> States] /\ st[p] = "BLK_ON_RCV"
          /\ \A r \in User : r # p => st[r] = state[r]
          /\ \A r \in User : st[r] # "RUNNING"
        BY <1>1 DEF TypeOK, States
    <2>3. l \in Level /\ l \in PcbQueue
        BY Domains DEF TypeOK
    <2>4. /\ WellFormed(q, User, PcbQueue)
          /\ pcbs.head[l] = NULL => q = pcbs
          /\ pcbs.head[l] # NULL => Takes(pcbs, l, q, PcbQueue) /\ pcbs.head[l] \in User
        BY <2>3, PcbTake DEF SchedInv, PcbsInOrder
    <2>5. /\ \A k \in PcbQueue : On(q, k) \subseteq On(pcbs, k)
          /\ \A k \in PcbQueue : k # l => On(q, k) = On(pcbs, k)
        BY <2>4 DEF Takes
    <2> HIDE DEF q
    <2>6. ReadyQueues(st, q)
        <3>1. SUFFICES ASSUME NEW r \in User, NEW k \in Level, r \in On(q, k)
                       PROVE  st[r] = "READY" /\ priority[r] = k
            BY DEF ReadyQueues
        <3>2. r \in On(pcbs, k)
            BY <2>5, <3>1, Domains
        <3>3. state[r] = "READY" /\ priority[r] = k
            BY <3>2 DEF SchedInv, PcbsInOrder, ReadyQueues
        <3> QED
            BY <1>1, <2>2, <3>3
    <2>7. BlockedQueue(st, q)
        <3>1. On(q, blocked_on_envelope) = On(pcbs, blocked_on_envelope)
            BY <2>3, <2>5, Domains DEF Level, blocked_on_envelope
        <3> QED
            BY <1>1, <2>2, <3>1 DEF SchedInv, PcbsInOrder, BlockedQueue
    <2>8. ReadyQueued(st, q)
        <3>1. SUFFICES ASSUME NEW r \in User, Kept(r), st[r] = "READY"
                       PROVE  r \in On(q, priority[r])
            BY DEF ReadyQueued
        <3>2. r # p /\ state[r] = "READY" /\ priority[r] \in PcbQueue
            BY <2>2, <3>1, Domains DEF TypeOK
        <3>3. priority[r] \in Levels(r) /\ l \in Levels(p)
            BY <3>1 DEF SchedInv, Whereabouts
        <3>4. priority[r] # l
            BY <1>1, <3>1, <3>2, <3>3 DEF Kept
        <3>5. r \in On(pcbs, priority[r])
            BY <3>1, <3>2 DEF SchedInv, PcbsInOrder, ReadyQueued
        <3> QED
            BY <2>5, <3>2, <3>4, <3>5
    <2>9. /\ PcbsInOrder'
          /\ Dispatched(st, q) \/ NothingReady(st, q, "null_env")
          /\ Highest
        <3> HIDE DEF st
        <3> QED
            BY <1>1, <2>1, <2>2, <2>4, <2>6, <2>7, <2>8, SwitchSched
    <2>10. at' = [at EXCEPT ![p] = "receive"]
        BY <1>1, <2>1 DEF process_switch
    <2>11. SwitchedAway(p, st, q, "receive", "null_env")
        BY <1>1, <2>2, <2>9, <2>10 DEF SwitchedAway
    <2> HIDE DEF st
    <2>12. Whereabouts' /\ FramesNest' /\ OneRunning' /\ WokenHasMail' /\ SchedStep
        BY <1>1, <2>1, <2>2, <2>8, <2>9, <2>11, SwitchRest
    <2> QED
        BY <2>9, <2>12 DEF SchedInv
<1> QED
    BY <1>2, <1>3

(* A process that goes on behind process_switch finds its message, and     *)
(* takes it at once or begins to.                                          *)
LEMMA ResumeReceiveFinds ==
    ASSUME TypeOK, SchedInv, NEW p \in User, ResumeReceive(p)
    PROVE  /\ Runs(p) /\ envs.head[p] # NULL /\ at[p] = "receive"
           /\ UNCHANGED <<priority, frames>>
           /\ \/ TakeMessage(p)
              \/ /\ at' = [at EXCEPT ![p] = "taking"]
                 /\ UNCHANGED <<curr_process, state, pcbs, envs, held, fault>>
<1>1. state[p] = "RUNNING" /\ at[p] = "receive" /\ Runs(p)
    BY RunsAlone DEF ResumeReceive
<1>2. envs.head[p] # NULL
    BY <1>1 DEF SchedInv, WokenHasMail
<1>3. UNCHANGED <<priority, frames>>
    BY DEF ResumeReceive
<1>4. \/ TakeMessage(p)
      \/ /\ at' = [at EXCEPT ![p] = "taking"]
         /\ UNCHANGED <<curr_process, state, pcbs, envs, held, fault>>
    <2>1. CASE envs.p[envs.head[p]] # NULL
        BY <1>2, <2>1 DEF ResumeReceive
    <2>2. CASE envs.p[envs.head[p]] = NULL
        BY <1>2, <2>2 DEF ResumeReceive
    <2> QED
        BY <2>1, <2>2
<1> QED
    BY <1>1, <1>2, <1>3, <1>4

(* The running process goes from place to place of its dequeue.            *)
LEMMA DequeueSched ==
    ASSUME TypeOK, SchedInv, NEW p \in User, Runs(p), NEW x \in {"user", "taking", "emptied"},
           at' = [at EXCEPT ![p] = x],
           UNCHANGED <<curr_process, state, priority, pcbs, frames, fault>>,
           \A k \in User : k # p => envs'.head[k] = envs.head[k]
    PROVE  SchedInv' /\ SchedStep
<1>1. at'[p] = x /\ \A r \in User : r # p => at'[r] = at[r]
    BY DEF TypeOK
<1>2. state[p] = "RUNNING"
    BY RunsAlone
<1>3. PcbsInOrder' /\ Whereabouts' /\ WokenHasMail'
    BY <1>1, <1>2, MailRest
<1> QED
    BY <1>3, SameFrames, SameRunning, Stays DEF SchedInv

LEMMA ResumeReceiveSched ==
    ASSUME TypeOK, SchedInv, NEW p \in User, ResumeReceive(p)
    PROVE  SchedInv' /\ SchedStep
<1>1. CASE TakeMessage(p)
    BY <1>1, ResumeReceiveFinds, TakeMessageSched
<1>2. CASE /\ at' = [at EXCEPT ![p] = "taking"]
           /\ UNCHANGED <<curr_process, state, pcbs, envs, held, fault>>
    BY <1>2, ResumeReceiveFinds, DequeueSched
<1> QED
    BY <1>1, <1>2, ResumeReceiveFinds

LEMMA StoreHeadSched ==
    ASSUME TypeOK, SchedInv, NEW p \in User, StoreHead(p)
    PROVE  SchedInv' /\ SchedStep
<1>1. /\ Runs(p) /\ at' = [at EXCEPT ![p] = "emptied"]
      /\ envs' = [envs EXCEPT !.head[p] = NULL, !.p[envs.head[p]] = NULL]
      /\ UNCHANGED <<curr_process, state, priority, pcbs, frames, fault>>
    BY DEF StoreHead
<1>2. \A k \in User : k # p => envs'.head[k] = envs.head[k]
    BY <1>1, Domains DEF TypeOK, Store
<1> QED
    BY <1>1, <1>2, DequeueSched

LEMMA StoreTailSched ==
    ASSUME TypeOK, SchedInv, NEW p \in User, StoreTail(p)
    PROVE  SchedInv' /\ SchedStep
<1>1. /\ Runs(p) /\ at' = [at EXCEPT ![p] = "user"]
      /\ envs' = [envs EXCEPT !.tail[p] = NULL]
      /\ UNCHANGED <<curr_process, state, priority, pcbs, frames, fault>>
    BY DEF StoreTail
<1>2. \A k \in User : k # p => envs'.head[k] = envs.head[k]
    BY <1>1 DEF TypeOK, Store
<1> QED
    BY <1>1, <1>2, DequeueSched

(* Nobody is dispatched and nothing is queued when the RTX stops.          *)
LEMMA SendFaultsSched ==
    ASSUME TypeOK, SchedInv, SendFaults
    PROVE  SchedInv' /\ SchedStep
<1>1. /\ fault = "none" /\ fault' = "null_tail"
      /\ UNCHANGED <<curr_process, state, priority, pcbs, envs, at, frames>>
    BY DEF SendFaults
<1>2. PcbsInOrder' /\ Whereabouts' /\ WokenHasMail'
    BY <1>1, MailRest
<1>3. FramesNest' /\ OneRunning'
    BY <1>1 DEF SchedInv, FramesNest, OneRunning, Interrupted, Top
<1>4. SchedStep
    BY <1>1 DEF SchedStep, Wakes, Chooses, GoesOn, NoFault
<1> QED
    BY <1>2, <1>3, <1>4 DEF SchedInv

LEMMA ReleaseProcessorSched ==
    ASSUME TypeOK, SchedInv, NEW p \in User, ReleaseProcessor(p)
    PROVE  SchedInv' /\ SchedStep
<1> DEFINE st == [state EXCEPT ![p] = "READY"]
           l  == priority[p]
           q  == PCB_ENQ(pcbs, l, p)
<1>1. /\ Runs(p) /\ UNCHANGED <<priority, frames, envs>>
      /\ process_switch(st, q, "user", "none")
      /\ state[p] = "RUNNING" /\ \A r \in User : r # p => state[r] # "RUNNING"
      /\ OnNone(pcbs, PcbQueue, p) /\ curr_process = p
    BY RunsAlone DEF ReleaseProcessor
<1>2. /\ st \in [User -> States] /\ st[p] = "READY"
      /\ \A r \in User : r # p => st[r] = state[r]
      /\ \A r \in User : st[r] # "RUNNING"
    BY <1>1 DEF TypeOK, States
<1>3. l \in Level /\ l \in PcbQueue
    BY Domains DEF TypeOK
<1>4. WellFormed(q, User, PcbQueue) /\ Adds(pcbs, l, p, q, PcbQueue)
    BY <1>1, <1>3, PcbAdd DEF SchedInv, PcbsInOrder
<1>5. /\ On(q, l) = On(pcbs, l) \cup {p}
      /\ \A k \in PcbQueue : k # l => On(q, k) = On(pcbs, k)
    BY <1>4 DEF Adds
<1> HIDE DEF q
<1>6. ReadyQueues(st, q)
    <2>1. SUFFICES ASSUME NEW r \in User, NEW k \in Level, r \in On(q, k)
                   PROVE  st[r] = "READY" /\ priority[r] = k
        BY DEF ReadyQueues
    <2>2. r \in On(pcbs, k) \/ (r = p /\ k = l)
        BY <1>5, <2>1, Domains
    <2>3. r \in On(pcbs, k) => state[r] = "READY" /\ priority[r] = k
        BY DEF SchedInv, PcbsInOrder, ReadyQueues
    <2> QED
        BY <1>1, <1>2, <2>2, <2>3
<1>7. BlockedQueue(st, q)
    <2>1. On(q, blocked_on_envelope) = On(pcbs, blocked_on_envelope)
        BY <1>3, <1>5, Domains DEF Level, blocked_on_envelope
    <2> QED
        BY <1>1, <1>2, <2>1 DEF SchedInv, PcbsInOrder, BlockedQueue
<1>8. ReadyQueued(st, q)
    <2>1. \A k \in PcbQueue : On(pcbs, k) \subseteq On(q, k)
        BY <1>5
    <2> QED
        BY <1>2, <1>5, <2>1, Domains DEF SchedInv, PcbsInOrder, ReadyQueued, TypeOK
<1>9. /\ PcbsInOrder'
      /\ Dispatched(st, q) \/ NothingReady(st, q, "none")
      /\ Highest
    <2> HIDE DEF st
    <2> QED
        BY <1>1, <1>2, <1>4, <1>6, <1>7, <1>8, SwitchSched
<1>10. Dispatched(st, q)
    BY <1>3, <1>5, <1>9 DEF NothingReady
<1>11. at' = [at EXCEPT ![p] = "user"]
    BY <1>1 DEF process_switch
<1>12. SwitchedAway(p, st, q, "user", "none")
    BY <1>2, <1>10, <1>11 DEF SwitchedAway
<1> HIDE DEF st
<1>13. Whereabouts' /\ FramesNest' /\ OneRunning' /\ WokenHasMail' /\ SchedStep
    BY <1>1, <1>2, <1>8, <1>9, <1>12, SwitchRest
<1> QED
    BY <1>9, <1>13 DEF SchedInv

(* A process whose priority changes is alone on its level, so PCB_REMOVE   *)
(* only ever takes a head.                                                 *)
LEMMA ChangePrioritySched ==
    ASSUME MovedAlone, TypeOK, SchedInv, NEW p \in User, NEW new \in Level,
           NEW target \in User, ChangePriority(p, new, target)
    PROVE  SchedInv' /\ SchedStep
<1> DEFINE l == priority[target]
           q == PCB_REMOVE(pcbs, l, target)
<1>1. /\ <<new, target>> \in ChangesAllowed
      /\ priority' = [priority EXCEPT ![target] = new]
      /\ pcbs' = IF state[target] = "READY" THEN PCB_ENQ(q, new, target) ELSE pcbs
      /\ UNCHANGED <<curr_process, state, envs, at, frames, fault>>
    BY DEF ChangePriority
<1>2. /\ priority'[target] = new /\ \A r \in User : r # target => priority'[r] = priority[r]
      /\ l \in Level /\ l \in PcbQueue /\ new \in PcbQueue
    BY <1>1, Domains DEF TypeOK
<1>3. /\ WellFormed(pcbs, User, PcbQueue) /\ ReadyQueues(state, pcbs)
      /\ BlockedQueue(state, pcbs) /\ ReadyQueued(state, pcbs)
    BY DEF SchedInv, PcbsInOrder
<1>4. Whereabouts'
    <2>1. \A r \in User : priority'[r] \in Levels(r)
        BY <1>1, <1>2 DEF SchedInv, Whereabouts, Levels
    <2> QED
        BY <1>1, <2>1 DEF SchedInv, Whereabouts
<1>5. FramesNest' /\ OneRunning' /\ WokenHasMail' /\ SchedStep
    BY <1>1, SameFrames, SameRunning, Stays DEF SchedInv, WokenHasMail
<1>6. CASE state[target] # "READY"
    <2>1. pcbs' = pcbs /\ state' = state
        BY <1>1, <1>6
    <2>2. \A r \in User : state[r] = "READY" => priority'[r] = priority[r]
        BY <1>2, <1>6
    <2>3. \A k \in Level, r \in User :
              r \in On(pcbs, k) => state[r] = "READY" /\ priority'[r] = k
        BY <1>3, <2>2 DEF ReadyQueues
    <2>4. PcbsInOrder'
        BY <1>3, <2>1, <2>2, <2>3 DEF PcbsInOrder, ReadyQueues, BlockedQueue, ReadyQueued
    <2> QED
        BY <1>4, <1>5, <1>6, <2>4 DEF SchedInv
<1>7. CASE state[target] = "READY"
    <2>1. \A r \in User : priority[r] = l => r = target
        <3>1. SUFFICES ASSUME NEW r \in User, priority[r] = l, r # target
                       PROVE  FALSE
            OBVIOUS
        <3>2. l \in Levels(r) /\ l \in Levels(target)
            BY <3>1 DEF SchedInv, Whereabouts
        <3> QED
            BY <1>1, <3>1, <3>2 DEF MovedAlone
    <2>2. On(pcbs, l) \subseteq {target}
        <3>1. On(pcbs, l) \subseteq User
            BY <1>2, <1>3, OnFacts, Domains DEF WellFormed
        <3> QED
            BY <1>2, <1>3, <2>1, <3>1 DEF ReadyQueues
    <2>3. /\ WellFormed(q, User, PcbQueue) /\ On(q, l) = {}
          /\ \A k \in PcbQueue : k # l => On(q, k) = On(pcbs, k)
        <3>1. CASE pcbs.head[l] = NULL
            <4>1. On(pcbs, l) = {} /\ pcbs.head[l] # target
                BY <3>1, Domains DEF On
            <4>2. q = pcbs
                BY <4>1 DEF PCB_REMOVE
            <4> QED
                BY <1>3, <4>1, <4>2
        <3>2. CASE pcbs.head[l] # NULL
            <4>1. /\ WellFormed(PCB_DEQ(pcbs, l), User, PcbQueue)
                  /\ Takes(pcbs, l, PCB_DEQ(pcbs, l), PcbQueue)
                BY <1>2, <1>3, <3>2, PcbTake
            <4>2. pcbs.head[l] = target
                BY <2>2, <4>1 DEF Takes
            <4>3. q = PCB_DEQ(pcbs, l)
                BY <4>2 DEF PCB_REMOVE
            <4> QED
                BY <2>2, <4>1, <4>2, <4>3 DEF Takes
        <3> QED
            BY <3>1, <3>2
    <2> HIDE DEF q
    <2>4. OnNone(q, PcbQueue, target)
        BY <1>3, <1>7, <2>3 DEF OnNone, PcbQueue, ReadyQueues, BlockedQueue
    <2>5. /\ WellFormed(pcbs', User, PcbQueue)
          /\ Adds(q, new, target, pcbs', PcbQueue)
        BY <1>1, <1>2, <1>7, <2>3, <2>4, PcbAdd
    <2>6. /\ On(pcbs', new) = On(q, new) \cup {target}
          /\ \A k \in PcbQueue : k # new => On(pcbs', k) = On(q, k)
        BY <2>5 DEF Adds
    <2>7. \A k \in Level, r \in User : r \in On(pcbs', k) =>
              (r = target /\ k = new) \/ (r \in On(pcbs, k) /\ k # l)
        BY <2>3, <2>6, Domains
    <2>8. \A k \in Level, r \in User :
              r \in On(pcbs', k) => state'[r] = "READY" /\ priority'[r] = k
        <3>1. SUFFICES ASSUME NEW k \in Level, NEW r \in User, r \in On(pcbs', k)
                       PROVE  state'[r] = "READY" /\ priority'[r] = k
            OBVIOUS
        <3>2. CASE r = target /\ k = new
            BY <1>1, <1>2, <1>7, <3>2
        <3>3. CASE r \in On(pcbs, k) /\ k # l
            <4>1. state[r] = "READY" /\ priority[r] = k /\ r # target
                BY <1>3, <3>3 DEF ReadyQueues
            <4> QED
                BY <1>1, <1>2, <4>1
        <3> QED
            BY <2>7, <3>1, <3>2, <3>3
    <2>9. BlockedQueue(state', pcbs')
        <3>1. blocked_on_envelope # l /\ blocked_on_envelope # new
            BY <1>2 DEF Level, blocked_on_envelope
        <3> QED
            BY <1>1, <1>3, <2>3, <2>6, <3>1, Domains DEF BlockedQueue
    <2>10. ASSUME NEW r \in User, Kept(r), state'[r] = "READY"
           PROVE  r \in On(pcbs', priority'[r])
        <3>1. CASE r = target
            BY <1>2, <2>6, <3>1
        <3>2. CASE r # target
            <4>1. /\ r \in On(pcbs, priority[r]) /\ priority[r] # l
                  /\ priority'[r] = priority[r] /\ priority[r] \in PcbQueue
                BY <1>1, <1>2, <1>3, <2>1, <2>10, <3>2, Domains DEF ReadyQueued, TypeOK
            <4> QED
                BY <2>3, <2>6, <4>1
        <3> QED
            BY <3>1, <3>2
    <2>11. PcbsInOrder'
        BY <2>5, <2>8, <2>9, <2>10 DEF PcbsInOrder, ReadyQueues, BlockedQueue, ReadyQueued
    <2> QED
        BY <1>4, <1>5, <2>6, <2>11 DEF SchedInv
<1> QED
    BY <1>6, <1>7

LEMMA NullDrainSched ==
    ASSUME TypeOK, SchedInv, NEW p \in User, NullDrain(p)
    PROVE  SchedInv' /\ SchedStep
<1>1. /\ UNCHANGED <<curr_process, state, priority, pcbs, frames, fault>>
      /\ Runs(p) /\ p \in NullProcs
    BY DEF NullDrain
<1>2. state[p] = "RUNNING"
    BY <1>1, RunsAlone
<1>3. at' = at \/ at' = [at EXCEPT ![p] = "drained"]
    BY DEF NullDrain
<1>4. \A r \in User : \/ at'[r] = at[r]
                      \/ r = p /\ at'[r] = "drained"
    BY <1>3 DEF TypeOK
<1>5. envs' = envs \/ envs' = env_DEQ(envs, NULLPID)
    BY DEF NullDrain
<1>6. NULLPID \in User /\ NULLPID \in NullProcs /\ NULLPID \in EnvQueue
    BY Domains, TableAssumption
<1>7. \A k \in User : k # NULLPID => envs'.head[k] = envs.head[k]
    BY <1>5, <1>6, HeadsAfterDEQ, Domains
<1>8. \A r \in User : at'[r] = "receive" => envs'.head[r] = envs.head[r]
    <2>1. SUFFICES ASSUME NEW r \in User, at'[r] = "receive"
                   PROVE  r # NULLPID
        BY <1>7
    <2> QED
        BY <1>4, <1>6, <2>1 DEF SchedInv, Whereabouts, Client
<1>9. PcbsInOrder' /\ Whereabouts' /\ WokenHasMail'
    BY <1>1, <1>2, <1>4, <1>8, MailRest
<1> QED
    BY <1>1, <1>9, SameFrames, SameRunning, Stays DEF SchedInv

-----------------------------------------------------------------------------
(* A handler runs on top of what it interrupted, and gives back the        *)
(* processor to it.                                                        *)
LEMMA InterruptSched ==
    ASSUME TypeOK, SchedInv, NEW i \in Iproc, Interrupt(i)
    PROVE  SchedInv' /\ SchedStep
<1> DEFINE n == Len(frames)
           f == [ pid |-> i, interrupted |-> curr_process, env |-> envs.head[i] ]
<1>1. /\ frames' = Append(frames, f) /\ curr_process' = i /\ envs' = env_DEQ(envs, i)
      /\ UNCHANGED <<state, priority, pcbs, at, fault>>
    BY DEF Interrupt
<1>2. f.pid = i /\ f.interrupted = curr_process
    OBVIOUS
<1> HIDE DEF f
<1>3. /\ frames \in Seq(Frame) /\ n \in Nat
      /\ Len(frames') = n + 1 /\ frames'[n + 1] = f
      /\ \A k \in 1 .. n : frames'[k] = frames[k]
    BY <1>1 DEF TypeOK
<1>4. frames' # <<>> /\ (frames = <<>> <=> n = 0)
    BY <1>3, EmptySeq
<1>5. FramesNest
    BY DEF SchedInv
<1>6. Interrupted' = Interrupted
    <2>1. CASE n = 0
        BY <1>2, <1>3, <1>4, <2>1 DEF Interrupted
    <2>2. CASE n # 0
        <3>1. 1 \in 1 .. n
            BY <1>3, <2>2
        <3> QED
            BY <1>3, <1>4, <2>2, <3>1 DEF Interrupted
    <2> QED
        BY <2>1, <2>2
<1>7. Top' = f /\ curr_process' = Top'.pid
    BY <1>1, <1>2, <1>3 DEF Top
<1>8. ASSUME NEW k \in 2 .. Len(frames')
      PROVE  frames'[k].interrupted = frames'[k - 1].pid
    <2>1. CASE k = n + 1
        <3>1. k - 1 = n /\ n \in 1 .. n
            BY <1>3, <2>1
        <3>2. frames # <<>> /\ frames'[k - 1] = Top
            BY <1>3, <1>4, <3>1 DEF Top
        <3>3. curr_process = Top.pid
            BY <1>5, <3>2 DEF FramesNest
        <3> QED
            BY <1>2, <1>3, <2>1, <3>2, <3>3
    <2>2. CASE k # n + 1
        <3>1. k \in 2 .. n /\ k \in 1 .. n /\ k - 1 \in 1 .. n
            BY <1>3, <2>2
        <3>2. frames'[k] = frames[k] /\ frames'[k - 1] = frames[k - 1]
            BY <1>3, <3>1
        <3> QED
            BY <1>5, <3>1, <3>2 DEF FramesNest
    <2> QED
        BY <2>1, <2>2
<1>9. FramesNest'
    BY <1>4, <1>5, <1>6, <1>7, <1>8 DEF FramesNest
<1>10. SameProcessor
    BY <1>1, <1>6, <1>9 DEF SameProcessor
<1>11. \A k \in User : envs'.head[k] = envs.head[k]
    BY <1>1, HeadsAfterDEQ, Domains
<1>12. PcbsInOrder' /\ Whereabouts' /\ WokenHasMail'
    BY <1>1, <1>11, MailRest
<1> QED
    BY <1>1, <1>10, <1>12, SameRunning, Stays DEF SchedInv

LEMMA ReplySched ==
    ASSUME TypeOK, SchedInv, Reply
    PROVE  SchedInv' /\ SchedStep
<1> DEFINE n == Len(frames)
<1>1. /\ frames # <<>> /\ Top.env # NULL
      /\ k_send_message(sender_id[Top.env], Top.env)
      /\ frames' = [frames EXCEPT ![n].env = NULL]
      /\ UNCHANGED <<curr_process, priority, at, fault>>
    BY DEF Reply
<1>2. /\ Top \in Frame /\ Top.env \in Env /\ frames \in Seq(Frame)
      /\ n \in Nat \ {0} /\ n \in 1 .. n
    BY <1>1, TopFrame DEF Frame, TypeOK
<1>3. \A k \in 1 .. n : frames[k] \in Frame
    BY <1>2, ElementOfSeq
<1>4. /\ Len(frames') = n /\ frames' # <<>>
      /\ \A k \in 1 .. n : /\ frames'[k].pid = frames[k].pid
                           /\ frames'[k].interrupted = frames[k].interrupted
    <2> DEFINE f == [Top EXCEPT !.env = NULL]
    <2>1. frames' = [frames EXCEPT ![n] = f]
        BY <1>1 DEF Top
    <2>2. f \in Frame /\ f.pid = Top.pid /\ f.interrupted = Top.interrupted
        BY <1>2 DEF Frame
    <2> HIDE DEF f
    <2>3. frames' \in Seq(Frame) /\ Len(frames') = n
        BY <1>2, <2>1, <2>2, ExceptSeq
    <2>4. \A k \in 1 .. n : frames'[k] = IF k = n THEN f ELSE frames[k]
        BY <1>2, <2>1
    <2>5. frames' # <<>>
        BY <1>2, <2>3
    <2> QED
        BY <1>2, <2>2, <2>3, <2>4, <2>5 DEF Top
<1>5. 1 \in 1 .. n /\ \A k \in 2 .. n : k \in 1 .. n /\ k - 1 \in 1 .. n
    BY <1>2
<1>6. FramesNest
    BY DEF SchedInv
<1>7. Interrupted' = Interrupted
    BY <1>1, <1>4, <1>5 DEF Interrupted
<1>8. curr_process' = Top'.pid
    BY <1>1, <1>2, <1>4, <1>6 DEF FramesNest, Top
<1>9. FramesNest'
    BY <1>4, <1>5, <1>6, <1>7, <1>8 DEF FramesNest
<1>10. SameProcessor
    BY <1>1, <1>7, <1>9 DEF SameProcessor
<1> QED
    BY <1>1, <1>2, <1>10, SendSched

LEMMA ReturnSched ==
    ASSUME TypeOK, SchedInv, Return
    PROVE  SchedInv' /\ SchedStep
<1> DEFINE n == Len(frames)
<1>1. /\ frames # <<>> /\ curr_process' = Top.interrupted
      /\ frames' = SubSeq(frames, 1, n - 1)
      /\ UNCHANGED <<state, priority, pcbs, envs, at, fault>>
    BY DEF Return
<1>2. n \in Nat \ {0} /\ frames \in Seq(Frame)
    BY <1>1, TopFrame DEF TypeOK
<1>3. \A k \in 1 .. n - 1 : frames[k] \in Frame
    BY <1>2, ElementOfSeq
<1>4. /\ frames' \in Seq(Frame) /\ Len(frames') = n - 1
      /\ \A k \in 1 .. n - 1 : frames'[k] = frames[k]
    <2>1. /\ SubSeq(frames, 1, n - 1) \in Seq(Frame)
          /\ Len(SubSeq(frames, 1, n - 1)) = IF 1 <= n - 1 THEN (n - 1) - 1 + 1 ELSE 0
          /\ \A k \in 1 .. (n - 1) - 1 + 1 : SubSeq(frames, 1, n - 1)[k] = frames[1 + k - 1]
        BY <1>2, <1>3, SubSeqProperties
    <2> HIDE DEF n
    <2>2. \A k \in 1 .. n - 1 : k \in 1 .. (n - 1) - 1 + 1 /\ 1 + k - 1 = k
        BY <1>2
    <2>3. (IF 1 <= n - 1 THEN (n - 1) - 1 + 1 ELSE 0) = n - 1
        BY <1>2
    <2> QED
        BY <1>1, <2>1, <2>2, <2>3
<1>5. frames' = <<>> <=> n = 1
    BY <1>2, <1>4, EmptySeq
<1>6. /\ Interrupted \in User
      /\ \A k \in 2 .. n : frames[k].interrupted = frames[k - 1].pid
      /\ Top = frames[n] /\ Top' = frames'[Len(frames')]
    BY DEF SchedInv, FramesNest, Top
<1> HIDE DEF n
<1>7. Interrupted' = Interrupted
    <2>1. CASE n = 1
        BY <1>1, <1>5, <1>6, <2>1 DEF Interrupted
    <2>2. CASE n # 1
        <3>1. 1 \in 1 .. n - 1
            BY <1>2, <2>2
        <3> QED
            BY <1>1, <1>4, <1>5, <2>2, <3>1 DEF Interrupted
    <2> QED
        BY <2>1, <2>2
<1>8. ASSUME frames' # <<>>
      PROVE  curr_process' = Top'.pid
    <2>1. n \in 2 .. n /\ n - 1 \in 1 .. n - 1
        BY <1>2, <1>5, <1>8
    <2>2. frames[n].interrupted = frames[n - 1].pid
        BY <1>6, <2>1
    <2> QED
        BY <1>1, <1>4, <1>6, <1>8, <2>1, <2>2
<1>9. \A k \in 2 .. n - 1 : k \in 1 .. n - 1 /\ k - 1 \in 1 .. n - 1 /\ k \in 2 .. n
    BY <1>2
<1>10. FramesNest'
    BY <1>4, <1>6, <1>7, <1>8, <1>9 DEF FramesNest
<1>11. SameProcessor
    BY <1>1, <1>7, <1>10 DEF SameProcessor
<1>12. PcbsInOrder' /\ Whereabouts' /\ WokenHasMail'
    BY <1>1, MailRest
<1> QED
    BY <1>1, <1>11, <1>12, SameRunning, Stays DEF SchedInv

-----------------------------------------------------------------------------
LEMMA NextSchedInv ==
    ASSUME MovedAlone
    PROVE  TypeOK /\ SchedInv /\ [Next]_vars => SchedInv' /\ SchedStep
<1> SUFFICES ASSUME TypeOK, SchedInv, [Next]_vars
             PROVE  SchedInv' /\ SchedStep
    OBVIOUS
<1>1. ASSUME NEW p \in User, Primitive(p)
      PROVE  SchedInv' /\ SchedStep
    BY <1>1, RequestEnvSched, ReleaseEnvSched, SendMessageSched, ReceiveMessageSched,
       ResumeReceiveSched, StoreHeadSched, StoreTailSched, ReleaseProcessorSched,
       ChangePrioritySched, NullDrainSched
    DEF Primitive
<1>2. ASSUME Handler
      PROVE  SchedInv' /\ SchedStep
    BY <1>2, InterruptSched, ReplySched, ReturnSched DEF Handler
<1>3. CASE UNCHANGED vars
    <2>1. UNCHANGED <<curr_process, state, priority, pcbs, envs, at, frames, fault>>
        BY <1>3 DEF vars
    <2>2. PcbsInOrder' /\ Whereabouts' /\ WokenHasMail'
        BY <2>1, MailRest
    <2> QED
        BY <2>1, <2>2, SameFrames, SameRunning, Stays DEF SchedInv
<1> QED
    BY <1>1, <1>2, <1>3, SendFaultsSched DEF Next

(* The invariant of the scheduler, and what each of its steps does.        *)
THEOREM SchedInvariant ==
    ASSUME MovedAlone
    PROVE  Spec => [](TypeOK /\ SchedInv) /\ [][SchedStep]_vars
<1>1. TypeOK /\ SchedInv /\ [Next]_vars => SchedInv' /\ SchedStep
    BY NextSchedInv
<1> QED
    BY <1>1, TypeCorrect, InitSchedInv, PTL DEF Spec

(* However handlers nest and switches follow each other, exactly the       *)
(* process that was interrupted is marked RUNNING.                         *)
THEOREM OneProcessRuns ==
    ASSUME MovedAlone
    PROVE  Spec => []OneRunning
<1>1. SchedInv => OneRunning
    BY DEF SchedInv
<1> QED
    BY <1>1, SchedInvariant, PTL

(* A process that goes on behind the process_switch of k_receive_message   *)
(* finds the message it was woken for: nobody took it in between.          *)
THEOREM MessageIsThere ==
    ASSUME MovedAlone
    PROVE  Spec => []WokenHasMail
<1>1. SchedInv => WokenHasMail
    BY DEF SchedInv
<1> QED
    BY <1>1, SchedInvariant, PTL

(* A process leaves BLK_ON_RCV only for a message, and goes behind the     *)
(* processes of its priority that are ready already.                       *)
THEOREM WokenInTurn ==
    ASSUME MovedAlone
    PROVE  Spec => WakesBehind
<1>1. SchedStep => Wakes
    BY DEF SchedStep
<1> QED
    BY <1>1, SchedInvariant, PTL DEF WakesBehind, Wakes

(* What is on the queues is what the states say: a process on a ready      *)
(* queue is READY with that priority, and blocked_on_envelope holds just   *)
(* the processes that are BLK_ON_ENV.  A READY process that is Kept is on  *)
(* its ready queue; the others may have been taken off it by the PCB_DEQ   *)
(* of k_receive_message.                                                   *)
THEOREM QueuesAgree ==
    ASSUME MovedAlone
    PROVE  Spec => [](/\ \A p \in User, l \in Level :
                            p \in On(pcbs, l) => state[p] = "READY" /\ priority[p] = l
                      /\ On(pcbs, blocked_on_envelope)
                         = { p \in User : state[p] = "BLK_ON_ENV" }
                      /\ \A p \in User :
                            Kept(p) /\ state[p] = "READY" => p \in On(pcbs, priority[p]))
<1>1. SchedInv =>
          /\ \A p \in User, l \in Level :
                p \in On(pcbs, l) => state[p] = "READY" /\ priority[p] = l
          /\ On(pcbs, blocked_on_envelope) = { p \in User : state[p] = "BLK_ON_ENV" }
          /\ \A p \in User : Kept(p) /\ state[p] = "READY" => p \in On(pcbs, priority[p])
    BY DEF SchedInv, PcbsInOrder, ReadyQueues, BlockedQueue, ReadyQueued
<1> QED
    BY <1>1, SchedInvariant, PTL

(* If no client ever has the level of the null process, it is always there *)
(* to be dispatched, and the RTX neither spins for a ready process nor     *)
(* follows a NULL envelope.  The initialization table has it so.           *)
THEOREM NeverStops ==
    ASSUME MovedAlone, Kept(NULLPID)
    PROVE  Spec => []NoFault
<1>1. Init => NoFault
    BY DEF Init, NoFault
<1>2. SchedStep /\ NoFault => NoFault'
    BY DEF SchedStep, GoesOn
<1>3. UNCHANGED vars /\ NoFault => NoFault'
    BY DEF vars, NoFault
<1> QED
    BY <1>1, <1>2, <1>3, SchedInvariant, PTL DEF Spec

(* A switch never passes over a ready process that is Kept: the process    *)
(* dispatched has the same or a higher priority.                           *)
THEOREM KeptNotPassedOver ==
    ASSUME MovedAlone
    PROVE  Spec =>
             [][ (frames = <<>> /\ frames' = <<>> /\ curr_process' # curr_process)
                 => \A p \in User : Kept(p) /\ state'[p] = "READY"
                                    => priority[curr_process'] <= priority[p]
               ]_vars
<1>1. SchedStep => Chooses
    BY DEF SchedStep
<1> QED
    BY <1>1, SchedInvariant, PTL DEF Chooses

-----------------------------------------------------------------------------
(* The pool: what is free against who was woken to come for it.            *)
Claimants == { p \in User : at[p] = "request" /\ state[p] # "BLK_ON_ENV" }

PoolOwed ==
    (\E b \in User : state[b] = "BLK_ON_ENV")
    => Cardinality(On(envs, envelope_q)) <= Cardinality(Claimants)

LEMMA PoolFinite ==
    ASSUME MailInv
    PROVE  /\ IsFiniteSet(On(envs, envelope_q)) /\ IsFiniteSet(Claimants)
           /\ Cardinality(On(envs, envelope_q)) \in Nat /\ Cardinality(Claimants) \in Nat
<1>1. On(envs, envelope_q) \subseteq Env
    BY OnFacts, Domains DEF MailInv, EnvsInOrder, Ordered
<1>2. Claimants \subseteq User
    BY DEF Claimants
<1> QED
    BY <1>1, <1>2, EnvFinite, UserFinite, FS_Subset, FS_CardinalityType

(* Steps that neither block nor serve anybody, nor free an envelope.       *)
LEMMA PoolRest ==
    ASSUME MailInv, PoolOwed,
           On(envs', envelope_q) \subseteq On(envs, envelope_q),
           \A p \in User : state'[p] = "BLK_ON_ENV" => state[p] = "BLK_ON_ENV",
           \A p \in User : at[p] = "request" /\ state[p] # "BLK_ON_ENV" => at'[p] = "request"
    PROVE  PoolOwed'
<1>1. Claimants \subseteq Claimants'
    BY DEF Claimants
<1>2. /\ IsFiniteSet(On(envs, envelope_q)) /\ IsFiniteSet(Claimants')
      /\ Cardinality(On(envs, envelope_q)) \in Nat /\ Cardinality(Claimants) \in Nat
      /\ Cardinality(On(envs', envelope_q)) \in Nat /\ Cardinality(Claimants') \in Nat
    <2>1. /\ IsFiniteSet(On(envs, envelope_q)) /\ IsFiniteSet(Claimants)
          /\ Cardinality(On(envs, envelope_q)) \in Nat /\ Cardinality(Claimants) \in Nat
        BY PoolFinite
    <2>2. On(envs', envelope_q) \subseteq Env /\ Claimants' \subseteq User
        BY OnFacts, Domains DEF MailInv, EnvsInOrder, Ordered, Claimants
    <2> QED
        BY <2>1, <2>2, EnvFinite, UserFinite, FS_Subset, FS_CardinalityType
<1>3. /\ Cardinality(On(envs', envelope_q)) <= Cardinality(On(envs, envelope_q))
      /\ Cardinality(Claimants) <= Cardinality(Claimants')
    BY <1>1, <1>2, FS_Subset
<1>4. (\E b \in User : state'[b] = "BLK_ON_ENV") => \E b \in User : state[b] = "BLK_ON_ENV"
    OBVIOUS
<1> QED
    BY <1>2, <1>3, <1>4 DEF PoolOwed

LEMMA PoolAfterTake ==
    ASSUME MailInv, NEW q \in EnvQueue, envs' = env_DEQ(envs, q)
    PROVE  On(envs', envelope_q) \subseteq On(envs, envelope_q)
<1>1. CASE envs.head[q] = NULL
    BY <1>1 DEF env_DEQ
<1>2. CASE envs.head[q] # NULL
    <2>1. Dequeued(envs, q, envs')
        BY DEF Dequeued
    <2>2. Takes(envs, q, envs', EnvQueue)
        BY <1>2, <2>1, DEQOrdered, Domains DEF MailInv, EnvsInOrder
    <2> QED
        BY <2>2, Domains DEF Takes
<1> QED
    BY <1>1, <1>2

LEMMA PoolAfterPut ==
    ASSUME MailInv, NEW q \in EnvQueue, NEW e \in Env, ~ Queued(e), e \notin lost,
           ~ NullTail(q), envs' = env_ENQ(envs, q, e)
    PROVE  /\ On(envs', envelope_q) \subseteq On(envs, envelope_q) \cup {e}
           /\ q # envelope_q => On(envs', envelope_q) = On(envs, envelope_q)
<1>1. /\ OnNone(envs, EnvQueue, e) /\ HasTail(envs, q) /\ e \in Env \ lost
      /\ NULL \notin Env /\ envelope_q \in EnvQueue
    BY Domains DEF Queued, OnNone, HasTail, NullTail
<1>2. Adds(envs, q, e, PCB_ENQ(envs, q, e), EnvQueue)
    BY <1>1, ENQOrdered DEF MailInv, EnvsInOrder
<1>3. Adds(envs, q, e, envs', EnvQueue)
    BY <1>2 DEF env_ENQ
<1> QED
    BY <1>1, <1>3 DEF Adds

LEMMA SwitchBlocks ==
    ASSUME NEW st \in [User -> States], NEW q, NEW resume, NEW otherwise,
           process_switch(st, q, resume, otherwise), NEW r \in User, state'[r] = "BLK_ON_ENV"
    PROVE  st[r] = "BLK_ON_ENV"
<1>1. CASE state' = st
    BY <1>1
<1>2. CASE state' # st
    <2> DEFINE new == q.head[First({ l \in Level : q.head[l] # NULL })]
               old == IF st[curr_process] = "RUNNING" THEN "READY" ELSE st[curr_process]
    <2>1. state' = [st EXCEPT ![curr_process] = old, ![new] = "RUNNING"]
        BY <1>2 DEF process_switch
    <2> HIDE DEF new
    <2>2. \/ state'[r] = "RUNNING"
          \/ state'[r] = old /\ r = curr_process
          \/ state'[r] = st[r]
        BY <2>1
    <2> QED
        BY <2>2
<1> QED
    BY <1>1, <1>2

LEMMA RequestEnvPool ==
    ASSUME TypeOK, MailInv, SchedInv, PoolOwed, NEW p \in User, RequestEnv(p)
    PROVE  PoolOwed'
<1> DEFINE F == On(envs, envelope_q)
<1>1. CASE envs.head[envelope_q] # NULL
    <2> DEFINE e == envs.head[envelope_q]
    <2>1. /\ envs' = env_DEQ(envs, envelope_q) /\ at' = [at EXCEPT ![p] = "user"]
          /\ state' = state
        BY <1>1 DEF RequestEnv
    <2>2. On(envs', envelope_q) = F \ {e} /\ e \in F
        <3>1. Dequeued(envs, envelope_q, envs')
            BY <2>1 DEF Dequeued
        <3>2. Takes(envs, envelope_q, envs', EnvQueue)
            BY <1>1, <3>1, DEQOrdered, Domains DEF MailInv, EnvsInOrder
        <3> QED
            BY <3>2 DEF Takes
    <2> HIDE DEF e
    <2>3. Claimants' = Claimants \ {p}
        BY <2>1 DEF Claimants, TypeOK
    <2>4. /\ IsFiniteSet(F) /\ IsFiniteSet(Claimants)
          /\ Cardinality(F) \in Nat /\ Cardinality(Claimants) \in Nat
        BY PoolFinite
    <2> HIDE DEF F
    <2>5. /\ Cardinality(F \ {e}) = Cardinality(F) - 1
          /\ \/ Cardinality(Claimants \ {p}) = Cardinality(Claimants)
             \/ Cardinality(Claimants \ {p}) = Cardinality(Claimants) - 1
        BY <2>2, <2>4, FS_RemoveElement
    <2>6. (\E b \in User : state[b] = "BLK_ON_ENV") => Cardinality(F) <= Cardinality(Claimants)
        BY DEF PoolOwed, F
    <2>7. (\E b \in User : state[b] = "BLK_ON_ENV") =>
              Cardinality(F \ {e}) <= Cardinality(Claimants \ {p})
        BY <2>4, <2>5, <2>6
    <2> QED
        BY <2>1, <2>2, <2>3, <2>7 DEF PoolOwed
<1>2. CASE envs.head[envelope_q] = NULL
    <2>1. On(envs', envelope_q) = {}
        BY <1>2 DEF RequestEnv, On
    <2>2. IsFiniteSet(Claimants') /\ Cardinality(Claimants') \in Nat
        <3>1. Claimants' \subseteq User
            BY DEF Claimants
        <3> QED
            BY <3>1, UserFinite, FS_Subset, FS_CardinalityType
    <2>3. Cardinality(On(envs', envelope_q)) = 0
        BY <2>1, FS_EmptySet
    <2> QED
        BY <2>2, <2>3 DEF PoolOwed
<1> QED
    BY <1>1, <1>2

(* An envelope that is freed while somebody waits comes with a claimant.   *)
LEMMA ReleaseEnvPool ==
    ASSUME TypeOK, MailInv, SchedInv, PoolOwed, NEW p \in User, NEW e \in Env,
           ReleaseEnv(p, e), MailInv'
    PROVE  PoolOwed'
<1> DEFINE F  == On(envs, envelope_q)
           F1 == On(envs', envelope_q)
           w  == pcbs.head[blocked_on_envelope]
<1>1. envs' = env_ENQ(envs, envelope_q, e) /\ at' = at
    BY DEF ReleaseEnv, k_release_msg_env
<1>2. On(pcbs, blocked_on_envelope) = { r \in User : state[r] = "BLK_ON_ENV" }
    BY DEF SchedInv, PcbsInOrder, BlockedQueue
<1>3. CASE w = NULL
    <2>1. state' = state
        BY <1>3 DEF ReleaseEnv, k_release_msg_env
    <2>2. On(pcbs, blocked_on_envelope) = {}
        BY <1>3 DEF On
    <2> QED
        BY <1>2, <2>1, <2>2 DEF PoolOwed
<1>4. CASE w # NULL
    <2>1. state' = [state EXCEPT ![w] = "READY"]
        BY <1>4 DEF ReleaseEnv, k_release_msg_env
    <2>2. w \in On(pcbs, blocked_on_envelope)
        BY <1>4, OnFacts, Domains DEF SchedInv, PcbsInOrder, WellFormed
    <2> HIDE DEF w
    <2>3. w \in User /\ state[w] = "BLK_ON_ENV" /\ at[w] = "request"
        BY <1>2, <2>2 DEF SchedInv, Whereabouts
    <2>4. Claimants' = Claimants \cup {w} /\ w \notin Claimants
        BY <1>1, <2>1, <2>3 DEF Claimants, TypeOK
    <2>5. F1 \subseteq F \cup {e}
        <3>1. p \in User /\ e \in held[p]
            BY DEF ReleaseEnv
        <3>2. ~ Queued(e) /\ e \notin lost
            BY <3>1 DEF MailInv, QueuedApart, HeldApart
        <3>3. ~ NullTail(envelope_q) /\ envelope_q \in EnvQueue
            BY Domains, NullAssumption DEF MailInv, EnvsInOrder, HasTail, NullTail, User, PID
        <3> QED
            BY <1>1, <3>2, <3>3, PoolAfterPut
    <2>6. /\ IsFiniteSet(F) /\ IsFiniteSet(Claimants)
          /\ Cardinality(F) \in Nat /\ Cardinality(Claimants) \in Nat
        BY PoolFinite
    <2>7. Cardinality(F) <= Cardinality(Claimants)
        BY <2>3 DEF PoolOwed
    <2> HIDE DEF F, F1
    <2>8. Cardinality(Claimants \cup {w}) = Cardinality(Claimants) + 1
        BY <2>4, <2>6, FS_AddElement
    <2>9. /\ IsFiniteSet(F \cup {e}) /\ Cardinality(F \cup {e}) \in Nat
          /\ Cardinality(F \cup {e}) <= Cardinality(F) + 1
        <3>1. /\ IsFiniteSet(F \cup {e})
              /\ Cardinality(F \cup {e}) = IF e \in F THEN Cardinality(F) ELSE Cardinality(F) + 1
            BY <2>6, FS_AddElement
        <3> QED
            BY <2>6, <3>1
    <2>10. Cardinality(F1) \in Nat /\ Cardinality(F1) <= Cardinality(F \cup {e})
        BY <2>5, <2>9, FS_Subset, FS_CardinalityType
    <2>11. Cardinality(F1) <= Cardinality(Claimants) + 1
        BY <2>6, <2>7, <2>9, <2>10
    <2> QED
        BY <2>4, <2>8, <2>11 DEF PoolOwed, F1
<1> QED
    BY <1>3, <1>4

LEMMA SendPool ==
    ASSUME TypeOK, MailInv, PoolOwed, NEW q \in PID, NEW e \in Env, ~ Queued(e),
           e \notin lost, ~ NullTail(q), k_send_message(q, e), UNCHANGED at
    PROVE  PoolOwed'
<1>1. envs' = env_ENQ(envs, q, e)
    BY DEF k_send_message
<1>2. q \in EnvQueue /\ q # envelope_q
    BY Domains
<1>3. On(envs', envelope_q) \subseteq On(envs, envelope_q)
    BY <1>1, <1>2, PoolAfterPut
<1>4. state' = state \/ state' = [state EXCEPT ![q] = "READY"]
    BY DEF k_send_message
<1>5. state' = state \/ (q \in User /\ state' = [state EXCEPT ![q] = "READY"])
    BY DEF k_send_message
<1>6. \A r \in User : state'[r] = "BLK_ON_ENV" => state[r] = "BLK_ON_ENV"
    BY <1>5 DEF TypeOK
<1> QED
    BY <1>3, <1>6, PoolRest

(* A switch at the end of a primitive that does not touch the pool.        *)
LEMMA SwitchPool ==
    ASSUME TypeOK, MailInv, PoolOwed, NEW p \in User, Runs(p),
           at[p] # "request", NEW s \in {"READY", "BLK_ON_RCV"}, NEW q, NEW resume,
           NEW otherwise,
           process_switch([state EXCEPT ![p] = s], q, resume, otherwise), UNCHANGED envs
    PROVE  PoolOwed'
<1> DEFINE st == [state EXCEPT ![p] = s]
<1>1. st \in [User -> States] /\ \A r \in User : st[r] = "BLK_ON_ENV" => state[r] = "BLK_ON_ENV"
    BY DEF TypeOK, States
<1>2. process_switch(st, q, resume, otherwise) /\ curr_process = p
    BY DEF Runs
<1>3. at' = [at EXCEPT ![p] = resume]
    BY <1>2 DEF process_switch
<1> HIDE DEF st
<1>4. \A r \in User : state'[r] = "BLK_ON_ENV" => state[r] = "BLK_ON_ENV"
    BY <1>1, <1>2, SwitchBlocks
<1>5. \A r \in User : at[r] = "request" => at'[r] = "request"
    BY <1>3 DEF TypeOK
<1> QED
    BY <1>4, <1>5, PoolRest

LEMMA TakePool ==
    ASSUME TypeOK, MailInv, PoolOwed, NEW p \in User, at[p] # "request", TakeMessage(p)
    PROVE  PoolOwed'
<1>1. /\ envs' = env_DEQ(envs, p) /\ at' = [at EXCEPT ![p] = "user"] /\ state' = state
    BY DEF TakeMessage
<1>2. On(envs', envelope_q) \subseteq On(envs, envelope_q)
    BY <1>1, PoolAfterTake, Domains
<1>3. \A r \in User : at[r] = "request" => at'[r] = "request"
    BY <1>1 DEF TypeOK
<1> QED
    BY <1>1, <1>2, <1>3, PoolRest

LEMMA NextPoolOwed ==
    ASSUME KernelInv, TypeOK, MailInv, MailInv', SchedInv, PoolOwed, [Next]_vars
    PROVE  PoolOwed'
<1>1. ASSUME NEW p \in User, ReceiveMessage(p) \/ ResumeReceive(p)
      PROVE  PoolOwed'
    <2>1. at[p] # "request" /\ Runs(p)
        BY <1>1 DEF ReceiveMessage, ResumeReceive
    <2>2. CASE TakeMessage(p)
        BY <2>1, <2>2, TakePool
    <2>3. CASE /\ process_switch([state EXCEPT ![p] = "BLK_ON_RCV"],
                                 PCB_DEQ(pcbs, priority[p]), "receive", "null_env")
               /\ UNCHANGED envs
        BY <2>1, <2>3, SwitchPool
    <2>4. CASE ResumeReceive(p)
        <3>1. CASE at' = [at EXCEPT ![p] = "taking"] /\ UNCHANGED <<state, envs>>
            <4>1. \A r \in User : at[r] = "request" => at'[r] = "request"
                BY <2>1, <3>1 DEF TypeOK
            <4> QED
                BY <3>1, <4>1, PoolRest
        <3> QED
            BY <2>2, <2>4, <3>1, ResumeReceiveFinds
    <2> QED
        BY <1>1, <2>2, <2>3, <2>4 DEF ReceiveMessage
<1>2. ASSUME NEW p \in User, ReleaseProcessor(p)
      PROVE  PoolOwed'
    BY <1>2, SwitchPool DEF ReleaseProcessor
<1>3. ASSUME NEW p \in User, NEW l \in Level, NEW t \in User, ChangePriority(p, l, t)
      PROVE  PoolOwed'
    BY <1>3, PoolRest DEF ChangePriority
<1>4. ASSUME NEW p \in User, NullDrain(p)
      PROVE  PoolOwed'
    <2>1. /\ UNCHANGED state /\ at[p] = "user"
          /\ envs' = envs \/ envs' = env_DEQ(envs, NULLPID)
          /\ at' = at \/ at' = [at EXCEPT ![p] = "drained"]
        BY <1>4 DEF NullDrain
    <2>2. On(envs', envelope_q) \subseteq On(envs, envelope_q)
        <3>1. NULLPID \in EnvQueue
            BY Domains, TableAssumption
        <3> QED
            BY <2>1, <3>1, PoolAfterTake
    <2>3. \A r \in User : at[r] = "request" => at'[r] = "request"
        BY <2>1 DEF TypeOK
    <2> QED
        BY <2>1, <2>2, <2>3, PoolRest
<1>5. ASSUME NEW p \in User, NEW e \in Env, NEW d \in PID, SendMessage(p, d, e)
      PROVE  PoolOwed'
    <2>1. ~ Queued(e) /\ e \notin lost /\ ~ NullTail(d)
        BY <1>5 DEF SendMessage, MailInv, QueuedApart, HeldApart
    <2> QED
        BY <1>5, <2>1, SendPool DEF SendMessage
<1>10. ASSUME NEW p \in User, StoreHead(p) \/ StoreTail(p)
       PROVE  PoolOwed'
    <2>1. /\ at[p] \in {"taking", "emptied"} /\ state' = state
          /\ \A r \in User : r # p => at'[r] = at[r]
          /\ p \in EnvQueue /\ NULL \notin Env /\ Ordered(envs, Env, EnvQueue, lost)
          /\ envelope_q \in EnvQueue /\ envelope_q # p
        BY <1>10, Domains DEF StoreHead, StoreTail, TypeOK, MailInv, EnvsInOrder
    <2>2. On(envs', envelope_q) = On(envs, envelope_q)
        <3>1. CASE StoreHead(p) /\ envs.head[p] # NULL
            <4>1. HeadOff(envs, p, envs')
                BY <3>1 DEF StoreHead, HeadOff
            <4>2. Empties(envs, p, envs', EnvQueue)
                BY ONLY <2>1, <3>1, <4>1, HeadCleared
            <4> QED
                BY <2>1, <4>2 DEF Empties
        <3>2. CASE StoreTail(p)
            <4>1. envs'.p = envs.p /\ envs'.head = envs.head
                BY <2>1, <3>2 DEF StoreTail, Ordered, Store
            <4> QED
                BY <4>1 DEF On
        <3> QED
            BY <1>10, <3>1, <3>2 DEF StoreHead, KernelInv, Taking
    <2> QED
        BY <2>1, <2>2, PoolRest
<1>6. ASSUME NEW p \in User, Primitive(p)
      PROVE  PoolOwed'
    BY <1>1, <1>2, <1>3, <1>4, <1>5, <1>6, <1>10, RequestEnvPool, ReleaseEnvPool DEF Primitive
<1>7. ASSUME NEW i \in Iproc, Interrupt(i)
      PROVE  PoolOwed'
    <2>1. envs' = env_DEQ(envs, i) /\ UNCHANGED <<state, at>>
        BY <1>7 DEF Interrupt
    <2>2. On(envs', envelope_q) \subseteq On(envs, envelope_q)
        BY <2>1, PoolAfterTake, Domains
    <2> QED
        BY <2>1, <2>2, PoolRest
<1>8. ASSUME Reply
      PROVE  PoolOwed'
    <2>1. /\ frames # <<>> /\ Top.env # NULL /\ UNCHANGED at
          /\ k_send_message(sender_id[Top.env], Top.env)
        BY <1>8 DEF Reply
    <2>2. Top.env \in Env /\ Framed(Top.env)
        BY <2>1, TopFrame DEF Frame, Framed, Top
    <2>3. ~ Queued(Top.env) /\ sender_id[Top.env] \in PID /\ Top.env \notin lost
          /\ ~ NullTail(sender_id[Top.env])
        BY <1>8, <2>2 DEF MailInv, QueuedApart, SentBySomeone, FramedApart, Framed, Reply
    <2> QED
        BY <2>1, <2>2, <2>3, SendPool
<1>9. ASSUME Return \/ SendFaults \/ UNCHANGED vars
      PROVE  PoolOwed'
    BY <1>9, PoolRest DEF Return, SendFaults, vars
<1> QED
    BY <1>6, <1>7, <1>8, <1>9 DEF Next, Handler

(* While a process waits for an envelope, every free envelope is owed to a *)
(* process that k_release_msg_env has woken and that has not run yet: no   *)
(* envelope is left in the pool that nobody will come for.                 *)
THEOREM PoolIsOwed ==
    ASSUME MovedAlone
    PROVE  Spec => []NoEnvelopeIdles
<1>1. Init => PoolOwed
    BY DEF Init, PoolOwed
<1>2. KernelInv /\ MailInv /\ MailInv' /\ SchedInv /\ PoolOwed /\ [Next]_vars => PoolOwed'
    BY NextPoolOwed DEF KernelInv
<1>3. TypeOK /\ SchedInv /\ PoolOwed => NoEnvelopeIdles
    <2> SUFFICES ASSUME TypeOK, SchedInv, PoolOwed, pcbs.head[blocked_on_envelope] # NULL
                 PROVE  Cardinality(On(envs, envelope_q)) <= Cardinality(Claimants)
        BY DEF NoEnvelopeIdles, Claimants
    <2>1. \E b \in User : state[b] = "BLK_ON_ENV"
        BY OnFacts, Domains DEF SchedInv, PcbsInOrder, BlockedQueue, WellFormed
    <2> QED
        BY <2>1 DEF PoolOwed
<1> QED
    BY <1>1, <1>2, <1>3, KernelInvariant, MailInvariant, SchedInvariant, PTL DEF Spec
=============================================================================
