---------------------------- MODULE DevicesProofs ----------------------------
(***************************************************************************)
(* Proofs about Devices, for any lines, texts, envelopes and any number of *)
(* handlers on the signal stack.                                           *)
(***************************************************************************)
EXTENDS Devices, SequenceTheorems, TLAPS

Pc    == {"nothing", "flag", "store", "inc", "test", "nul", "raise", "clear", "send",
          "return"}
Frame == [proc : Iproc, pc : Pc, env : Env \cup {NoEnv}]

(* The places a handler passes, and where it has an envelope.              *)
Shape(f) ==
    /\ f.proc = "kbd" => f.pc \notin {"nul", "raise"}
    /\ f.proc = "crt" => f.pc # "clear"
    /\ f.pc = "nothing" => f.env = NoEnv
    /\ f.pc \notin {"nothing", "return"} => f.env \in Env

FrameInv == frames \in Seq(Frame) /\ \A k \in 1 .. Len(frames) : Shape(frames[k])

(* What a step does to the stack of handlers: the top one goes on to pc,   *)
(* one is put on top, the top one returns.                                 *)
Moved(pc) ==
    /\ frames' \in Seq(Frame)
    /\ Depth \in Nat \ {0} /\ Len(frames') = Depth
    /\ frames'[Depth].proc = Top.proc
    /\ frames'[Depth].env = Top.env
    /\ frames'[Depth].pc = pc
    /\ \A k \in 1 .. Depth - 1 : frames'[k] = frames[k]

Pushed(f) ==
    /\ frames' \in Seq(Frame)
    /\ Depth \in Nat /\ Len(frames') = Depth + 1
    /\ frames'[Depth + 1] = f
    /\ \A k \in 1 .. Depth : frames'[k] = frames[k]

Popped ==
    /\ frames' \in Seq(Frame)
    /\ Depth \in Nat \ {0} /\ Len(frames') = Depth - 1
    /\ \A k \in 1 .. Depth - 1 : frames'[k] = frames[k]

LEMMA FrameAt ==
    ASSUME frames \in Seq(Frame), NEW k \in 1 .. Len(frames)
    PROVE  frames[k] \in Frame
OBVIOUS

LEMMA TopIs ==
    ASSUME FrameInv, frames # <<>>
    PROVE  /\ Depth \in Nat \ {0}
           /\ Depth \in 1 .. Len(frames)
           /\ Top \in Frame /\ Top = frames[Depth] /\ Shape(Top)
<1>1. frames \in Seq(Frame) /\ Depth \in Nat \ {0} /\ Depth \in 1 .. Len(frames)
    BY DEF FrameInv, Depth
<1>2. frames[Depth] \in Frame
    BY <1>1, FrameAt
<1> QED
    BY <1>1, <1>2 DEF FrameInv, Top

LEMMA GotoMoves ==
    ASSUME FrameInv, frames # <<>>, NEW pc \in Pc, Goto(pc)
    PROVE  Moved(pc)
<1> DEFINE n == Depth
           f == [Top EXCEPT !.pc = pc]
<1>1. frames \in Seq(Frame) /\ n \in Nat \ {0} /\ n \in 1 .. Len(frames) /\ n = Len(frames)
      /\ Top \in Frame /\ Top = frames[n]
    BY TopIs DEF FrameInv, Depth
<1>2. f \in Frame /\ f.proc = Top.proc /\ f.env = Top.env /\ f.pc = pc
    BY <1>1 DEF Frame
<1>3. frames' = [frames EXCEPT ![n] = f]
    BY <1>1 DEF Goto
<1> HIDE DEF n, f
<1>4. frames' \in Seq(Frame) /\ Len(frames') = Len(frames)
      /\ frames'[n] = f /\ \A k \in 1 .. Len(frames) : k # n => frames'[k] = frames[k]
    <2>1. Len(frames') = Len(frames) /\ DOMAIN frames' = 1 .. Len(frames)
        BY <1>1, <1>3
    <2>2. frames' \in Seq(Frame)
        BY <1>1, <1>2, <1>3, ExceptSeq
    <2> QED
        BY <1>1, <1>3, <2>1, <2>2
<1>5. \A k \in 1 .. n - 1 : k \in 1 .. Len(frames) /\ k # n
    BY <1>1
<1> QED
    BY <1>1, <1>2, <1>4, <1>5 DEF Moved, n

LEMMA AppendPushes ==
    ASSUME FrameInv, NEW f \in Frame, frames' = Append(frames, f)
    PROVE  Pushed(f)
BY DEF FrameInv, Pushed, Depth

LEMMA ReturnPops ==
    ASSUME FrameInv, frames # <<>>, frames' = SubSeq(frames, 1, Depth - 1)
    PROVE  Popped
<1> DEFINE n == Depth
<1>1. frames \in Seq(Frame) /\ n \in Nat \ {0} /\ n = Len(frames)
    BY TopIs DEF FrameInv, Depth
<1>2. frames' = SubSeq(frames, 1, n - 1)
    OBVIOUS
<1> HIDE DEF n
<1>3. \A k \in 1 .. n - 1 : k \in 1 .. Len(frames)
    BY <1>1
<1>4. frames' \in Seq(Frame) /\ Len(frames') = n - 1
      /\ \A k \in 1 .. n - 1 : frames'[k] = frames[k]
    <2>1. \A k \in 1 .. n - 1 : frames[k] \in Frame
        BY <1>1, <1>3, FrameAt
    <2>2. 1 \in Int /\ n - 1 \in Int /\ n - 1 - 1 + 1 = n - 1
          /\ (IF 1 <= n - 1 THEN n - 1 - 1 + 1 ELSE 0) = n - 1
          /\ \A k \in 1 .. n - 1 : 1 + k - 1 = k
        BY <1>1
    <2>3. /\ SubSeq(frames, 1, n - 1) \in Seq(Frame)
          /\ Len(SubSeq(frames, 1, n - 1)) = IF 1 <= n - 1 THEN n - 1 - 1 + 1 ELSE 0
          /\ \A k \in 1 .. n - 1 - 1 + 1 : SubSeq(frames, 1, n - 1)[k] = frames[1 + k - 1]
        BY <2>1, <2>2, SubSeqProperties
    <2> QED
        BY <1>2, <2>2, <2>3
<1> QED
    BY <1>1, <1>4 DEF Popped, n

(* The shape of the stack is kept when the shape of the top frame is.      *)
LEMMA MovedShape ==
    ASSUME FrameInv, NEW pc, Moved(pc),
           Top.proc = "kbd" => pc \notin {"nul", "raise"},
           Top.proc = "crt" => pc # "clear",
           pc # "nothing",
           pc # "return" => Top.env \in Env
    PROVE  FrameInv'
<1>1. \A k \in 1 .. Len(frames') : k = Depth \/ (k \in 1 .. Depth - 1 /\ k \in 1 .. Len(frames))
    BY DEF Moved, Depth
<1>2. Shape(frames'[Depth])
    BY DEF Moved, Shape
<1>3. \A k \in 1 .. Depth - 1 : k \in 1 .. Len(frames) => Shape(frames'[k])
    BY DEF Moved, FrameInv
<1> QED
    BY <1>1, <1>2, <1>3 DEF Moved, FrameInv

LEMMA PushedShape ==
    ASSUME FrameInv, NEW f, Pushed(f), Shape(f)
    PROVE  FrameInv'
<1>1. \A k \in 1 .. Len(frames') : k = Depth + 1 \/ k \in 1 .. Depth
    BY DEF Pushed
<1> QED
    BY <1>1 DEF Pushed, FrameInv, Depth

LEMMA PoppedShape ==
    ASSUME FrameInv, Popped
    PROVE  FrameInv'
<1>1. \A k \in 1 .. Len(frames') : k \in 1 .. Depth - 1 /\ k \in 1 .. Len(frames)
    BY DEF Popped, Depth
<1> QED
    BY <1>1 DEF Popped, FrameInv

-----------------------------------------------------------------------------
(* Every envelope is in one place: with a user process, in one queue, in   *)
(* one handler, or left behind by one.  A handler that has returned or is  *)
(* about to still names the envelope it gave away.                         *)
Placed(f, h, d) ==
    IF f.pc # "return" THEN f.env \notin h \cup d
    ELSE \/ f.env \in h \cup {NoEnv}
         \/ f.env \in d /\ f.proc = "crt"

FramesApart ==
    \A j, k \in 1 .. Len(frames) :
        frames[j].env = frames[k].env /\ frames[j].env # NoEnv => j = k

BoxApart ==
    \A p \in Iproc : \A i \in 1 .. Len(box[p]) :
        /\ box[p][i] \notin held \cup dropped
        /\ \A k \in 1 .. Len(frames) : frames[k].env # box[p][i]
        /\ \A q \in Iproc : \A j \in 1 .. Len(box[q]) :
              box[p][i] = box[q][j] => p = q /\ i = j

EnvInv ==
    /\ FrameInv
    /\ held \subseteq Env /\ dropped \subseteq Env /\ held \cap dropped = {}
    /\ box \in [Iproc -> Seq(Env)]
    /\ \A k \in 1 .. Len(frames) : Placed(frames[k], held, dropped)
    /\ FramesApart
    /\ BoxApart

LEMMA BoxIn ==
    ASSUME box \in [Iproc -> Seq(Env)], NEW p \in Iproc, NEW i \in 1 .. Len(box[p])
    PROVE  box[p][i] \in Env /\ box[p][i] # NoEnv
<1>1. box[p] \in Seq(Env)
    OBVIOUS
<1>2. box[p][i] \in Env
    BY <1>1
<1> QED
    BY <1>2, BufferAssumption

LEMMA BoxAt ==
    ASSUME BoxApart, NEW p \in Iproc, NEW i \in 1 .. Len(box[p]),
           NEW q \in Iproc, NEW j \in 1 .. Len(box[q]), box[p][i] = box[q][j]
    PROVE  p = q /\ i = j
BY DEF BoxApart

LEMMA EnvKept ==
    ASSUME EnvInv, UNCHANGED <<frames, held, dropped, box>>
    PROVE  EnvInv'
BY DEF EnvInv, FrameInv, FramesApart, BoxApart

(* A step of the top handler that keeps its envelope, or has none.         *)
LEMMA EnvMoved ==
    ASSUME EnvInv, frames # <<>>, NEW pc, Moved(pc), FrameInv',
           UNCHANGED <<held, dropped, box>>,
           Top.pc # "return",
           pc # "return" \/ Top.pc = "nothing"
    PROVE  EnvInv'
<1>1. FrameInv /\ Shape(Top) /\ Top = frames[Depth] /\ Depth \in 1 .. Len(frames)
    BY TopIs DEF EnvInv
<1>2. /\ Len(frames') = Len(frames)
      /\ \A k \in 1 .. Len(frames) : frames'[k].env = frames[k].env
    BY <1>1 DEF Moved, Depth
<1>3. \A k \in 1 .. Len(frames) : k # Depth => frames'[k] = frames[k]
    BY DEF Moved, Depth
<1>4. Placed(frames'[Depth], held, dropped)
    <2>1. frames'[Depth].pc = pc /\ frames'[Depth].env = Top.env
        BY DEF Moved
    <2>2. Placed(Top, held, dropped)
        BY <1>1 DEF EnvInv
    <2> QED
        BY <1>1, <2>1, <2>2 DEF Placed, Shape
<1>5. \A k \in 1 .. Len(frames') : Placed(frames'[k], held', dropped')
    BY <1>2, <1>3, <1>4 DEF EnvInv
<1>6. FramesApart' /\ BoxApart'
    BY <1>2 DEF EnvInv, FramesApart, BoxApart
<1> QED
    BY <1>5, <1>6 DEF EnvInv

(* crt_iproc keeps the envelope it found no room for.                      *)
LEMMA EnvLeft ==
    ASSUME EnvInv, frames # <<>>, Moved("return"), FrameInv',
           UNCHANGED <<held, box>>, dropped' = dropped \cup {Top.env},
           Top.pc = "flag", Top.proc = "crt"
    PROVE  EnvInv'
<1>1. FrameInv /\ Shape(Top) /\ Top = frames[Depth] /\ Depth \in 1 .. Len(frames)
      /\ Placed(Top, held, dropped)
    BY TopIs DEF EnvInv
<1>2. /\ Len(frames') = Len(frames)
      /\ \A k \in 1 .. Len(frames) : frames'[k].env = frames[k].env
    BY <1>1 DEF Moved, Depth
<1>3. \A k \in 1 .. Len(frames) : k # Depth => frames'[k] = frames[k]
    BY DEF Moved, Depth
<1>4. Top.env \in Env /\ Top.env \notin held \cup dropped
    BY <1>1 DEF Shape, Placed
<1>5. Placed(frames'[Depth], held', dropped')
    BY <1>4 DEF Placed, Moved
<1>6. ASSUME NEW k \in 1 .. Len(frames), k # Depth
      PROVE  Placed(frames'[k], held', dropped')
    <2>1. frames'[k] = frames[k] /\ Placed(frames[k], held, dropped)
        BY <1>3, <1>6 DEF EnvInv
    <2>2. frames[k].env # Top.env
        <3>1. Top.env # NoEnv
            BY <1>4, BufferAssumption
        <3> QED
            BY <1>1, <1>6, <3>1 DEF EnvInv, FramesApart
    <2> QED
        BY <2>1, <2>2 DEF Placed
<1>7. \A k \in 1 .. Len(frames') : Placed(frames'[k], held', dropped')
    BY <1>2, <1>5, <1>6
<1>8. FramesApart'
    BY <1>2 DEF EnvInv, FramesApart
<1>9. BoxApart'
    <2>1. \A p \in Iproc : \A i \in 1 .. Len(box[p]) : box[p][i] # Top.env
        BY <1>1 DEF EnvInv, BoxApart
    <2> QED
        BY <1>2, <2>1 DEF EnvInv, BoxApart
<1>10. held' \cap dropped' = {} /\ dropped' \subseteq Env
    BY <1>4 DEF EnvInv
<1> QED
    BY <1>7, <1>8, <1>9, <1>10 DEF EnvInv

(* The envelope goes back to its process.                                  *)
LEMMA EnvReplied ==
    ASSUME EnvInv, frames # <<>>, Moved("return"), FrameInv',
           UNCHANGED <<dropped, box>>, held' = held \cup {Top.env},
           Top.pc = "send"
    PROVE  EnvInv'
<1>1. FrameInv /\ Shape(Top) /\ Top = frames[Depth] /\ Depth \in 1 .. Len(frames)
      /\ Placed(Top, held, dropped)
    BY TopIs DEF EnvInv
<1>2. /\ Len(frames') = Len(frames)
      /\ \A k \in 1 .. Len(frames) : frames'[k].env = frames[k].env
    BY <1>1 DEF Moved, Depth
<1>3. \A k \in 1 .. Len(frames) : k # Depth => frames'[k] = frames[k]
    BY DEF Moved, Depth
<1>4. Top.env \in Env /\ Top.env \notin held \cup dropped
    BY <1>1 DEF Shape, Placed
<1>5. Placed(frames'[Depth], held', dropped')
    BY <1>4 DEF Placed, Moved
<1>6. ASSUME NEW k \in 1 .. Len(frames), k # Depth
      PROVE  Placed(frames'[k], held', dropped')
    <2>1. frames'[k] = frames[k] /\ Placed(frames[k], held, dropped)
        BY <1>3, <1>6 DEF EnvInv
    <2>2. frames[k].env # Top.env
        <3>1. Top.env # NoEnv
            BY <1>4, BufferAssumption
        <3> QED
            BY <1>1, <1>6, <3>1 DEF EnvInv, FramesApart
    <2> QED
        BY <2>1, <2>2 DEF Placed
<1>7. \A k \in 1 .. Len(frames') : Placed(frames'[k], held', dropped')
    BY <1>2, <1>5, <1>6
<1>8. FramesApart'
    BY <1>2 DEF EnvInv, FramesApart
<1>9. BoxApart'
    <2>1. \A p \in Iproc : \A i \in 1 .. Len(box[p]) : box[p][i] # Top.env
        BY <1>1 DEF EnvInv, BoxApart
    <2> QED
        BY <1>2, <2>1 DEF EnvInv, BoxApart
<1>10. held' \cap dropped' = {} /\ held' \subseteq Env
    BY <1>4 DEF EnvInv
<1> QED
    BY <1>7, <1>8, <1>9, <1>10 DEF EnvInv

LEMMA EnvPopped ==
    ASSUME EnvInv, Popped, FrameInv', UNCHANGED <<held, dropped, box>>
    PROVE  EnvInv'
<1>1. \A k \in 1 .. Len(frames') : k \in 1 .. Len(frames) /\ frames'[k] = frames[k]
    BY DEF Popped, Depth
<1> QED
    BY <1>1 DEF EnvInv, FramesApart, BoxApart

(* A handler takes the head of its queue.                                  *)
LEMMA EnvTaken ==
    ASSUME EnvInv, NEW p \in Iproc, NEW f, Pushed(f), FrameInv',
           UNCHANGED <<held, dropped>>, f.pc # "return",
           \/ box' = box /\ f.env = NoEnv
           \/ box[p] # <<>> /\ f.env = Head(box[p]) /\ box' = [box EXCEPT ![p] = Tail(@)]
    PROVE  EnvInv'
<1>1. /\ Depth \in Nat /\ Len(frames) = Depth /\ Len(frames') = Depth + 1
      /\ \A k \in 1 .. Len(frames') : k = Depth + 1 \/ k \in 1 .. Depth
      /\ frames'[Depth + 1] = f
      /\ \A k \in 1 .. Depth : frames'[k] = frames[k]
    BY DEF Pushed, Depth
<1>2. CASE box' = box /\ f.env = NoEnv
    <2>1. NoEnv \notin held \cup dropped
        BY BufferAssumption DEF EnvInv
    <2>2. \A k \in 1 .. Len(frames') : Placed(frames'[k], held', dropped')
        BY <1>1, <1>2, <2>1 DEF EnvInv, Placed
    <2>3. FramesApart'
        BY <1>1, <1>2 DEF EnvInv, FramesApart
    <2>4. \A r \in Iproc : \A i \in 1 .. Len(box[r]) : box[r][i] # NoEnv
        BY BoxIn DEF EnvInv
    <2>5. BoxApart'
        <3>1. ASSUME NEW r \in Iproc, NEW i \in 1 .. Len(box[r]), NEW k \in 1 .. Len(frames')
              PROVE  frames'[k].env # box[r][i]
            BY <1>1, <1>2, <2>4, <3>1 DEF EnvInv, BoxApart
        <3>2. BoxApart
            BY DEF EnvInv
        <3> QED
            BY <1>2, <3>1, <3>2 DEF BoxApart
    <2> QED
        BY <1>2, <2>2, <2>3, <2>5 DEF EnvInv
<1>3. CASE box[p] # <<>> /\ f.env = Head(box[p]) /\ box' = [box EXCEPT ![p] = Tail(@)]
    <2>1. box \in [Iproc -> Seq(Env)] /\ box[p] \in Seq(Env) /\ 1 \in 1 .. Len(box[p])
          /\ f.env = box[p][1] /\ Len(box[p]) \in Nat
        BY <1>3 DEF EnvInv
    <2>2. f.env \in Env /\ f.env \notin held \cup dropped
          /\ \A k \in 1 .. Len(frames) : frames[k].env # f.env
        BY <2>1, BoxIn DEF EnvInv, BoxApart
    <2>3. Tail(box[p]) \in Seq(Env) /\ Len(Tail(box[p])) = Len(box[p]) - 1
          /\ \A i \in 1 .. Len(box[p]) - 1 : Tail(box[p])[i] = box[p][i + 1]
        BY <1>3, <2>1
    <2>4. box' \in [Iproc -> Seq(Env)] /\ box'[p] = Tail(box[p])
          /\ \A r \in Iproc : r # p => box'[r] = box[r]
        BY <1>3, <2>1, <2>3
    <2>5. \A k \in 1 .. Len(frames') : Placed(frames'[k], held', dropped')
        BY <1>1, <2>2 DEF EnvInv, Placed
    <2>6. FramesApart'
        BY <1>1, <2>2 DEF EnvInv, FramesApart
    <2> DEFINE was(r, i) == IF r = p THEN i + 1 ELSE i
    <2>7. \A r \in Iproc : \A i \in 1 .. Len(box'[r]) :
             /\ was(r, i) \in 1 .. Len(box[r])
             /\ box'[r][i] = box[r][was(r, i)]
             /\ ~ (r = p /\ was(r, i) = 1)
        <3> SUFFICES ASSUME NEW r \in Iproc, NEW i \in 1 .. Len(box'[r])
                     PROVE  /\ was(r, i) \in 1 .. Len(box[r])
                            /\ box'[r][i] = box[r][was(r, i)]
                            /\ ~ (r = p /\ was(r, i) = 1)
            OBVIOUS
        <3>1. CASE r = p
            <4>1. i \in 1 .. Len(box[p]) - 1 /\ was(r, i) = i + 1
                BY <2>3, <2>4, <3>1
            <4>2. i + 1 \in 1 .. Len(box[p]) /\ i + 1 # 1
                BY <2>1, <4>1
            <4>3. box'[r][i] = box[p][i + 1]
                BY <2>3, <2>4, <3>1, <4>1
            <4> QED
                BY <3>1, <4>1, <4>2, <4>3
        <3>2. CASE r # p
            BY <2>4, <3>2
        <3> QED
            BY <3>1, <3>2
    <2>8. BoxApart'
        <3>0. \A r, s \in Iproc : \A i, j \in Nat : r = s /\ was(r, i) = was(s, j) => i = j
            OBVIOUS
        <3> HIDE DEF was
        <3>1. ASSUME NEW r \in Iproc, NEW i \in 1 .. Len(box'[r])
              PROVE  /\ box'[r][i] \notin held' \cup dropped'
                     /\ \A k \in 1 .. Len(frames') : frames'[k].env # box'[r][i]
            <4>1. box'[r][i] = box[r][was(r, i)] /\ was(r, i) \in 1 .. Len(box[r])
                  /\ ~ (r = p /\ was(r, i) = 1)
                BY <2>7, <3>1
            <4>2. box[r][was(r, i)] # box[p][1]
                BY <2>1, <4>1 DEF EnvInv, BoxApart
            <4>3. box[r][was(r, i)] \notin held \cup dropped
                  /\ \A k \in 1 .. Len(frames) : frames[k].env # box[r][was(r, i)]
                BY <4>1 DEF EnvInv, BoxApart
            <4> QED
                BY <1>1, <2>1, <4>1, <4>2, <4>3
        <3>2. ASSUME NEW r \in Iproc, NEW i \in 1 .. Len(box'[r]),
                     NEW s \in Iproc, NEW j \in 1 .. Len(box'[s]),
                     box'[r][i] = box'[s][j]
              PROVE  r = s /\ i = j
            <4>1. box'[r][i] = box[r][was(r, i)] /\ was(r, i) \in 1 .. Len(box[r])
                BY <2>7, <3>2
            <4>2. box'[s][j] = box[s][was(s, j)] /\ was(s, j) \in 1 .. Len(box[s])
                BY <2>7, <3>2
            <4>3. r = s /\ was(r, i) = was(s, j)
                <5>1. BoxApart /\ box[r][was(r, i)] = box[s][was(s, j)]
                    BY <3>2, <4>1, <4>2 DEF EnvInv
                <5> QED
                    BY <4>1, <4>2, <5>1, BoxAt
            <4>4. i \in Nat /\ j \in Nat
                OBVIOUS
            <4> QED
                BY <3>0, <4>3, <4>4
        <3> QED
            BY <3>1, <3>2 DEF BoxApart
    <2> QED
        BY <2>4, <2>5, <2>6, <2>8 DEF EnvInv
<1> QED
    BY <1>2, <1>3

(* A user process sends an envelope of its own.                            *)
LEMMA EnvGiven ==
    ASSUME EnvInv, frames = <<>>, UNCHANGED <<frames, dropped>>, NEW e \in held,
           held' = held \ {e}, NEW p \in Iproc,
           box' = [box EXCEPT ![p] = Append(@, e)]
    PROVE  EnvInv'
<1>1. box \in [Iproc -> Seq(Env)] /\ box[p] \in Seq(Env) /\ e \in Env /\ Len(box[p]) \in Nat
    BY DEF EnvInv
<1>2. /\ box' \in [Iproc -> Seq(Env)]
      /\ \A r \in Iproc : r # p => box'[r] = box[r]
      /\ Len(box'[p]) = Len(box[p]) + 1 /\ box'[p][Len(box[p]) + 1] = e
      /\ \A i \in 1 .. Len(box[p]) : box'[p][i] = box[p][i]
    BY <1>1
<1>3. \A r \in Iproc : \A i \in 1 .. Len(box'[r]) :
         \/ i \in 1 .. Len(box[r]) /\ box'[r][i] = box[r][i] /\ box[r][i] # e
         \/ r = p /\ i = Len(box[p]) + 1 /\ box'[r][i] = e
    <2> SUFFICES ASSUME NEW r \in Iproc, NEW i \in 1 .. Len(box'[r])
                 PROVE  \/ i \in 1 .. Len(box[r]) /\ box'[r][i] = box[r][i] /\ box[r][i] # e
                        \/ r = p /\ i = Len(box[p]) + 1 /\ box'[r][i] = e
        OBVIOUS
    <2>1. \A j \in 1 .. Len(box[r]) : box[r][j] # e
        BY DEF EnvInv, BoxApart
    <2>2. CASE r # p
        BY <1>2, <2>1, <2>2
    <2>3. CASE r = p
        <3>1. i = Len(box[p]) + 1 \/ i \in 1 .. Len(box[p])
            BY <1>1, <1>2, <2>3
        <3> QED
            BY <1>2, <2>1, <2>3, <3>1
    <2> QED
        BY <2>2, <2>3
<1>4. Len(frames') = 0
    OBVIOUS
<1>5. BoxApart'
    <2>1. ASSUME NEW r \in Iproc, NEW i \in 1 .. Len(box'[r])
          PROVE  box'[r][i] \notin held' \cup dropped'
        BY <1>3, <2>1 DEF EnvInv, BoxApart
    <2>2. ASSUME NEW r \in Iproc, NEW i \in 1 .. Len(box'[r]),
                 NEW s \in Iproc, NEW j \in 1 .. Len(box'[s]),
                 box'[r][i] = box'[s][j]
          PROVE  r = s /\ i = j
        <3>1. \/ i \in 1 .. Len(box[r]) /\ box'[r][i] = box[r][i] /\ box[r][i] # e
              \/ r = p /\ i = Len(box[p]) + 1 /\ box'[r][i] = e
            BY <1>3, <2>2
        <3>2. \/ j \in 1 .. Len(box[s]) /\ box'[s][j] = box[s][j] /\ box[s][j] # e
              \/ s = p /\ j = Len(box[p]) + 1 /\ box'[s][j] = e
            BY <1>3, <2>2
        <3> QED
            BY <2>2, <3>1, <3>2 DEF EnvInv, BoxApart
    <2>3. \A k \in 1 .. Len(frames') : FALSE
        BY <1>4
    <2> QED
        BY <2>1, <2>2, <2>3 DEF BoxApart
<1>6. FramesApart' /\ FrameInv' /\ \A k \in 1 .. Len(frames') : Placed(frames'[k], held', dropped')
    BY <1>4 DEF FramesApart, FrameInv, EnvInv
<1>7. held' \subseteq Env /\ held' \cap dropped' = {} /\ dropped' \subseteq Env
    BY DEF EnvInv
<1> QED
    BY <1>2, <1>5, <1>6, <1>7 DEF EnvInv

-----------------------------------------------------------------------------
(* The protocol of ok_flag.  A signal of the keyboard is owed an answer    *)
(* from the moment it is sent until its handler has cleared the flag: the  *)
(* flag is raised exactly as long, the child waits, and there is one such  *)
(* signal at most.                                                         *)
Active(f) == f.proc = "kbd" /\ f.pc \in {"nothing", "flag", "store", "inc", "test", "clear"}

ActiveSet == { k \in 1 .. Len(frames) : Active(frames[k]) }

Owing == "kbd" \in pending \/ ActiveSet # {}

KbdPc == {"idle", "read", "raise", "kill", "wait"}

KbdType ==
    /\ keyboard \in [pc : KbdPc, i : Nat, line : Lines \cup {<<>>}]
    /\ keyboard.pc # "idle" => keyboard.line \in Lines
    /\ keyboard.i <= Len(keyboard.line)
    /\ keyboard.pc = "idle" => keyboard.line = <<>>

KbdInv ==
    /\ KbdType
    /\ indata \in [Address -> Byte]
    /\ pending \subseteq Iproc
    /\ ok_flag = 1 <=> (keyboard.pc = "kill" \/ Owing)
    /\ Owing => keyboard.pc = "wait"
    /\ \A j, k \in ActiveSet : j = k
    /\ ActiveSet # {} => "kbd" \notin pending

LEMMA BufFacts == /\ BufSize \in Nat \ {0} /\ BufSize \in Address
                  /\ \A a \in 0 .. BufSize : a \in Address
BY BufferAssumption DEF Address

LEMMA LineFacts ==
    ASSUME NEW t \in Lines \cup Texts
    PROVE  /\ t \in Seq(Nat \ {0, 1}) /\ Len(t) \in Nat
           /\ Len(t) \in 0 .. BufSize - 1
           /\ \A i \in 1 .. Len(t) : t[i] \in Byte /\ t[i] \in Nat \ {0, 1}
<1>1. t \in Seq(Nat \ {0, 1}) /\ Len(t) \in 0 .. BufSize - 1
    BY LengthAssumption
<1>2. \A i \in 1 .. Len(t) : t[i] \in Nat \ {0, 1}
    BY <1>1
<1>3. \A i \in 1 .. Len(t) : t[i] \in Byte
    BY DEF Byte
<1>4. Len(t) \in Nat
    BY <1>1
<1> QED
    BY <1>1, <1>2, <1>3, <1>4

LEMMA TextFacts ==
    ASSUME NEW t \in Texts
    PROVE  Len(t) \in 1 .. BufSize - 1
<1>1. t \in Seq(Nat \ {0, 1}) /\ Len(t) \in 0 .. BufSize - 1 /\ t # <<>>
    BY LengthAssumption
<1> QED
    BY <1>1

LEMMA NulByte == NUL \in Byte /\ 1 \in Byte /\ 0 \in Byte
BY DEF Byte, NUL

(* How the steps of the stack change ActiveSet.                            *)
LEMMA MovedActive ==
    ASSUME FrameInv, frames # <<>>, NEW pc, Moved(pc)
    PROVE  /\ Active(frames'[Depth]) <=> Active(Top) => ActiveSet' = ActiveSet
           /\ ~ Active(frames'[Depth]) => ActiveSet' = ActiveSet \ {Depth}
           /\ Depth \in ActiveSet <=> Active(Top)
<1>1. Top = frames[Depth] /\ Depth \in 1 .. Len(frames)
    BY TopIs
<1>2. Len(frames') = Len(frames) /\ \A k \in 1 .. Len(frames) : k # Depth => frames'[k] = frames[k]
    BY DEF Moved, Depth
<1> QED
    BY <1>1, <1>2 DEF ActiveSet

LEMMA PoppedActive ==
    ASSUME FrameInv, frames # <<>>, Popped, ~ Active(Top)
    PROVE  ActiveSet' = ActiveSet
<1>1. Top = frames[Depth] /\ Depth \in 1 .. Len(frames)
    BY TopIs
<1>2. \A k \in 1 .. Len(frames) : k = Depth \/ k \in 1 .. Len(frames')
    BY DEF Popped, Depth
<1>3. \A k \in 1 .. Len(frames') : k \in 1 .. Len(frames) /\ frames'[k] = frames[k]
    BY DEF Popped, Depth
<1> QED
    BY <1>1, <1>2, <1>3 DEF ActiveSet

LEMMA PushedActive ==
    ASSUME NEW f, Pushed(f)
    PROVE  ActiveSet' = IF Active(f) THEN ActiveSet \cup {Depth + 1} ELSE ActiveSet
<1>1. \A k \in 1 .. Len(frames') : k = Depth + 1 \/ k \in 1 .. Len(frames)
    BY DEF Pushed, Depth
<1>2. \A k \in 1 .. Len(frames) : k \in 1 .. Len(frames') /\ frames'[k] = frames[k]
    BY DEF Pushed, Depth
<1>3. frames'[Depth + 1] = f /\ Depth + 1 \in 1 .. Len(frames')
    BY DEF Pushed
<1> QED
    BY <1>1, <1>2, <1>3 DEF ActiveSet

(* What keeps the protocol: nothing it speaks of changes, or its answer is *)
(* given.                                                                  *)
LEMMA KbdKept ==
    ASSUME KbdInv, UNCHANGED <<keyboard, indata>>, ActiveSet' = ActiveSet,
           \/ pending' = pending
           \/ pending' = pending \cup {"crt"}
           \/ pending' = pending \ {"crt"}
    PROVE  KbdInv'
BY DEF KbdInv, KbdType, Owing, ok_flag, Iproc

LEMMA KbdAnswered ==
    ASSUME KbdInv, UNCHANGED <<keyboard, pending>>, NEW k \in ActiveSet,
           ActiveSet' = ActiveSet \ {k}, indata' = [indata EXCEPT ![BufSize] = 0]
    PROVE  KbdInv'
<1>1. ActiveSet' = {} /\ "kbd" \notin pending /\ keyboard.pc = "wait"
    BY DEF KbdInv, Owing
<1>2. indata' \in [Address -> Byte] /\ indata'[BufSize] = 0
    BY NulByte, BufFacts DEF KbdInv
<1> QED
    BY <1>1, <1>2 DEF KbdInv, KbdType, Owing, ok_flag

LEMMA KbdTaken ==
    ASSUME KbdInv, UNCHANGED <<keyboard, indata>>, "kbd" \in pending, NEW k,
           ActiveSet' = ActiveSet \cup {k}, pending' = pending \ {"kbd"}
    PROVE  KbdInv'
<1>1. ActiveSet = {} /\ ActiveSet' = {k}
    BY DEF KbdInv
<1> QED
    BY <1>1 DEF KbdInv, KbdType, Owing, ok_flag

(* The steps of the child itself.                                          *)
LEMMA KbdChild ==
    ASSUME KbdInv, Keyboard \/ \E l \in Lines : Type(l)
    PROVE  KbdInv' /\ UNCHANGED frames
<1>1. ActiveSet' = ActiveSet /\ UNCHANGED frames
    BY DEF Keyboard, Type, ReadChar, EndLine, RaiseOk, SignalLine, NextLine, ActiveSet
<1>2. /\ keyboard \in [pc : KbdPc, i : Nat, line : Lines \cup {<<>>}]
      /\ keyboard.pc # "idle" => keyboard.line \in Lines
      /\ keyboard.i <= Len(keyboard.line)
      /\ indata \in [Address -> Byte]
    BY DEF KbdInv, KbdType
<1>3. ASSUME NEW l \in Lines, Type(l)
      PROVE  KbdInv'
    <2>1. Len(l) \in Nat
        BY LineFacts
    <2>2. KbdType'
        BY <1>3, <2>1 DEF Type, KbdType, KbdPc
    <2> QED
        BY <1>1, <1>3, <2>2 DEF Type, KbdInv, Owing, ok_flag, shared
<1>4. CASE ReadChar
    <2>1. keyboard.line \in Lines /\ keyboard.i \in Nat /\ keyboard.i < Len(keyboard.line)
        BY <1>2, <1>4 DEF ReadChar
    <2>2. /\ keyboard.i \in 0 .. BufSize - 1 /\ keyboard.i + 1 \in 1 .. Len(keyboard.line)
          /\ keyboard.i + 1 \in Nat /\ keyboard.i + 1 <= Len(keyboard.line)
        <3>1. Len(keyboard.line) \in 0 .. BufSize - 1 /\ BufSize \in Nat
            BY <2>1, LineFacts, BufFacts
        <3> QED
            BY <2>1, <3>1
    <2>3. keyboard.line[keyboard.i + 1] \in Byte
        BY <2>1, <2>2, LineFacts
    <2>4. keyboard.i \in Address /\ keyboard.i # BufSize
        BY <2>2, BufFacts
    <2>5. indata' \in [Address -> Byte] /\ indata'[BufSize] = indata[BufSize]
        BY <1>2, <1>4, <2>3, <2>4 DEF ReadChar
    <2>6. /\ keyboard'.pc = "read" /\ keyboard'.line = keyboard.line
          /\ keyboard' \in [pc : KbdPc, i : Nat, line : Lines \cup {<<>>}]
          /\ keyboard'.i = keyboard.i + 1
        BY <1>2, <1>4, <2>2 DEF ReadChar
    <2>7. KbdType'
        BY <2>1, <2>2, <2>6 DEF KbdType
    <2>8. pending' = pending /\ keyboard.pc = "read"
        BY <1>4 DEF ReadChar
    <2> QED
        BY <1>1, <2>5, <2>6, <2>7, <2>8 DEF KbdInv, Owing, ok_flag
<1>5. CASE EndLine
    <2>1. keyboard.line \in Lines /\ keyboard.i \in Nat /\ keyboard.i = Len(keyboard.line)
        BY <1>2, <1>5 DEF EndLine
    <2>2. keyboard.i \in 0 .. BufSize - 1
        BY <2>1, LineFacts
    <2>3. keyboard.i \in Address /\ keyboard.i # BufSize
        BY <2>2, BufFacts
    <2>4. indata' \in [Address -> Byte] /\ indata'[BufSize] = indata[BufSize]
        BY <1>2, <1>5, <2>3, NulByte DEF EndLine
    <2>5. keyboard' = [keyboard EXCEPT !.pc = "raise"] /\ keyboard.pc = "read"
        BY <1>5 DEF EndLine
    <2>6. KbdType'
        BY <1>2, <2>1, <2>5 DEF KbdType, KbdPc
    <2>7. keyboard'.pc = "raise"
        BY <1>2, <2>5
    <2> QED
        BY <1>1, <1>5, <2>4, <2>5, <2>6, <2>7 DEF EndLine, KbdInv, Owing, ok_flag
<1>6. CASE RaiseOk
    <2>1. indata' \in [Address -> Byte] /\ indata'[BufSize] = 1
        BY <1>2, <1>6, NulByte, BufFacts DEF RaiseOk
    <2>2. keyboard' = [keyboard EXCEPT !.pc = "kill", !.i = 0] /\ keyboard.pc = "raise"
        BY <1>6 DEF RaiseOk
    <2>3. KbdType' /\ keyboard'.pc = "kill"
        <3>1. keyboard.line \in Lines /\ 0 <= Len(keyboard.line)
            <4>1. keyboard.line \in Lines
                BY <1>2, <2>2
            <4>2. Len(keyboard.line) \in Nat
                BY <4>1, LineFacts
            <4> QED
                BY <4>1, <4>2
        <3> QED
            BY <1>2, <2>2, <3>1 DEF KbdType, KbdPc
    <2> QED
        BY <1>1, <1>6, <2>1, <2>2, <2>3 DEF RaiseOk, KbdInv, Owing, ok_flag
<1>7. CASE SignalLine
    <2>1. keyboard' = [keyboard EXCEPT !.pc = "wait"] /\ keyboard.pc = "kill"
          /\ pending' = pending \cup {"kbd"} /\ indata' = indata
        BY <1>7 DEF SignalLine, shared
    <2>2. KbdType' /\ keyboard'.pc = "wait"
        BY <1>2, <2>1 DEF KbdType, KbdPc
    <2>3. ActiveSet = {} /\ ok_flag = 1
        BY <2>1 DEF KbdInv, Owing
    <2> QED
        BY <1>1, <2>1, <2>2, <2>3 DEF KbdInv, Owing, ok_flag, Iproc
<1>8. CASE NextLine
    <2>1. keyboard' = [pc |-> "idle", i |-> 0, line |-> <<>>] /\ ok_flag # 1
          /\ pending' = pending /\ indata' = indata
        BY <1>8 DEF NextLine, shared
    <2>2. KbdType' /\ keyboard'.pc = "idle"
        BY <2>1 DEF KbdType, KbdPc
    <2>3. ~ Owing
        BY <2>1 DEF KbdInv
    <2> QED
        BY <1>1, <2>1, <2>2, <2>3 DEF KbdInv, Owing, ok_flag
<1> QED
    BY <1>1, <1>3, <1>4, <1>5, <1>6, <1>7, <1>8 DEF Keyboard

-----------------------------------------------------------------------------
SideInv == EnvInv /\ KbdInv

ActivePc == {"nothing", "flag", "store", "inc", "test", "clear"}

(* A step of the top handler that tells the keyboard nothing.              *)
LEMMA SideGoes ==
    ASSUME SideInv, frames # <<>>, NEW pc \in Pc, Goto(pc),
           UNCHANGED <<held, dropped, box, keyboard, indata, pending>>,
           Top.pc \in Pc \ {"return"}, pc # "nothing",
           pc = "return" <=> Top.pc = "nothing",
           Top.proc = "kbd" => pc \notin {"nul", "raise"},
           Top.proc = "crt" => pc # "clear",
           Top.proc = "kbd" => (pc \in ActivePc <=> Top.pc \in ActivePc)
    PROVE  SideInv' /\ Moved(pc)
<1>1. FrameInv /\ EnvInv /\ KbdInv
    BY DEF SideInv, EnvInv
<1>2. Moved(pc) /\ Shape(Top)
    BY <1>1, GotoMoves, TopIs
<1>3. FrameInv'
    BY <1>1, <1>2, MovedShape DEF Shape
<1>4. EnvInv'
    BY <1>1, <1>2, <1>3, EnvMoved
<1>5. Active(frames'[Depth]) <=> Active(Top)
    BY <1>2 DEF Moved, Active, ActivePc
<1>6. ActiveSet' = ActiveSet
    BY <1>1, <1>2, <1>5, MovedActive
<1>7. KbdInv'
    BY <1>1, <1>6, KbdKept
<1> QED
    BY <1>2, <1>4, <1>7 DEF SideInv

(* A step of kbd_iproc that clears ok_flag.                                *)
LEMMA SideAnswers ==
    ASSUME SideInv, frames # <<>>, NEW pc \in {"send", "return"}, Goto(pc),
           UNCHANGED <<held, dropped, box, keyboard, pending>>,
           indata' = [indata EXCEPT ![BufSize] = 0],
           Top.proc = "kbd", Top.pc \in {"nothing", "clear"},
           pc = "return" <=> Top.pc = "nothing"
    PROVE  SideInv' /\ Moved(pc)
<1>1. FrameInv /\ EnvInv /\ KbdInv /\ pc \in Pc
    BY DEF SideInv, EnvInv, Pc
<1>2. Moved(pc) /\ Shape(Top)
    BY <1>1, GotoMoves, TopIs
<1>3. FrameInv'
    BY <1>1, <1>2, MovedShape DEF Shape
<1>4. EnvInv'
    BY <1>1, <1>2, <1>3, EnvMoved
<1>5. ~ Active(frames'[Depth]) /\ Active(Top)
    BY <1>2 DEF Moved, Active
<1>6. ActiveSet' = ActiveSet \ {Depth} /\ Depth \in ActiveSet
    BY <1>1, <1>2, <1>5, MovedActive
<1>7. KbdInv'
    BY <1>1, <1>6, KbdAnswered
<1> QED
    BY <1>2, <1>4, <1>7 DEF SideInv

LEMMA AtTop ==
    ASSUME NEW proc, NEW pc, At(proc, pc)
    PROVE  frames # <<>> /\ Top.proc = proc /\ Top.pc = pc
BY DEF At

(* kbd_iproc finds the flag raised: it never drops its envelope.           *)
LEMMA KbdFlagRaised ==
    ASSUME SideInv, At("kbd", "flag")
    PROVE  ok_flag = 1 /\ keyboard.pc = "wait" /\ "kbd" \notin pending
<1>1. Active(Top) /\ FrameInv /\ frames # <<>>
    BY AtTop DEF Active, SideInv, EnvInv
<1>2. Depth \in ActiveSet
    BY <1>1, TopIs DEF ActiveSet
<1> QED
    BY <1>2 DEF SideInv, KbdInv, Owing

(* What each handler step does to the stack and to the keyboard's side.    *)
LEMMA KbdIprocSteps ==
    ASSUME SideInv
    PROVE  /\ KbdNothing => SideInv' /\ Moved("return")
           /\ KbdFlag => SideInv' /\ Moved("store") /\ ok_flag = 1
           /\ KbdStore => SideInv' /\ Moved("inc")
           /\ KbdTest => SideInv' /\ Moved(IF indata[buf_index - 1] # NUL THEN "store" ELSE "clear")
           /\ KbdClear => SideInv' /\ Moved("send")
<1>1. ASSUME KbdNothing
      PROVE  SideInv' /\ Moved("return")
    <2>1. frames # <<>> /\ Top.proc = "kbd" /\ Top.pc = "nothing"
        BY <1>1, AtTop DEF KbdNothing
    <2>2. Goto("return") /\ UNCHANGED <<held, dropped, box, keyboard, pending>>
          /\ indata' = [indata EXCEPT ![BufSize] = 0]
        BY <1>1 DEF KbdNothing, messages
    <2> QED
        BY <2>1, <2>2, SideAnswers
<1>2. ASSUME KbdFlag
      PROVE  SideInv' /\ Moved("store") /\ ok_flag = 1
    <2>1. frames # <<>> /\ Top.proc = "kbd" /\ Top.pc = "flag" /\ ok_flag = 1
        BY <1>2, AtTop, KbdFlagRaised DEF KbdFlag
    <2>2. Goto("store") /\ UNCHANGED <<held, dropped, box, keyboard, indata, pending>>
        BY <1>2, <2>1 DEF KbdFlag, Begin, shared
    <2> QED
        BY <2>1, <2>2, SideGoes DEF Pc, ActivePc
<1>3. ASSUME KbdStore
      PROVE  SideInv' /\ Moved("inc")
    <2>1. frames # <<>> /\ Top.proc = "kbd" /\ Top.pc = "store"
        BY <1>3, AtTop DEF KbdStore
    <2>2. Goto("inc") /\ UNCHANGED <<held, dropped, box, keyboard, indata, pending>>
        BY <1>3 DEF KbdStore, shared
    <2> QED
        BY <2>1, <2>2, SideGoes DEF Pc, ActivePc
<1>4. ASSUME KbdTest
      PROVE  SideInv' /\ Moved(IF indata[buf_index - 1] # NUL THEN "store" ELSE "clear")
    <2> DEFINE pc == IF indata[buf_index - 1] # NUL THEN "store" ELSE "clear"
    <2>1. frames # <<>> /\ Top.proc = "kbd" /\ Top.pc = "test"
        BY <1>4, AtTop DEF KbdTest
    <2>2. Goto(pc) /\ UNCHANGED <<held, dropped, box, keyboard, indata, pending>>
        BY <1>4 DEF KbdTest, shared, messages
    <2>3. pc \in {"store", "clear"}
        OBVIOUS
    <2> HIDE DEF pc
    <2>4. SideInv' /\ Moved(pc)
        BY <2>1, <2>2, <2>3, SideGoes DEF Pc, ActivePc
    <2> QED
        BY <2>4 DEF pc
<1>5. ASSUME KbdClear
      PROVE  SideInv' /\ Moved("send")
    <2>1. frames # <<>> /\ Top.proc = "kbd" /\ Top.pc = "clear"
        BY <1>5, AtTop DEF KbdClear
    <2>2. Goto("send") /\ UNCHANGED <<held, dropped, box, keyboard, pending>>
          /\ indata' = [indata EXCEPT ![BufSize] = 0]
        BY <1>5 DEF KbdClear, messages
    <2> QED
        BY <2>1, <2>2, SideAnswers
<1> QED
    BY <1>1, <1>2, <1>3, <1>4, <1>5

LEMMA CrtIprocSteps ==
    ASSUME SideInv
    PROVE  /\ CrtNothing => SideInv' /\ Moved("return")
           /\ CrtFlag => SideInv' /\ Moved(IF oc_flag = 0 THEN "store" ELSE "return")
           /\ CrtStore => SideInv' /\ Moved("inc")
           /\ CrtTest => SideInv' /\ Moved(IF msg_text[Top.env][buf_index] # NUL
                                           THEN "store" ELSE "nul")
           /\ CrtEnd => SideInv' /\ Moved("raise")
           /\ RaiseOc => SideInv' /\ Moved("send")
<1>1. ASSUME CrtNothing
      PROVE  SideInv' /\ Moved("return")
    <2>1. frames # <<>> /\ Top.proc = "crt" /\ Top.pc = "nothing"
        BY <1>1, AtTop DEF CrtNothing
    <2>2. Goto("return") /\ UNCHANGED <<held, dropped, box, keyboard, indata, pending>>
        BY <1>1 DEF CrtNothing, messages
    <2> QED
        BY <2>1, <2>2, SideGoes DEF Pc, ActivePc
<1>2. ASSUME CrtFlag
      PROVE  SideInv' /\ Moved(IF oc_flag = 0 THEN "store" ELSE "return")
    <2>1. frames # <<>> /\ Top.proc = "crt" /\ Top.pc = "flag"
        BY <1>2, AtTop DEF CrtFlag
    <2>2. CASE oc_flag = 0
        <3>1. Goto("store") /\ UNCHANGED <<held, dropped, box, keyboard, indata, pending>>
            BY <1>2, <2>2 DEF CrtFlag, Begin, shared
        <3> QED
            BY <2>1, <2>2, <3>1, SideGoes DEF Pc, ActivePc
    <2>3. CASE oc_flag # 0
        <3>1. Goto("return") /\ UNCHANGED <<held, box, keyboard, indata, pending>>
              /\ dropped' = dropped \cup {Top.env}
            BY <1>2, <2>3 DEF CrtFlag, Leave, shared
        <3>2. FrameInv /\ EnvInv /\ KbdInv /\ "return" \in Pc
            BY DEF SideInv, EnvInv, Pc
        <3>3. Moved("return")
            BY <2>1, <3>1, <3>2, GotoMoves
        <3>4. FrameInv'
            BY <2>1, <3>2, <3>3, MovedShape
        <3>5. EnvInv'
            BY <2>1, <3>1, <3>2, <3>3, <3>4, EnvLeft
        <3>6. ~ Active(frames'[Depth]) /\ ~ Active(Top)
            BY <2>1, <3>3 DEF Moved, Active
        <3>7. ActiveSet' = ActiveSet
            BY <2>1, <3>2, <3>3, <3>6, MovedActive
        <3>8. KbdInv'
            BY <3>1, <3>2, <3>7, KbdKept
        <3> QED
            BY <2>3, <3>3, <3>5, <3>8 DEF SideInv
    <2> QED
        BY <2>2, <2>3
<1>3. ASSUME CrtStore
      PROVE  SideInv' /\ Moved("inc")
    <2>1. frames # <<>> /\ Top.proc = "crt" /\ Top.pc = "store"
        BY <1>3, AtTop DEF CrtStore
    <2>2. Goto("inc") /\ UNCHANGED <<held, dropped, box, keyboard, indata, pending>>
        BY <1>3 DEF CrtStore, messages
    <2> QED
        BY <2>1, <2>2, SideGoes DEF Pc, ActivePc
<1>4. ASSUME CrtTest
      PROVE  SideInv' /\ Moved(IF msg_text[Top.env][buf_index] # NUL THEN "store" ELSE "nul")
    <2> DEFINE pc == IF msg_text[Top.env][buf_index] # NUL THEN "store" ELSE "nul"
    <2>1. frames # <<>> /\ Top.proc = "crt" /\ Top.pc = "test"
        BY <1>4, AtTop DEF CrtTest
    <2>2. Goto(pc) /\ UNCHANGED <<held, dropped, box, keyboard, indata, pending>>
        BY <1>4 DEF CrtTest, shared, messages
    <2>3. pc \in {"store", "nul"}
        OBVIOUS
    <2> HIDE DEF pc
    <2>4. SideInv' /\ Moved(pc)
        BY <2>1, <2>2, <2>3, SideGoes DEF Pc, ActivePc
    <2> QED
        BY <2>4 DEF pc
<1>5. ASSUME CrtEnd
      PROVE  SideInv' /\ Moved("raise")
    <2>1. frames # <<>> /\ Top.proc = "crt" /\ Top.pc = "nul"
        BY <1>5, AtTop DEF CrtEnd
    <2>2. Goto("raise") /\ UNCHANGED <<held, dropped, box, keyboard, indata, pending>>
        BY <1>5 DEF CrtEnd, messages
    <2> QED
        BY <2>1, <2>2, SideGoes DEF Pc, ActivePc
<1>6. ASSUME RaiseOc
      PROVE  SideInv' /\ Moved("send")
    <2>1. frames # <<>> /\ Top.proc = "crt" /\ Top.pc = "raise"
        BY <1>6, AtTop DEF RaiseOc
    <2>2. Goto("send") /\ UNCHANGED <<held, dropped, box, keyboard, indata, pending>>
        BY <1>6 DEF RaiseOc, messages
    <2> QED
        BY <2>1, <2>2, SideGoes DEF Pc, ActivePc
<1> QED
    BY <1>1, <1>2, <1>3, <1>4, <1>5, <1>6

LEMMA OtherHandlerSteps ==
    ASSUME SideInv
    PROVE  /\ Increment => SideInv' /\ Moved("test")
           /\ Reply => SideInv' /\ Moved("return")
           /\ Return => SideInv' /\ Popped
<1>0. FrameInv /\ EnvInv /\ KbdInv /\ "return" \in Pc
    BY DEF SideInv, EnvInv, Pc
<1>1. ASSUME Increment
      PROVE  SideInv' /\ Moved("test")
    <2>1. frames # <<>> /\ Top.pc = "inc" /\ Goto("test")
          /\ UNCHANGED <<held, dropped, box, keyboard, indata, pending>>
        BY <1>1 DEF Increment, shared, messages
    <2> QED
        BY <2>1, SideGoes DEF Pc, ActivePc
<1>2. ASSUME Reply
      PROVE  SideInv' /\ Moved("return")
    <2>1. frames # <<>> /\ Top.pc = "send" /\ Goto("return")
          /\ UNCHANGED <<dropped, box, keyboard, indata, pending>>
          /\ held' = held \cup {Top.env}
        BY <1>2 DEF Reply, shared
    <2>2. Moved("return")
        BY <1>0, <2>1, GotoMoves
    <2>3. FrameInv'
        BY <1>0, <2>1, <2>2, MovedShape
    <2>4. EnvInv'
        BY <1>0, <2>1, <2>2, <2>3, EnvReplied
    <2>5. ~ Active(frames'[Depth]) /\ ~ Active(Top)
        BY <2>1, <2>2 DEF Moved, Active
    <2>6. ActiveSet' = ActiveSet
        BY <1>0, <2>1, <2>2, <2>5, MovedActive
    <2>7. KbdInv'
        BY <1>0, <2>1, <2>6, KbdKept
    <2> QED
        BY <2>2, <2>4, <2>7 DEF SideInv
<1>3. ASSUME Return
      PROVE  SideInv' /\ Popped
    <2>1. frames # <<>> /\ Top.pc = "return" /\ frames' = SubSeq(frames, 1, Depth - 1)
          /\ UNCHANGED <<held, dropped, box, keyboard, indata, pending>>
        BY <1>3 DEF Return, shared, messages
    <2>2. Popped
        BY <1>0, <2>1, ReturnPops
    <2>3. FrameInv'
        BY <1>0, <2>2, PoppedShape
    <2>4. EnvInv'
        BY <1>0, <2>1, <2>2, <2>3, EnvPopped
    <2>5. ~ Active(Top)
        BY <2>1 DEF Active
    <2>6. ActiveSet' = ActiveSet
        BY <1>0, <2>1, <2>2, <2>5, PoppedActive
    <2>7. KbdInv'
        BY <1>0, <2>1, <2>6, KbdKept
    <2> QED
        BY <2>2, <2>4, <2>7 DEF SideInv
<1> QED
    BY <1>1, <1>2, <1>3

(* The frame a handler starts as.                                          *)
Started(proc) ==
    IF box[proc] = <<>> THEN [proc |-> proc, pc |-> "nothing", env |-> NoEnv]
    ELSE [proc |-> proc, pc |-> "flag", env |-> Head(box[proc])]

LEMMA InterruptSteps ==
    ASSUME SideInv, NEW proc \in Iproc, Interrupt(proc)
    PROVE  SideInv' /\ Pushed(Started(proc)) /\ Started(proc) \in Frame
<1> DEFINE f == Started(proc)
<1>0. FrameInv /\ EnvInv /\ KbdInv
    BY DEF SideInv, EnvInv
<1>1. /\ proc \in pending /\ pending' = pending \ {proc}
      /\ frames' = Append(frames, f)
      /\ box' = [box EXCEPT ![proc] = IF @ = <<>> THEN @ ELSE Tail(@)]
      /\ UNCHANGED <<held, dropped, keyboard, indata>>
    BY DEF Interrupt, shared, Started
<1>2. box \in [Iproc -> Seq(Env)] /\ box[proc] \in Seq(Env)
    BY <1>0 DEF EnvInv
<1>3. /\ f.proc = proc /\ f.pc \in {"nothing", "flag"}
      /\ f.pc = "nothing" => f.env = NoEnv
      /\ f.pc = "flag" => f.env \in Env
      /\ f \in Frame
    <2>1. CASE box[proc] = <<>>
        BY <2>1 DEF Started, Frame, Pc
    <2>2. CASE box[proc] # <<>>
        <3>1. Head(box[proc]) \in Env
            BY <1>2, <2>2
        <3> QED
            BY <2>2, <3>1 DEF Started, Frame, Pc
    <2> QED
        BY <2>1, <2>2
<1>4. \/ box' = box /\ f.env = NoEnv
      \/ box[proc] # <<>> /\ f.env = Head(box[proc]) /\ box' = [box EXCEPT ![proc] = Tail(@)]
    BY <1>1, <1>2 DEF Started
<1> HIDE DEF f
<1>5. Pushed(f)
    BY <1>0, <1>1, <1>3, AppendPushes
<1>6. FrameInv'
    <2>1. Shape(f)
        BY <1>3 DEF Shape
    <2> QED
        BY <1>0, <1>5, <2>1, PushedShape
<1>7. EnvInv'
    <2>1. f.pc # "return"
        BY <1>3
    <2> QED
        BY <1>0, <1>1, <1>4, <1>5, <1>6, <2>1, EnvTaken
<1>8. ActiveSet' = IF Active(f) THEN ActiveSet \cup {Depth + 1} ELSE ActiveSet
    BY <1>5, PushedActive
<1>9. KbdInv'
    <2>1. CASE proc = "kbd"
        <3>1. Active(f)
            BY <1>3, <2>1 DEF Active
        <3> QED
            BY <1>0, <1>1, <1>8, <2>1, <3>1, KbdTaken
    <2>2. CASE proc = "crt"
        <3>1. ~ Active(f)
            BY <1>3, <2>2 DEF Active
        <3> QED
            BY <1>0, <1>1, <1>8, <2>2, <3>1, KbdKept
    <2> QED
        BY <2>1, <2>2 DEF Iproc
<1> QED
    BY <1>3, <1>5, <1>7, <1>9 DEF SideInv, f

(* The steps of the user processes and of the CRT child.                   *)
LEMMA UserSteps ==
    ASSUME SideInv, NEW e \in Env, Ask(e) \/ \E t \in Texts : Display(e, t)
    PROVE  SideInv' /\ frames = <<>> /\ UNCHANGED frames
<1>1. PICK p \in Iproc :
         /\ frames = <<>> /\ e \in held /\ held' = held \ {e}
         /\ box' = [box EXCEPT ![p] = Append(@, e)]
         /\ UNCHANGED <<frames, dropped, keyboard, indata, pending>>
    BY DEF Ask, Display, shared, Iproc
<1>2. EnvInv'
    BY <1>1, EnvGiven DEF SideInv
<1>3. KbdInv'
    BY <1>1, KbdKept DEF SideInv, ActiveSet
<1> QED
    BY <1>1, <1>2, <1>3 DEF SideInv

LEMMA ScreenSteps ==
    ASSUME SideInv, Screen
    PROVE  SideInv' /\ UNCHANGED frames
<1>1. UNCHANGED <<frames, held, dropped, box, keyboard, indata>>
      /\ (pending' = pending \/ pending' = pending \cup {"crt"})
    BY DEF Screen, Poll, SignalReady, PrintChar, Printed, shared, messages
<1>2. EnvInv'
    BY <1>1, EnvKept DEF SideInv
<1>3. KbdInv'
    BY <1>1, KbdKept DEF SideInv, ActiveSet
<1> QED
    BY <1>1, <1>2, <1>3 DEF SideInv

LEMMA KeyboardSteps ==
    ASSUME SideInv, Keyboard \/ \E l \in Lines : Type(l)
    PROVE  SideInv' /\ UNCHANGED frames
<1>1. UNCHANGED <<frames, held, dropped, box>>
    BY DEF Keyboard, Type, ReadChar, EndLine, RaiseOk, SignalLine, NextLine, messages
<1>2. EnvInv'
    BY <1>1, EnvKept DEF SideInv
<1>3. KbdInv'
    BY KbdChild DEF SideInv
<1> QED
    BY <1>1, <1>2, <1>3 DEF SideInv

LEMMA InitSideInv == Init => SideInv
<1> SUFFICES ASSUME Init PROVE SideInv
    OBVIOUS
<1>1. frames = <<>> /\ Len(frames) = 0 /\ frames \in Seq(Frame)
    BY DEF Init
<1>2. EnvInv
    <2>1. box \in [Iproc -> Seq(Env)] /\ \A p \in Iproc : Len(box[p]) = 0
        BY DEF Init
    <2>2. held = Env /\ dropped = {}
        BY DEF Init
    <2> QED
        BY <1>1, <2>1, <2>2 DEF EnvInv, FrameInv, FramesApart, BoxApart
<1>3. KbdInv
    <2>1. /\ keyboard = [pc |-> "idle", i |-> 0, line |-> <<>>]
          /\ indata = [a \in Address |-> NUL] /\ pending = {}
        BY DEF Init, Empty
    <2>2. ActiveSet = {}
        BY <1>1 DEF ActiveSet
    <2>3. indata \in [Address -> Byte] /\ indata[BufSize] = 0
        BY <2>1, NulByte, BufFacts DEF NUL
    <2>4. KbdType
        BY <2>1 DEF KbdType, KbdPc
    <2> QED
        BY <2>1, <2>2, <2>3, <2>4 DEF KbdInv, Owing, ok_flag
<1> QED
    BY <1>2, <1>3 DEF SideInv

LEMMA NextSideInv == SideInv /\ [Next]_vars => SideInv'
<1> SUFFICES ASSUME SideInv, [Next]_vars PROVE SideInv'
    OBVIOUS
<1>1. CASE UNCHANGED vars
    <2>1. UNCHANGED <<frames, held, dropped, box, keyboard, indata, pending>>
        BY <1>1 DEF vars, shared, messages
    <2>2. EnvInv' /\ KbdInv'
        BY <2>1, EnvKept, KbdKept DEF SideInv, ActiveSet
    <2> QED
        BY <2>2 DEF SideInv
<1>2. CASE Handler
    BY <1>2, KbdIprocSteps, CrtIprocSteps, OtherHandlerSteps DEF Handler, kbd_iproc, crt_iproc
<1>3. CASE Next /\ ~ Handler
    BY <1>3, KeyboardSteps, ScreenSteps, UserSteps, InterruptSteps DEF Next
<1> QED
    BY <1>1, <1>2, <1>3

LEMMA SideInvariant == Spec => []SideInv
BY InitSideInv, NextSideInv, PTL DEF Spec

(* kbd_iproc never returns with the envelope of a request in its hands:    *)
(* whatever handlers interrupt each other, the flag is still raised when   *)
(* it looks.                                                               *)
THEOREM KeyboardKeepsRequests == Spec => []KeyboardDropsNone
<1>1. SideInv => KeyboardDropsNone
    <2> SUFFICES ASSUME SideInv, NEW k \in DOMAIN frames,
                        frames[k].proc = "kbd", frames[k].pc = "return"
                 PROVE  frames[k].env \notin dropped
        BY DEF KeyboardDropsNone
    <2>1. EnvInv /\ k \in 1 .. Len(frames)
        BY DEF SideInv, EnvInv, FrameInv
    <2>2. frames[k].env \in held \cup {NoEnv}
        BY <2>1 DEF EnvInv, Placed
    <2> QED
        BY <2>1, <2>2, BufferAssumption DEF EnvInv
<1> QED
    BY <1>1, SideInvariant, PTL

-----------------------------------------------------------------------------
(* The memory.  A mixed copy ends before the flag only if the byte before  *)
(* the flag is never a letter, which takes lines and texts one byte        *)
(* shorter than the buffers allow.                                         *)
RoomToSpare == \A t \in Lines \cup Texts : Len(t) <= BufSize - 2

(* Byte number i of a text with its NUL, and a buffer that holds the first *)
(* n of them.                                                              *)
Char(s, i) == IF i < Len(s) THEN s[i + 1] ELSE NUL

Upto(text, s, n) == \A i \in 0 .. n - 1 : text[i] = Char(s, i)

Printing == screen.pc \in {"print", "clear"}

MemType ==
    /\ outdata \in [Address -> Byte]
    /\ msg_text \in [Env -> [Address -> Byte]]
    /\ meant \in [Env \cup {NoEnv} -> Lines \cup Texts \cup {<<>>}]
    /\ mixed \subseteq Env
    /\ buf_index \in 0 .. BufSize + 1
    /\ screen \in [pc : {"poll", "sleep", "print", "clear"}, i : 0 .. BufSize + 1,
                   shown : Seq(Byte \ {NUL})]
    /\ loaded \in [text : Lines \cup Texts \cup {<<>>}, whole : BOOLEAN,
                   fate : {"none", "ready", "cleared"}]

(* Where there is never a letter.                                          *)
NulTails ==
    /\ indata[BufSize - 1] = NUL
    /\ outdata[BufSize + 1] = NUL
    /\ \A e \in Env : \A a \in Address : a >= BufSize - 1 => msg_text[e][a] = NUL

(* The line in the buffer of the keyboard.                                 *)
LineInv ==
    /\ keyboard.pc = "read" => Upto(indata, keyboard.line, keyboard.i)
    /\ keyboard.pc \in {"raise", "kill", "wait"}
          => Upto(indata, keyboard.line, Len(keyboard.line) + 1)

(* The CRT child signals again only when the handler of its last signal    *)
(* has returned.                                                           *)
CrtSet == { k \in 1 .. Len(frames) : frames[k].proc = "crt" }

CrtOnce ==
    /\ \A j, k \in CrtSet : j = k
    /\ CrtSet # {} => "crt" \notin pending

(* What a handler has done so far, wherever it is on the stack: in terms   *)
(* of the line of the keyboard child, meant, msg_text, mixed, held,        *)
(* outdata and whether the CRT child prints.                               *)
LineOk(f, line, me) ==
    f.proc = "kbd" /\ f.pc \in {"store", "inc", "test", "clear"} => me[f.env] = line

SentOk(f, me, msg, mx, hd) ==
    /\ f.proc = "kbd" /\ f.env \notin mx
    /\ f.pc \in {"clear", "send"} \/ (f.pc = "return" /\ f.env \in hd)
    => Upto(msg[f.env], me[f.env], Len(me[f.env]) + 1)

HasText(e, me, msg) == me[e] \in Texts /\ Upto(msg[e], me[e], Len(me[e]) + 1)

SourceOk(f, me, msg) ==
    f.proc = "crt" /\ f.pc \notin {"nothing", "return"} => HasText(f.env, me, msg)

LoopPc == {"store", "inc", "test", "nul"}

TurnOk(f, me, mx, out, printing) ==
    f.proc = "crt" =>
        /\ f.pc \in LoopPc \cup {"raise"} => out[BufSize] = 0 /\ ~ printing
        /\ f.pc \in {"nothing", "flag"} /\ printing => out[BufSize] # 0
        /\ f.pc = "raise" /\ f.env \notin mx
              => Upto(out, me[f.env], Len(me[f.env]) + 1)

FrameOk(f, line, me, msg, mx, hd, out, printing) ==
    /\ LineOk(f, line, me)
    /\ SentOk(f, me, msg, mx, hd)
    /\ SourceOk(f, me, msg)
    /\ TurnOk(f, me, mx, out, printing)

FramesOk ==
    \A k \in 1 .. Len(frames) :
        FrameOk(frames[k], keyboard.line, meant, msg_text, mixed, held, outdata, Printing)

BoxOk == \A i \in 1 .. Len(box["crt"]) : HasText(box["crt"][i], meant, msg_text)

(* How far a copy loop is when no other one runs above it: b is buf_index, *)
(* to what it has copied s into, unless another loop has run within it.    *)
KbdProgress(pc, b, s, to) ==
    /\ pc = "store" => b <= Len(s) /\ Upto(to, s, b)
    /\ pc = "inc" => b <= Len(s) /\ Upto(to, s, b + 1)
    /\ pc = "test" => b \in 1 .. Len(s) + 1 /\ Upto(to, s, b)

CrtProgress(pc, b, s, to) ==
    /\ pc = "store" => b <= Len(s) - 1 /\ Upto(to, s, b)
    /\ pc = "inc" => b <= Len(s) - 1 /\ Upto(to, s, b + 1)
    /\ pc = "test" => b \in 1 .. Len(s) /\ Upto(to, s, b)
    /\ pc = "nul" => b = Len(s) /\ Upto(to, s, b)

MixedProgress(pc, b) ==
    /\ pc \in {"store", "inc"} => b <= BufSize - 1
    /\ pc \in {"test", "nul"} => b \in 1 .. BufSize

Progress(f, b, me, msg, mx, out) ==
    IF f.env \in mx THEN MixedProgress(f.pc, b)
    ELSE IF f.proc = "kbd" THEN KbdProgress(f.pc, b, me[f.env], msg[f.env])
    ELSE CrtProgress(f.pc, b, me[f.env], out)

(* Of two copy loops on the stack the lower one is mixed and the upper one *)
(* is not; there are no three.                                             *)
LoopSet == { k \in 1 .. Len(frames) : frames[k].pc \in LoopPc }

LoopInv ==
    \A k \in LoopSet :
        /\ (\A j \in LoopSet : j <= k)
              => Progress(frames[k], buf_index, meant, msg_text, mixed, outdata)
        /\ \A j \in LoopSet : j < k => frames[j].env \in mixed /\ frames[k].env \notin mixed

(* What the CRT child prints from.                                         *)
ScreenInv ==
    /\ oc_flag # 0 <=> loaded.fate = "ready"
    /\ loaded.fate # "none" => loaded.text \in Texts
    /\ Printing => loaded.fate # "none"
    /\ (Printing \/ oc_flag # 0) /\ loaded.whole
          => Upto(outdata, loaded.text, Len(loaded.text) + 1)
    /\ Printing /\ loaded.whole
          => /\ Len(screen.shown) = screen.i /\ screen.i <= Len(loaded.text)
             /\ \A j \in 1 .. screen.i : screen.shown[j] = loaded.text[j]
    /\ screen.pc = "clear" => outdata[screen.i] = NUL
    /\ "crt" \in pending /\ Printing => oc_flag # 0

DevInv ==
    /\ SideInv /\ MemType /\ NulTails /\ LineInv /\ CrtOnce
    /\ FramesOk /\ BoxOk /\ LoopInv /\ ScreenInv
-----------------------------------------------------------------------------
(* Texts.                                                                  *)
LEMMA CharFacts ==
    ASSUME NEW s \in Lines \cup Texts
    PROVE  /\ \A i \in 0 .. Len(s) : Char(s, i) \in Byte
           /\ \A i \in 0 .. Len(s) : Char(s, i) = NUL <=> i = Len(s)
           /\ \A i \in 0 .. Len(s) : i < Len(s) <=> Char(s, i) # NUL
           /\ \A i \in 0 .. Len(s) : Char(s, i) # 1
<1>1. Len(s) \in Nat /\ \A i \in 1 .. Len(s) : s[i] \in Byte /\ s[i] # 0 /\ s[i] # 1
    BY LineFacts
<1>2. ASSUME NEW i \in 0 .. Len(s)
      PROVE  \/ i < Len(s) /\ i # Len(s) /\ Char(s, i) = s[i + 1] /\ i + 1 \in 1 .. Len(s)
             \/ ~ (i < Len(s)) /\ i = Len(s) /\ Char(s, i) = NUL
    BY <1>1 DEF Char
<1> QED
    BY <1>1, <1>2, NulByte DEF NUL

LEMMA UptoKept ==
    ASSUME NEW a, NEW b, NEW s, NEW n, Upto(a, s, n), \A i \in 0 .. n - 1 : b[i] = a[i]
    PROVE  Upto(b, s, n)
BY DEF Upto

LEMMA UptoAdds ==
    ASSUME NEW a \in [Address -> Byte], NEW s, NEW n \in Address, Upto(a, s, n)
    PROVE  Upto([a EXCEPT ![n] = Char(s, n)], s, n + 1)
<1>1. n \in Nat /\ \A i \in 0 .. n + 1 - 1 : i = n \/ i \in 0 .. n - 1
    BY BufFacts DEF Address
<1>2. \A i \in 0 .. n - 1 : i # n
    BY <1>1
<1> QED
    BY <1>1, <1>2 DEF Upto

LEMMA UptoZero ==
    ASSUME NEW a, NEW s
    PROVE  Upto(a, s, 0)
BY DEF Upto

LEMMA UptoWhole ==
    ASSUME NEW s \in Lines \cup Texts \cup {<<>>}, NEW text
    PROVE  Upto(text, s, Len(s) + 1) <=> Carries(text, s)
<1>1. Len(s) \in Nat
    <2>1. CASE s = <<>>
        BY <2>1
    <2>2. CASE s \in Lines \cup Texts
        BY <2>2, LineFacts
    <2> QED
        BY <2>1, <2>2
<1>2. \A i \in 0 .. Len(s) + 1 - 1 : i = Len(s) \/ (i < Len(s) /\ i + 1 \in 1 .. Len(s))
    BY <1>1
<1>3. \A i \in 1 .. Len(s) : i - 1 \in 0 .. Len(s) + 1 - 1 /\ i - 1 < Len(s) /\ i - 1 + 1 = i
    BY <1>1
<1>4. ASSUME Upto(text, s, Len(s) + 1)
      PROVE  Carries(text, s)
    <2>1. \A i \in 1 .. Len(s) : text[i - 1] = s[i]
        BY <1>3, <1>4 DEF Upto, Char
    <2>2. Len(s) \in 0 .. Len(s) + 1 - 1 /\ ~ (Len(s) < Len(s))
        BY <1>1
    <2> QED
        BY <1>4, <2>1, <2>2 DEF Carries, Upto, Char
<1>5. ASSUME Carries(text, s), NEW i \in 0 .. Len(s) + 1 - 1
      PROVE  text[i] = Char(s, i)
    <2>1. CASE i = Len(s)
        BY <1>1, <1>5, <2>1 DEF Carries, Char
    <2>2. CASE i < Len(s) /\ i + 1 \in 1 .. Len(s)
        <3>1. text[i + 1 - 1] = s[i + 1] /\ i + 1 - 1 = i
            BY <1>1, <1>5, <2>2 DEF Carries
        <3> QED
            BY <2>2, <3>1 DEF Char
    <2> QED
        BY <1>2, <1>5, <2>1, <2>2
<1> QED
    BY <1>4, <1>5 DEF Upto

-----------------------------------------------------------------------------
(* What a step that does not touch a handler leaves to it.                 *)
LEMMA FrameKept ==
    ASSUME NEW f, Shape(f), f.env \in Env \cup {NoEnv},
           NEW line, NEW me, NEW msg, NEW mx, NEW hd, NEW out, NEW printing,
           NEW line2, NEW me2, NEW msg2, NEW mx2, NEW hd2, NEW out2, NEW printing2,
           FrameOk(f, line, me, msg, mx, hd, out, printing),
           f.env \in Env => /\ me2[f.env] = me[f.env] /\ msg2[f.env] = msg[f.env]
                            /\ (f.env \in hd2 => f.env \in hd),
           f.env \in Env /\ f.pc \notin LoopPc => (f.env \in mx2 <=> f.env \in mx),
           hd2 \subseteq Env,
           line2 = line \/ ~ Active(f),
           f.proc = "crt" => \/ out2 = out /\ printing2 = printing
                             \/ TurnOk(f, me2, mx2, out2, printing2)
    PROVE  FrameOk(f, line2, me2, msg2, mx2, hd2, out2, printing2)
<1>1. NoEnv \notin Env
    BY BufferAssumption
<1>2. LineOk(f, line2, me2)
    BY <1>1 DEF FrameOk, LineOk, Shape, Active
<1>3. SentOk(f, me2, msg2, mx2, hd2)
    <2> SUFFICES ASSUME f.proc = "kbd", f.env \notin mx2,
                        f.pc \in {"clear", "send"} \/ (f.pc = "return" /\ f.env \in hd2)
                 PROVE  Upto(msg2[f.env], me2[f.env], Len(me2[f.env]) + 1)
        BY DEF SentOk
    <2>1. f.env \in Env /\ f.pc \notin LoopPc
        BY DEF Shape, LoopPc
    <2> QED
        BY <2>1 DEF FrameOk, SentOk
<1>4. SourceOk(f, me2, msg2)
    BY <1>1 DEF FrameOk, SourceOk, HasText, Shape
<1>5. TurnOk(f, me2, mx2, out2, printing2)
    <2>1. CASE f.proc = "crt" /\ out2 = out /\ printing2 = printing
        <3>1. TurnOk(f, me, mx, out, printing)
            BY DEF FrameOk
        <3>2. f.pc = "raise" => f.env \in Env /\ f.pc \notin LoopPc
            BY <1>1 DEF Shape, LoopPc
        <3> QED
            BY <2>1, <3>1, <3>2 DEF TurnOk
    <2>2. CASE f.proc # "crt"
        BY <2>2 DEF TurnOk
    <2> QED
        BY <2>1, <2>2
<1> QED
    BY <1>2, <1>3, <1>4, <1>5 DEF FrameOk

LEMMA ProgressKept ==
    ASSUME NEW f, NEW b, NEW me, NEW msg, NEW mx, NEW out,
           NEW me2, NEW msg2, NEW mx2, NEW out2,
           Progress(f, b, me, msg, mx, out),
           me2[f.env] = me[f.env], msg2[f.env] = msg[f.env], f.env \in mx2 <=> f.env \in mx,
           out2 = out \/ f.proc = "kbd"
    PROVE  Progress(f, b, me2, msg2, mx2, out2)
BY DEF Progress

OkNext(f) == FrameOk(f, keyboard.line', meant', msg_text', mixed', held', outdata', Printing')

LEMMA FramesMoved ==
    ASSUME FrameInv, frames # <<>>, NEW pc, Moved(pc),
           \A k \in 1 .. Depth - 1 : OkNext(frames[k]),
           OkNext(frames'[Depth])
    PROVE  FramesOk'
<1>1. \A k \in 1 .. Len(frames') : k = Depth \/ k \in 1 .. Depth - 1
    BY DEF Moved
<1>2. \A k \in 1 .. Depth - 1 : frames'[k] = frames[k]
    BY DEF Moved
<1>3. \A k \in 1 .. Len(frames') : OkNext(frames'[k])
    BY <1>1, <1>2
<1> QED
    BY <1>3 DEF FramesOk, OkNext

(* What the steps of the top handler have in common.                       *)
AtTopOnly ==
    /\ UNCHANGED <<keyboard, screen, pending>>
    /\ held' \subseteq Env
    /\ \A e \in Env : e # Top.env => /\ meant'[e] = meant[e] /\ msg_text'[e] = msg_text[e]
                                     /\ e \in held' => e \in held
    /\ \/ mixed' = mixed
       \/ mixed' = mixed \ {Top.env}
       \/ mixed' = (mixed \ {Top.env}) \cup Copying
    /\ outdata' = outdata \/ Top.proc = "crt"
    /\ \A a \in 0 .. BufSize - 1 : indata'[a] = indata[a]

LEMMA BelowTop ==
    ASSUME EnvInv, frames # <<>>, NEW k \in 1 .. Depth - 1
    PROVE  /\ frames[k] \in Frame /\ Shape(frames[k]) /\ k \in 1 .. Len(frames)
           /\ frames[k].env \in Env => frames[k].env # Top.env
<1>1. FrameInv /\ Depth \in Nat \ {0} /\ Depth \in 1 .. Len(frames) /\ Top = frames[Depth]
    BY TopIs DEF EnvInv
<1>2. k \in 1 .. Len(frames) /\ k # Depth
    BY <1>1 DEF Depth
<1>3. frames[k] \in Frame /\ Shape(frames[k])
    BY <1>1, <1>2, FrameAt DEF FrameInv
<1>4. frames[k].env \in Env => frames[k].env # Top.env
    BY <1>1, <1>2, BufferAssumption DEF EnvInv, FramesApart
<1> QED
    BY <1>2, <1>3, <1>4

LEMMA NotCopying ==
    ASSUME EnvInv, frames # <<>>, NEW k \in 1 .. Len(frames),
           frames[k].env \in Env, frames[k].pc \notin LoopPc
    PROVE  frames[k].env \notin Copying
<1> SUFFICES ASSUME frames[k].env \in Copying PROVE FALSE
    OBVIOUS
<1>1. PICK j \in 1 .. Depth - 1 : frames[j].pc \in LoopPc /\ frames[k].env = frames[j].env
    BY DEF Copying, LoopPc
<1>2. j \in 1 .. Len(frames)
    BY BelowTop
<1> QED
    BY <1>1, <1>2, BufferAssumption DEF EnvInv, FramesApart

LEMMA OthersKept ==
    ASSUME EnvInv, CrtOnce, FramesOk, frames # <<>>, AtTopOnly, NEW k \in 1 .. Depth - 1
    PROVE  OkNext(frames[k])
<1> DEFINE f == frames[k]
<1>1. /\ f \in Frame /\ Shape(f) /\ k \in 1 .. Len(frames)
      /\ f.env \in Env => f.env # Top.env
    BY BelowTop
<1>2. f.env \in Env \cup {NoEnv}
    BY <1>1 DEF Frame
<1>3. FrameOk(f, keyboard.line, meant, msg_text, mixed, held, outdata, Printing)
    BY <1>1 DEF FramesOk
<1>4. f.env \in Env => /\ meant'[f.env] = meant[f.env] /\ msg_text'[f.env] = msg_text[f.env]
                       /\ (f.env \in held' => f.env \in held)
    BY <1>1 DEF AtTopOnly
<1>5. f.env \in Env /\ f.pc \notin LoopPc => (f.env \in mixed' <=> f.env \in mixed)
    <2> SUFFICES ASSUME f.env \in Env, f.pc \notin LoopPc
                 PROVE  f.env \in mixed' <=> f.env \in mixed
        OBVIOUS
    <2>1. f.env \notin Copying
        BY <1>1, NotCopying
    <2> QED
        BY <1>1, <2>1 DEF AtTopOnly
<1>6. f.proc = "crt" => outdata' = outdata
    <2> SUFFICES ASSUME f.proc = "crt", Top.proc = "crt" PROVE FALSE
        BY DEF AtTopOnly
    <2>1. Depth \in 1 .. Len(frames) /\ Top = frames[Depth] /\ k # Depth
        BY TopIs DEF EnvInv
    <2>2. Depth \in CrtSet /\ k \in CrtSet
        BY <1>1, <2>1 DEF CrtSet
    <2> QED
        BY <2>1, <2>2 DEF CrtOnce
<1>7. keyboard.line' = keyboard.line /\ Printing' = Printing /\ held' \subseteq Env
    BY DEF AtTopOnly, Printing
<1> HIDE DEF f
<1>8. FrameOk(f, keyboard.line', meant', msg_text', mixed', held', outdata', Printing')
    BY <1>1, <1>2, <1>3, <1>4, <1>5, <1>6, <1>7, FrameKept
<1> QED
    BY <1>8 DEF OkNext, f

(* How the steps of the stack change the loops and the CRT's handlers.     *)
LEMMA MovedSets ==
    ASSUME FrameInv, frames # <<>>, NEW pc, Moved(pc)
    PROVE  /\ CrtSet' = CrtSet
           /\ pc \in LoopPc => LoopSet' = LoopSet \cup {Depth}
           /\ pc \notin LoopPc => LoopSet' = LoopSet \ {Depth}
           /\ Depth \in LoopSet <=> Top.pc \in LoopPc
           /\ \A k \in LoopSet : k = Depth \/ k \in 1 .. Depth - 1
           /\ Depth \in CrtSet <=> Top.proc = "crt"
<1>1. Top = frames[Depth] /\ Depth \in 1 .. Len(frames)
    BY TopIs
<1>2. Len(frames') = Len(frames) /\ \A k \in 1 .. Len(frames) : k # Depth => frames'[k] = frames[k]
    BY DEF Moved, Depth
<1>3. frames'[Depth].proc = Top.proc /\ frames'[Depth].pc = pc
    BY DEF Moved
<1>4. \A k \in 1 .. Len(frames) : k = Depth \/ k \in 1 .. Depth - 1
    BY DEF Moved, Depth
<1> QED
    BY <1>1, <1>2, <1>3, <1>4 DEF CrtSet, LoopSet

LEMMA PoppedSets ==
    ASSUME FrameInv, frames # <<>>, Popped, Top.pc \notin LoopPc
    PROVE  LoopSet' = LoopSet /\ CrtSet' \subseteq CrtSet
<1>1. Top = frames[Depth] /\ Depth \in 1 .. Len(frames)
    BY TopIs
<1>2. \A k \in 1 .. Len(frames) : k = Depth \/ k \in 1 .. Len(frames')
    BY DEF Popped, Depth
<1>3. \A k \in 1 .. Len(frames') : k \in 1 .. Len(frames) /\ frames'[k] = frames[k]
    BY DEF Popped, Depth
<1> QED
    BY <1>1, <1>2, <1>3 DEF LoopSet, CrtSet

LEMMA PushedSets ==
    ASSUME NEW f, Pushed(f), f.pc \notin LoopPc
    PROVE  /\ LoopSet' = LoopSet
           /\ CrtSet' = IF f.proc = "crt" THEN CrtSet \cup {Depth + 1} ELSE CrtSet
<1>1. \A k \in 1 .. Len(frames') : k = Depth + 1 \/ k \in 1 .. Len(frames)
    BY DEF Pushed, Depth
<1>2. \A k \in 1 .. Len(frames) : k \in 1 .. Len(frames') /\ frames'[k] = frames[k]
    BY DEF Pushed, Depth
<1>3. frames'[Depth + 1] = f /\ Depth + 1 \in 1 .. Len(frames')
    BY DEF Pushed
<1> QED
    BY <1>1, <1>2, <1>3 DEF LoopSet, CrtSet

(* A step outside the loops keeps what they rely on.                       *)
LEMMA LoopKept ==
    ASSUME LoopInv, LoopSet' = LoopSet, buf_index' = buf_index,
           \A k \in LoopSet :
              /\ frames'[k] = frames[k]
              /\ frames[k].env \in mixed' <=> frames[k].env \in mixed
              /\ meant'[frames[k].env] = meant[frames[k].env]
              /\ msg_text'[frames[k].env] = msg_text[frames[k].env]
              /\ outdata' = outdata \/ frames[k].proc = "kbd"
    PROVE  LoopInv'
<1>1. ASSUME NEW k \in LoopSet, \A j \in LoopSet : j <= k
      PROVE  Progress(frames[k], buf_index, meant', msg_text', mixed', outdata')
    <2>1. Progress(frames[k], buf_index, meant, msg_text, mixed, outdata)
        BY <1>1 DEF LoopInv
    <2> QED
        BY <1>1, <2>1, ProgressKept
<1>2. ASSUME NEW k \in LoopSet, NEW j \in LoopSet, j < k
      PROVE  frames'[j].env \in mixed' /\ frames'[k].env \notin mixed'
    BY <1>2 DEF LoopInv
<1> QED
    BY <1>1, <1>2 DEF LoopInv

(* The loops, when the top handler steps.                                  *)
LEMMA TopProgress ==
    ASSUME FrameInv, LoopInv, frames # <<>>, Top.pc \in LoopPc
    PROVE  Progress(Top, buf_index, meant, msg_text, mixed, outdata)
<1>1. Top = frames[Depth] /\ Depth \in 1 .. Len(frames) /\ Depth = Len(frames) /\ Depth \in Nat
    BY TopIs DEF Depth
<1>2. Depth \in LoopSet /\ \A j \in LoopSet : j <= Depth
    BY <1>1 DEF LoopSet
<1> QED
    BY <1>1, <1>2 DEF LoopInv

LEMMA LoopStays ==
    ASSUME FrameInv, LoopInv, frames # <<>>, NEW pc \in LoopPc, Moved(pc), Top.pc \in LoopPc,
           mixed' = mixed,
           Progress(frames'[Depth], buf_index', meant', msg_text', mixed', outdata')
    PROVE  LoopInv'
<1>1. LoopSet' = LoopSet /\ Depth \in LoopSet /\ \A k \in LoopSet : k = Depth \/ k \in 1 .. Depth - 1
    BY MovedSets
<1>2. Depth \in Nat /\ \A k \in 1 .. Depth - 1 : frames'[k] = frames[k] /\ k < Depth /\ k \in Nat
    BY DEF Moved
<1>3. frames'[Depth].env = Top.env /\ Top = frames[Depth]
    BY TopIs DEF Moved
<1>4. \A k \in LoopSet : frames'[k].env = frames[k].env
    BY <1>1, <1>2, <1>3
<1>5. ASSUME NEW k \in LoopSet, \A j \in LoopSet : j <= k
      PROVE  k = Depth
    BY <1>1, <1>2, <1>5
<1>6. ASSUME NEW k \in LoopSet, NEW j \in LoopSet, j < k
      PROVE  frames'[j].env \in mixed' /\ frames'[k].env \notin mixed'
    BY <1>4, <1>6 DEF LoopInv
<1> QED
    BY <1>1, <1>5, <1>6 DEF LoopInv

(* The loop below goes on with the index the one above it leaves.          *)
LEMMA LoopLeaves ==
    ASSUME FrameInv, LoopInv, frames # <<>>, NEW pc, pc \notin LoopPc, Moved(pc),
           Top.pc \in LoopPc, mixed' = mixed,
           Top.env \notin mixed => buf_index' \in 1 .. BufSize - 1
    PROVE  LoopInv'
<1>1. LoopSet' = LoopSet \ {Depth} /\ Depth \in LoopSet
      /\ \A k \in LoopSet : k = Depth \/ k \in 1 .. Depth - 1
    BY MovedSets
<1>2. \A k \in 1 .. Depth - 1 : frames'[k] = frames[k] /\ k < Depth
    BY DEF Moved
<1>3. Top = frames[Depth]
    BY TopIs
<1>4. ASSUME NEW k \in LoopSet', \A j \in LoopSet' : j <= k
      PROVE  Progress(frames'[k], buf_index', meant', msg_text', mixed', outdata')
    <2>1. k \in LoopSet /\ k < Depth /\ frames'[k] = frames[k] /\ k \in 1 .. Depth - 1
        BY <1>1, <1>2, <1>4
    <2>2. frames[k].env \in mixed /\ Top.env \notin mixed
        BY <1>1, <1>3, <2>1 DEF LoopInv
    <2>3. buf_index' \in 1 .. BufSize - 1
        BY <2>2
    <2>4. MixedProgress(frames[k].pc, buf_index')
        BY <2>3, BufFacts DEF MixedProgress
    <2> QED
        BY <2>1, <2>2, <2>4 DEF Progress
<1>5. ASSUME NEW k \in LoopSet', NEW j \in LoopSet', j < k
      PROVE  frames'[j].env \in mixed' /\ frames'[k].env \notin mixed'
    BY <1>1, <1>2, <1>5 DEF LoopInv
<1> QED
    BY <1>4, <1>5 DEF LoopInv

LEMMA LoopAside ==
    ASSUME EnvInv, CrtOnce, LoopInv, frames # <<>>, NEW pc, Moved(pc), pc \notin LoopPc,
           Top.pc \notin LoopPc, buf_index' = buf_index, mixed' = mixed,
           UNCHANGED <<meant, msg_text>>, outdata' = outdata \/ Top.proc = "crt"
    PROVE  LoopInv'
<1>1. FrameInv
    BY DEF EnvInv
<1>2. LoopSet' = LoopSet /\ \A k \in LoopSet : k \in 1 .. Depth - 1
    BY <1>1, MovedSets
<1>3. ASSUME NEW k \in LoopSet
      PROVE  frames'[k] = frames[k] /\ (outdata' = outdata \/ frames[k].proc = "kbd")
    <2>1. k \in 1 .. Depth - 1 /\ frames'[k] = frames[k]
        BY <1>2, <1>3 DEF Moved
    <2>2. frames[k] \in Frame /\ k \in 1 .. Len(frames) /\ Depth \in 1 .. Len(frames)
          /\ Top = frames[Depth] /\ Depth # k
        BY <1>1, <2>1, BelowTop, TopIs
    <2>3. ASSUME Top.proc = "crt", frames[k].proc = "crt"
          PROVE  FALSE
        <3>1. k \in CrtSet /\ Depth \in CrtSet
            BY <2>2, <2>3 DEF CrtSet
        <3> QED
            BY <2>2, <3>1 DEF CrtOnce
    <2> QED
        BY <2>1, <2>2, <2>3 DEF Frame, Iproc
<1> QED
    BY <1>2, <1>3, LoopKept

(* A loop that begins mixes the one it finds, and there is one at most.    *)
LEMMA LoopBegins ==
    ASSUME SideInv, CrtOnce, frames # <<>>, Moved("store"),
           Top.pc = "flag", mixed' = (mixed \ {Top.env}) \cup Copying, buf_index' = 0,
           Top.proc = "kbd" => meant'[Top.env] \in Lines,
           Top.proc = "crt" => meant'[Top.env] \in Texts
    PROVE  LoopInv'
<1>1. EnvInv /\ FrameInv /\ KbdInv
    BY DEF SideInv, EnvInv
<1>2. LoopSet' = LoopSet \cup {Depth} /\ \A k \in LoopSet : k \in 1 .. Depth - 1
    BY <1>1, MovedSets DEF LoopPc
<1>3. Top = frames[Depth] /\ Depth \in 1 .. Len(frames) /\ Depth \in Nat /\ Shape(Top)
      /\ Top \in Frame /\ Top.env \in Env
    BY <1>1, TopIs DEF Shape
<1>4. frames'[Depth].env = Top.env /\ frames'[Depth].pc = "store"
      /\ frames'[Depth].proc = Top.proc
      /\ \A k \in 1 .. Depth - 1 : frames'[k] = frames[k] /\ k < Depth
    BY DEF Moved
<1>5. Top.env \notin mixed'
    <2>1. Top.env \notin Copying
        BY <1>1, <1>3, NotCopying DEF LoopPc
    <2> QED
        BY <2>1
<1>6. ASSUME NEW k \in LoopSet
      PROVE  frames'[k].env \in mixed'
    BY <1>2, <1>4, <1>6 DEF Copying, LoopSet, LoopPc
<1>7. ASSUME NEW k \in LoopSet, NEW j \in LoopSet
      PROVE  j = k
    <2>1. ASSUME NEW i \in LoopSet
          PROVE  /\ frames[i].proc \in Iproc /\ i # Depth
                 /\ frames[i].proc = "crt" => i \in CrtSet
                 /\ frames[i].proc = "kbd" => i \in ActiveSet
        <3>1. i \in 1 .. Depth - 1 /\ frames[i].pc \in LoopPc
            BY <1>2, <2>1 DEF LoopSet
        <3>2. frames[i] \in Frame /\ Shape(frames[i]) /\ i \in 1 .. Len(frames) /\ i # Depth
            BY <1>1, <1>3, <3>1, BelowTop
        <3>3. frames[i].proc \in Iproc
            BY <3>2 DEF Frame
        <3> QED
            BY <3>1, <3>2, <3>3 DEF CrtSet, ActiveSet, Active, Shape, LoopPc
    <2>2. CASE Top.proc = "crt"
        <3>1. Depth \in CrtSet
            BY <1>3, <2>2 DEF CrtSet
        <3>2. \A i \in LoopSet : i \in ActiveSet
            BY <2>1, <3>1 DEF CrtOnce, Iproc
        <3> QED
            BY <1>1, <1>7, <3>2 DEF KbdInv
    <2>3. CASE Top.proc = "kbd"
        <3>1. Depth \in ActiveSet
            BY <1>3, <2>3 DEF ActiveSet, Active
        <3>2. \A i \in LoopSet : i \in CrtSet
            BY <1>1, <2>1, <3>1 DEF KbdInv, Iproc
        <3> QED
            BY <1>7, <3>2 DEF CrtOnce
    <2> QED
        BY <1>3, <2>2, <2>3 DEF Frame, Iproc
<1>8. Progress(frames'[Depth], buf_index', meant', msg_text', mixed', outdata')
    <2>1. /\ \A t \in Lines \cup Texts : Len(t) \in Nat /\ 0 <= Len(t)
          /\ \A t \in Texts : 0 <= Len(t) - 1
        BY LineFacts, TextFacts
    <2>2. Top.proc \in Iproc
        BY <1>3 DEF Frame
    <2> DEFINE s == meant'[Top.env]
    <2>3. CASE Top.proc = "kbd"
        <3>1. KbdProgress("store", 0, s, msg_text'[Top.env])
            BY <2>1, <2>3, UptoZero DEF KbdProgress
        <3> QED
            BY <1>4, <1>5, <2>3, <3>1 DEF Progress
    <2>4. CASE Top.proc = "crt"
        <3>1. CrtProgress("store", 0, s, outdata')
            BY <2>1, <2>4, UptoZero DEF CrtProgress
        <3> QED
            BY <1>4, <1>5, <2>4, <3>1 DEF Progress
    <2> QED
        BY <2>2, <2>3, <2>4 DEF Iproc
<1>9. ASSUME NEW k \in LoopSet', \A j \in LoopSet' : j <= k
      PROVE  k = Depth
    <2>1. Depth <= k /\ (k = Depth \/ k \in 1 .. Depth - 1)
        BY <1>2, <1>9
    <2> QED
        BY <1>3, <2>1
<1>10. ASSUME NEW k \in LoopSet', NEW j \in LoopSet', j < k
       PROVE  frames'[j].env \in mixed' /\ frames'[k].env \notin mixed'
    <2>1. k = Depth /\ j \in LoopSet
        <3>1. k \in LoopSet => j \notin LoopSet
            <4>1. k \in LoopSet => k \in Int
                BY <1>2
            <4> QED
                BY <1>7, <1>10, <4>1
        <3>2. j # Depth
            BY <1>2, <1>3, <1>10
        <3> QED
            BY <1>2, <3>1, <3>2
    <2> QED
        BY <1>4, <1>5, <1>6, <2>1
<1> QED
    BY <1>8, <1>9, <1>10 DEF LoopInv

-----------------------------------------------------------------------------
(* The steps of the top handler.                                           *)
LEMMA ScreenQuiet ==
    ASSUME ScreenInv, UNCHANGED <<screen, outdata, loaded>>,
           "crt" \in pending' => "crt" \in pending
    PROVE  ScreenInv'
BY DEF ScreenInv, Printing, oc_flag

LEMMA BoxKept ==
    ASSUME EnvInv, BoxOk, frames # <<>>, box' = box,
           \A e \in Env : e # Top.env => meant'[e] = meant[e] /\ msg_text'[e] = msg_text[e]
    PROVE  BoxOk'
<1>1. FrameInv /\ box \in [Iproc -> Seq(Env)] /\ "crt" \in Iproc
    BY DEF EnvInv, Iproc
<1>2. Depth \in 1 .. Len(frames) /\ Top = frames[Depth]
    BY <1>1, TopIs
<1>3. ASSUME NEW i \in 1 .. Len(box["crt"])
      PROVE  HasText(box["crt"][i], meant', msg_text')
    <2>1. box["crt"][i] \in Env
        BY <1>1, <1>3, BoxIn
    <2>2. box["crt"][i] # Top.env
        BY <1>1, <1>2, <1>3 DEF EnvInv, BoxApart
    <2>3. HasText(box["crt"][i], meant, msg_text)
        BY <1>3 DEF BoxOk
    <2> QED
        BY <2>1, <2>2, <2>3 DEF HasText
<1> QED
    BY <1>3 DEF BoxOk

LEMMA LineKept ==
    ASSUME RoomToSpare, KbdInv, LineInv, UNCHANGED keyboard,
           \A a \in 0 .. BufSize - 1 : indata'[a] = indata[a]
    PROVE  LineInv'
<1>1. CASE keyboard.pc \in {"read", "raise", "kill", "wait"}
    <2> DEFINE line == keyboard.line
               n == Len(keyboard.line) + 1
    <2>1. line \in Lines /\ n = Len(line) + 1 /\ keyboard.i \in Nat /\ keyboard.i <= Len(line)
        BY <1>1 DEF KbdInv, KbdType
    <2>2. Len(line) \in 0 .. BufSize - 1 /\ BufSize \in Nat
        BY <2>1, LineFacts, BufFacts
    <2> HIDE DEF line, n
    <2>3. /\ \A i \in 0 .. keyboard.i - 1 : i \in 0 .. BufSize - 1
          /\ \A i \in 0 .. n - 1 : i \in 0 .. BufSize - 1
        BY <2>1, <2>2
    <2>4. Upto(indata, line, keyboard.i) => Upto(indata', line, keyboard.i)
        BY <2>3, UptoKept
    <2>5. Upto(indata, line, n) => Upto(indata', line, n)
        BY <2>3, UptoKept
    <2> QED
        BY <2>4, <2>5 DEF LineInv, line, n
<1>2. CASE keyboard.pc \notin {"read", "raise", "kill", "wait"}
    BY <1>2 DEF LineInv
<1> QED
    BY <1>1, <1>2

LEMMA HandlerMoves ==
    ASSUME RoomToSpare, DevInv, frames # <<>>, AtTopOnly, SideInv', NEW pc, Moved(pc),
           box' = box, MemType', NulTails', LoopInv', ScreenInv', OkNext(frames'[Depth])
    PROVE  DevInv'
<1>1. EnvInv /\ FrameInv /\ KbdInv /\ CrtOnce /\ FramesOk /\ BoxOk /\ LineInv
    BY DEF DevInv, SideInv, EnvInv
<1>2. FramesOk'
    <2>1. \A k \in 1 .. Depth - 1 : OkNext(frames[k])
        BY <1>1, OthersKept
    <2> QED
        BY <1>1, <2>1, FramesMoved
<1>3. BoxOk'
    BY <1>1, BoxKept DEF AtTopOnly
<1>4. LineInv'
    BY <1>1, LineKept DEF AtTopOnly
<1>5. CrtOnce'
    <2>1. CrtSet' = CrtSet /\ pending' = pending
        BY <1>1, MovedSets DEF AtTopOnly
    <2> QED
        BY <1>1, <2>1 DEF CrtOnce
<1> QED
    BY <1>2, <1>3, <1>4, <1>5 DEF DevInv

(* What a handler may rely on.                                             *)
LEMMA TopFacts ==
    ASSUME DevInv, frames # <<>>
    PROVE  /\ FrameInv /\ EnvInv /\ KbdInv /\ CrtOnce /\ LoopInv /\ ScreenInv /\ MemType
           /\ NulTails /\ LineInv /\ SideInv
           /\ Top \in Frame /\ Shape(Top) /\ Depth \in 1 .. Len(frames)
           /\ Top.pc \notin {"nothing", "return"} => Top.env \in Env
           /\ FrameOk(Top, keyboard.line, meant, msg_text, mixed, held, outdata, Printing)
           /\ Top.pc \in LoopPc => Progress(Top, buf_index, meant, msg_text, mixed, outdata)
<1>1. /\ FrameInv /\ EnvInv /\ KbdInv /\ CrtOnce /\ LoopInv /\ ScreenInv /\ MemType
      /\ NulTails /\ LineInv /\ SideInv /\ FramesOk
    BY DEF DevInv, SideInv, EnvInv
<1>2. Top \in Frame /\ Shape(Top) /\ Depth \in 1 .. Len(frames) /\ Top = frames[Depth]
    BY <1>1, TopIs
<1>3. FrameOk(Top, keyboard.line, meant, msg_text, mixed, held, outdata, Printing)
    BY <1>1, <1>2 DEF FramesOk
<1>4. Top.pc \in LoopPc => Progress(Top, buf_index, meant, msg_text, mixed, outdata)
    BY <1>1, TopProgress
<1>5. Top.pc \notin {"nothing", "return"} => Top.env \in Env
    BY <1>2 DEF Shape
<1> QED
    BY <1>1, <1>2, <1>3, <1>4, <1>5

(* kbd_iproc copies the line: its child waits.                             *)
LEMMA KbdCopies ==
    ASSUME RoomToSpare, DevInv, frames # <<>>, Top.proc = "kbd", Active(Top)
    PROVE  /\ keyboard.pc = "wait" /\ keyboard.line \in Lines
           /\ Upto(indata, keyboard.line, Len(keyboard.line) + 1)
           /\ Len(keyboard.line) \in 0 .. BufSize - 2
<1>1. EnvInv /\ KbdInv /\ LineInv /\ FrameInv
    BY TopFacts
<1>2. Depth \in ActiveSet
    BY <1>1, TopIs DEF ActiveSet
<1>3. keyboard.pc = "wait" /\ keyboard.line \in Lines
    BY <1>1, <1>2 DEF KbdInv, Owing, KbdType
<1>4. Len(keyboard.line) \in 0 .. BufSize - 1 /\ Len(keyboard.line) <= BufSize - 2
    BY <1>3, LineFacts DEF RoomToSpare
<1> QED
    BY <1>1, <1>3, <1>4 DEF LineInv

LEMMA KbdNothingKeeps ==
    ASSUME RoomToSpare, DevInv, KbdNothing
    PROVE  DevInv'
<1>1. frames # <<>> /\ Top.proc = "kbd" /\ Top.pc = "nothing"
    BY AtTop DEF KbdNothing
<1>2. /\ EnvInv /\ KbdInv /\ CrtOnce /\ LoopInv /\ ScreenInv /\ MemType /\ NulTails /\ SideInv
      /\ Shape(Top)
    BY <1>1, TopFacts
<1>3. SideInv' /\ Moved("return")
    BY <1>2, KbdIprocSteps
<1>4. /\ indata' = [indata EXCEPT ![BufSize] = 0]
      /\ UNCHANGED <<keyboard, screen, outdata, pending, buf_index, box, held, msg_text,
                     meant, mixed, loaded>>
    BY DEF KbdNothing, messages, history
<1>5. indata \in [Address -> Byte] /\ BufSize \in Address /\ BufSize \in Nat \ {0}
    BY <1>2, BufFacts DEF KbdInv
<1>6. \A a \in 0 .. BufSize - 1 : indata'[a] = indata[a]
    BY <1>4, <1>5
<1>7. AtTopOnly
    BY <1>2, <1>4, <1>6 DEF AtTopOnly, EnvInv
<1>8. MemType' /\ NulTails'
    <2>1. BufSize - 1 \in 0 .. BufSize - 1
        BY <1>5
    <2> QED
        BY <1>2, <1>4, <1>6, <2>1 DEF MemType, NulTails
<1>9. ScreenInv'
    BY <1>2, <1>4, ScreenQuiet
<1>10. LoopInv'
    <2>1. "nothing" \notin LoopPc /\ "return" \notin LoopPc
        BY DEF LoopPc
    <2> QED
        BY <1>1, <1>2, <1>3, <1>4, <2>1, LoopAside
<1>11. OkNext(frames'[Depth])
    <2>1. /\ frames'[Depth].proc = "kbd" /\ frames'[Depth].pc = "return"
          /\ frames'[Depth].env = NoEnv /\ NoEnv \notin held'
        BY <1>1, <1>2, <1>3, <1>4, BufferAssumption DEF Moved, Shape, EnvInv
    <2> QED
        BY <2>1 DEF OkNext, FrameOk, LineOk, SentOk, SourceOk, TurnOk
<1> QED
    BY <1>1, <1>3, <1>4, <1>7, <1>8, <1>9, <1>10, <1>11, HandlerMoves

LEMMA KbdClearKeeps ==
    ASSUME RoomToSpare, DevInv, KbdClear
    PROVE  DevInv'
<1>1. frames # <<>> /\ Top.proc = "kbd" /\ Top.pc = "clear"
    BY AtTop DEF KbdClear
<1>2. /\ EnvInv /\ KbdInv /\ CrtOnce /\ LoopInv /\ ScreenInv /\ MemType /\ NulTails /\ SideInv
      /\ FrameOk(Top, keyboard.line, meant, msg_text, mixed, held, outdata, Printing)
    BY <1>1, TopFacts
<1>3. SideInv' /\ Moved("send")
    BY <1>2, KbdIprocSteps
<1>4. /\ indata' = [indata EXCEPT ![BufSize] = 0]
      /\ UNCHANGED <<keyboard, screen, outdata, pending, buf_index, box, held, msg_text,
                     meant, mixed, loaded>>
    BY DEF KbdClear, messages, history
<1>5. indata \in [Address -> Byte] /\ BufSize \in Address /\ BufSize \in Nat \ {0}
    BY <1>2, BufFacts DEF KbdInv
<1>6. \A a \in 0 .. BufSize - 1 : indata'[a] = indata[a]
    BY <1>4, <1>5
<1>7. AtTopOnly
    BY <1>2, <1>4, <1>6 DEF AtTopOnly, EnvInv
<1>8. MemType' /\ NulTails'
    <2>1. BufSize - 1 \in 0 .. BufSize - 1
        BY <1>5
    <2> QED
        BY <1>2, <1>4, <1>6, <2>1 DEF MemType, NulTails
<1>9. ScreenInv'
    BY <1>2, <1>4, ScreenQuiet
<1>10. LoopInv'
    <2>1. "clear" \notin LoopPc /\ "send" \notin LoopPc
        BY DEF LoopPc
    <2> QED
        BY <1>1, <1>2, <1>3, <1>4, <2>1, LoopAside
<1>11. OkNext(frames'[Depth])
    <2>1. /\ frames'[Depth].proc = "kbd" /\ frames'[Depth].pc = "send"
          /\ frames'[Depth].env = Top.env
        BY <1>1, <1>3 DEF Moved
    <2>2. SentOk(frames'[Depth], meant', msg_text', mixed', held')
        BY <1>1, <1>2, <1>4, <2>1 DEF FrameOk, SentOk
    <2> QED
        BY <2>1, <2>2 DEF OkNext, FrameOk, LineOk, SourceOk, TurnOk
<1> QED
    BY <1>1, <1>3, <1>4, <1>7, <1>8, <1>9, <1>10, <1>11, HandlerMoves

LEMMA KbdFlagKeeps ==
    ASSUME RoomToSpare, DevInv, KbdFlag
    PROVE  DevInv'
<1>1. frames # <<>> /\ Top.proc = "kbd" /\ Top.pc = "flag"
    BY AtTop DEF KbdFlag
<1>2. /\ EnvInv /\ KbdInv /\ CrtOnce /\ LoopInv /\ ScreenInv /\ MemType /\ NulTails /\ SideInv
      /\ Top.env \in Env /\ Depth \in 1 .. Len(frames) /\ FrameInv
    BY <1>1, TopFacts
<1>3. SideInv' /\ Moved("store") /\ ok_flag = 1
    BY <1>2, KbdIprocSteps
<1>4. /\ buf_index' = 0 /\ mixed' = (mixed \ {Top.env}) \cup Copying
      /\ meant' = [meant EXCEPT ![Top.env] = keyboard.line]
      /\ UNCHANGED <<keyboard, screen, indata, outdata, pending, box, held, msg_text, loaded>>
    BY <1>3 DEF KbdFlag, Begin, shared
<1>5. keyboard.line \in Lines
    BY <1>1, KbdCopies DEF Active
<1>6. meant \in [Env \cup {NoEnv} -> Lines \cup Texts \cup {<<>>}]
    BY <1>2 DEF MemType
<1>7. /\ meant' \in [Env \cup {NoEnv} -> Lines \cup Texts \cup {<<>>}]
      /\ meant'[Top.env] = keyboard.line
      /\ \A e \in Env : e # Top.env => meant'[e] = meant[e]
    BY <1>2, <1>4, <1>5, <1>6
<1>8. AtTopOnly
    BY <1>2, <1>4, <1>7 DEF AtTopOnly, EnvInv
<1>9. MemType' /\ NulTails'
    <2>1. 0 \in 0 .. BufSize + 1
        BY BufFacts
    <2>2. Copying \subseteq Env
        <3>1. \A k \in 1 .. Depth - 1 : frames[k].pc \in LoopPc => frames[k].env \in Env
            BY <1>1, <1>2, BelowTop DEF Shape, LoopPc
        <3> QED
            BY <3>1 DEF Copying, LoopPc
    <2> QED
        BY <1>2, <1>4, <1>7, <2>1, <2>2 DEF MemType, NulTails
<1>10. ScreenInv'
    BY <1>2, <1>4, ScreenQuiet
<1>11. LoopInv'
    BY <1>1, <1>2, <1>3, <1>4, <1>5, <1>7, LoopBegins
<1>12. OkNext(frames'[Depth])
    <2>1. /\ frames'[Depth].proc = "kbd" /\ frames'[Depth].pc = "store"
          /\ frames'[Depth].env = Top.env
        BY <1>1, <1>3 DEF Moved
    <2> QED
        BY <1>4, <1>7, <2>1 DEF OkNext, FrameOk, LineOk, SentOk, SourceOk, TurnOk
<1> QED
    BY <1>1, <1>3, <1>4, <1>8, <1>9, <1>10, <1>11, <1>12, HandlerMoves

LEMMA KbdStoreKeeps ==
    ASSUME RoomToSpare, DevInv, KbdStore
    PROVE  DevInv'
<1>1. frames # <<>> /\ Top.proc = "kbd" /\ Top.pc = "store"
    BY AtTop DEF KbdStore
<1>2. /\ EnvInv /\ KbdInv /\ CrtOnce /\ LoopInv /\ ScreenInv /\ MemType /\ NulTails /\ SideInv
      /\ Top.env \in Env /\ FrameInv
      /\ FrameOk(Top, keyboard.line, meant, msg_text, mixed, held, outdata, Printing)
      /\ Progress(Top, buf_index, meant, msg_text, mixed, outdata)
    BY <1>1, TopFacts DEF LoopPc
<1>3. SideInv' /\ Moved("inc")
    BY <1>2, KbdIprocSteps
<1>4. /\ msg_text' = [msg_text EXCEPT ![Top.env][buf_index] = indata[buf_index]]
      /\ UNCHANGED <<keyboard, screen, indata, outdata, pending, buf_index, box, held,
                     meant, mixed, loaded>>
    BY DEF KbdStore, shared, history
<1> DEFINE b == buf_index
           s == keyboard.line
           to == msg_text[Top.env]
<1>5. /\ s \in Lines /\ Upto(indata, s, Len(s) + 1) /\ Len(s) \in 0 .. BufSize - 2
    BY <1>1, KbdCopies DEF Active
<1>6. meant[Top.env] = s
    BY <1>1, <1>2 DEF FrameOk, LineOk
<1>7. /\ msg_text \in [Env -> [Address -> Byte]] /\ to \in [Address -> Byte]
      /\ indata \in [Address -> Byte] /\ b \in Nat /\ BufSize \in Nat \ {0}
    BY <1>2, BufFacts DEF MemType, KbdInv
<1>8. /\ Top.env \in mixed => b <= BufSize - 1
      /\ Top.env \notin mixed => b <= Len(s) /\ Upto(to, s, b)
    BY <1>1, <1>2, <1>6 DEF Progress, MixedProgress, KbdProgress
<1> HIDE DEF b, s, to
<1>9. b \in 0 .. BufSize - 1 /\ (Top.env \notin mixed => b \in 0 .. Len(s))
    BY <1>5, <1>7, <1>8
<1>10. b \in Address /\ indata[b] \in Byte
    BY <1>7, <1>9 DEF Address
<1>11. /\ msg_text'[Top.env] = [to EXCEPT ![b] = indata[b]]
       /\ \A e \in Env : e # Top.env => msg_text'[e] = msg_text[e]
       /\ msg_text' \in [Env -> [Address -> Byte]]
    <2>1. msg_text' = [msg_text EXCEPT ![Top.env] = [to EXCEPT ![b] = indata[b]]]
        BY <1>4 DEF b, to
    <2>2. [to EXCEPT ![b] = indata[b]] \in [Address -> Byte]
        BY <1>7, <1>10
    <2> QED
        BY <1>2, <1>7, <2>1, <2>2
<1>12. AtTopOnly
    BY <1>2, <1>4, <1>11 DEF AtTopOnly, EnvInv
<1>13. MemType' /\ NulTails'
    <2>1. b >= BufSize - 1 => indata[b] = NUL
        <3>1. b >= BufSize - 1 => b = BufSize - 1
            BY <1>7, <1>9
        <3> QED
            BY <1>2, <3>1 DEF NulTails
    <2>2. \A a \in Address : a >= BufSize - 1 => msg_text'[Top.env][a] = NUL
        BY <1>2, <1>7, <1>10, <1>11, <2>1 DEF NulTails, to
    <2>3. \A e \in Env : \A a \in Address : a >= BufSize - 1 => msg_text'[e][a] = NUL
        BY <1>2, <1>11, <2>2 DEF NulTails
    <2> QED
        BY <1>2, <1>4, <1>11, <2>3 DEF MemType, NulTails
<1>14. ScreenInv'
    BY <1>2, <1>4, ScreenQuiet
<1>15. /\ frames'[Depth].proc = "kbd" /\ frames'[Depth].pc = "inc"
       /\ frames'[Depth].env = Top.env
    BY <1>1, <1>3 DEF Moved
<1>16. LoopInv'
    <2>1. Top.env \notin mixed => KbdProgress("inc", b, s, msg_text'[Top.env])
        <3> SUFFICES ASSUME Top.env \notin mixed
                     PROVE  KbdProgress("inc", b, s, msg_text'[Top.env])
            OBVIOUS
        <3>1. indata[b] = Char(s, b)
            <4>1. b \in 0 .. Len(s) + 1 - 1
                BY <1>5, <1>9
            <4> QED
                BY <1>5, <4>1 DEF Upto
        <3>2. Upto(msg_text'[Top.env], s, b + 1)
            <4>1. Upto([to EXCEPT ![b] = Char(s, b)], s, b + 1)
                BY <1>7, <1>8, <1>10, UptoAdds
            <4> QED
                BY <1>11, <3>1, <4>1
        <3> QED
            BY <1>8, <3>2 DEF KbdProgress
    <2>2. Top.env \in mixed => MixedProgress("inc", b)
        BY <1>8 DEF MixedProgress
    <2>3. Progress(frames'[Depth], buf_index', meant', msg_text', mixed', outdata')
        BY <1>4, <1>6, <1>15, <2>1, <2>2 DEF Progress, b, s
    <2> QED
        BY <1>1, <1>2, <1>3, <1>4, <2>3, LoopStays DEF LoopPc
<1>17. OkNext(frames'[Depth])
    BY <1>4, <1>6, <1>15 DEF OkNext, FrameOk, LineOk, SentOk, SourceOk, TurnOk, s
<1> QED
    BY <1>1, <1>3, <1>4, <1>12, <1>13, <1>14, <1>16, <1>17, HandlerMoves

LEMMA KbdTestKeeps ==
    ASSUME RoomToSpare, DevInv, KbdTest
    PROVE  DevInv'
<1> DEFINE pc == IF indata[buf_index - 1] # NUL THEN "store" ELSE "clear"
           b == buf_index
           s == keyboard.line
           to == msg_text[Top.env]
<1>1. frames # <<>> /\ Top.proc = "kbd" /\ Top.pc = "test"
    BY AtTop DEF KbdTest
<1>2. /\ EnvInv /\ KbdInv /\ CrtOnce /\ LoopInv /\ ScreenInv /\ MemType /\ NulTails /\ SideInv
      /\ Top.env \in Env /\ FrameInv
      /\ FrameOk(Top, keyboard.line, meant, msg_text, mixed, held, outdata, Printing)
      /\ Progress(Top, buf_index, meant, msg_text, mixed, outdata)
    BY <1>1, TopFacts DEF LoopPc
<1>3. SideInv' /\ Moved(pc)
    BY <1>2, KbdIprocSteps
<1>4. UNCHANGED <<keyboard, screen, indata, outdata, pending, buf_index, box, held, msg_text,
                  meant, mixed, loaded>>
    BY DEF KbdTest, shared, messages, history
<1>5. /\ s \in Lines /\ Upto(indata, s, Len(s) + 1) /\ Len(s) \in 0 .. BufSize - 2
    BY <1>1, KbdCopies DEF Active
<1>6. meant[Top.env] = s
    BY <1>1, <1>2 DEF FrameOk, LineOk
<1>7. b \in Nat /\ BufSize \in Nat \ {0}
    BY <1>2, BufFacts DEF MemType
<1>8. /\ Top.env \in mixed => b \in 1 .. BufSize
      /\ Top.env \notin mixed => b \in 1 .. Len(s) + 1 /\ Upto(to, s, b)
    BY <1>1, <1>2, <1>6 DEF Progress, MixedProgress, KbdProgress
<1>9. pc = IF indata[b - 1] # NUL THEN "store" ELSE "clear"
    OBVIOUS
<1>10. /\ frames'[Depth].proc = "kbd" /\ frames'[Depth].pc = pc
       /\ frames'[Depth].env = Top.env
    BY <1>1, <1>3 DEF Moved
<1>11. to = msg_text[Top.env] /\ s = keyboard.line /\ b = buf_index
    OBVIOUS
<1> HIDE DEF b, s, to, pc
<1>12. Top.env \notin mixed => IF pc = "store" THEN b <= Len(s) ELSE b = Len(s) + 1
    <2> SUFFICES ASSUME Top.env \notin mixed
                 PROVE  IF pc = "store" THEN b <= Len(s) ELSE b = Len(s) + 1
        OBVIOUS
    <2>1. b - 1 \in 0 .. Len(s) /\ b - 1 \in 0 .. Len(s) + 1 - 1
        BY <1>5, <1>7, <1>8
    <2>2. indata[b - 1] = Char(s, b - 1)
        BY <1>5, <2>1 DEF Upto
    <2>3. indata[b - 1] = NUL <=> b - 1 = Len(s)
        BY <1>5, <2>1, <2>2, CharFacts
    <2>4. b - 1 # Len(s) => b <= Len(s)
        BY <1>5, <1>7, <1>8
    <2>5. b - 1 = Len(s) => b = Len(s) + 1
        BY <1>5, <1>7
    <2> QED
        BY <1>9, <2>3, <2>4, <2>5
<1>13. AtTopOnly
    BY <1>2, <1>4 DEF AtTopOnly, EnvInv
<1>14. MemType' /\ NulTails'
    BY <1>2, <1>4 DEF MemType, NulTails
<1>15. ScreenInv'
    BY <1>2, <1>4, ScreenQuiet
<1>16. CASE pc = "store"
    <2>1. Top.env \in mixed => MixedProgress("store", b)
        <3>1. indata[b - 1] # NUL /\ indata[BufSize - 1] = NUL
            BY <1>2, <1>9, <1>16 DEF NulTails
        <3>2. b # BufSize
            BY <3>1
        <3> QED
            BY <1>7, <1>8, <3>2 DEF MixedProgress
    <2>2. Top.env \notin mixed => KbdProgress("store", b, s, to)
        BY <1>8, <1>12, <1>16 DEF KbdProgress
    <2>3. Progress(frames'[Depth], buf_index', meant', msg_text', mixed', outdata')
        BY <1>4, <1>6, <1>10, <1>11, <1>16, <2>1, <2>2 DEF Progress
    <2>4. LoopInv'
        BY <1>1, <1>2, <1>3, <1>4, <1>16, <2>3, LoopStays DEF LoopPc
    <2>5. OkNext(frames'[Depth])
        BY <1>4, <1>6, <1>10, <1>11, <1>16
           DEF OkNext, FrameOk, LineOk, SentOk, SourceOk, TurnOk
    <2> QED
        BY <1>1, <1>3, <1>4, <1>13, <1>14, <1>15, <2>4, <2>5, HandlerMoves
<1>17. CASE pc = "clear"
    <2>1. Top.env \notin mixed => buf_index' \in 1 .. BufSize - 1
        BY <1>4, <1>5, <1>7, <1>8, <1>11
    <2>2. LoopInv'
        BY <1>1, <1>2, <1>3, <1>4, <1>17, <2>1, LoopLeaves DEF LoopPc
    <2>3. Top.env \notin mixed => Upto(to, s, Len(s) + 1)
        BY <1>8, <1>12, <1>17
    <2>4. SentOk(frames'[Depth], meant', msg_text', mixed', held')
        BY <1>4, <1>6, <1>10, <1>11, <2>3 DEF SentOk
    <2>5. OkNext(frames'[Depth])
        BY <1>4, <1>6, <1>10, <1>11, <1>17, <2>4
           DEF OkNext, FrameOk, LineOk, SourceOk, TurnOk
    <2> QED
        BY <1>1, <1>3, <1>4, <1>13, <1>14, <1>15, <2>2, <2>5, HandlerMoves
<1> QED
    BY <1>9, <1>16, <1>17

LEMMA IncrementKeeps ==
    ASSUME RoomToSpare, DevInv, Increment
    PROVE  DevInv'
<1> DEFINE b == buf_index
           s == meant[Top.env]
           to == msg_text[Top.env]
<1>1. frames # <<>> /\ Top.pc = "inc"
    BY DEF Increment
<1>2. /\ EnvInv /\ KbdInv /\ CrtOnce /\ LoopInv /\ ScreenInv /\ MemType /\ NulTails /\ SideInv
      /\ Top.env \in Env /\ FrameInv /\ Top \in Frame /\ Shape(Top)
      /\ FrameOk(Top, keyboard.line, meant, msg_text, mixed, held, outdata, Printing)
      /\ Progress(Top, buf_index, meant, msg_text, mixed, outdata)
    BY <1>1, TopFacts DEF LoopPc
<1>3. SideInv' /\ Moved("test")
    BY <1>2, OtherHandlerSteps
<1>4. /\ buf_index' = b + 1
      /\ UNCHANGED <<keyboard, screen, indata, outdata, pending, box, held, msg_text,
                     meant, mixed, loaded>>
    BY DEF Increment, shared, messages, history
<1>5. b \in Nat /\ BufSize \in Nat \ {0}
    BY <1>2, BufFacts DEF MemType
<1>6. Top.proc = "kbd" \/ Top.proc = "crt"
    BY <1>2 DEF Frame, Iproc
<1>7. \/ Top.proc = "kbd" /\ s \in Lines
      \/ Top.proc = "crt" /\ s \in Texts
    <2>1. CASE Top.proc = "kbd"
        BY <1>1, <1>2, <2>1, KbdCopies DEF Active, FrameOk, LineOk
    <2>2. CASE Top.proc = "crt"
        BY <1>1, <1>2, <2>2 DEF FrameOk, SourceOk, HasText
    <2> QED
        BY <1>6, <2>1, <2>2
<1>8. Len(s) \in 0 .. BufSize - 2
    <2>1. s \in Lines \cup Texts
        BY <1>7
    <2>2. Len(s) \in 0 .. BufSize - 1 /\ Len(s) <= BufSize - 2
        BY <2>1, LineFacts DEF RoomToSpare
    <2> QED
        BY <1>5, <2>2
<1>9. /\ Top.env \in mixed => b <= BufSize - 1
      /\ Top.env \notin mixed /\ Top.proc = "kbd" => b <= Len(s) /\ Upto(to, s, b + 1)
      /\ Top.env \notin mixed /\ Top.proc = "crt" => b <= Len(s) - 1 /\ Upto(outdata, s, b + 1)
    BY <1>1, <1>2 DEF Progress, MixedProgress, KbdProgress, CrtProgress
<1>10. /\ frames'[Depth].proc = Top.proc /\ frames'[Depth].pc = "test"
       /\ frames'[Depth].env = Top.env
    BY <1>3 DEF Moved
<1>11. to = msg_text[Top.env] /\ s = meant[Top.env] /\ b = buf_index
    OBVIOUS
<1> HIDE DEF b, s, to
<1>12. AtTopOnly
    BY <1>2, <1>4 DEF AtTopOnly, EnvInv
<1>13. MemType' /\ NulTails'
    <2>1. b <= BufSize - 1
        BY <1>5, <1>6, <1>8, <1>9
    <2>2. b + 1 \in 0 .. BufSize + 1
        BY <1>5, <2>1
    <2> QED
        BY <1>2, <1>4, <2>2 DEF MemType, NulTails
<1>14. ScreenInv'
    BY <1>2, <1>4, ScreenQuiet
<1>15. LoopInv'
    <2>1. Top.env \in mixed => MixedProgress("test", b + 1)
        BY <1>5, <1>9 DEF MixedProgress
    <2>2. Top.env \notin mixed /\ Top.proc = "kbd" => KbdProgress("test", b + 1, s, to)
        BY <1>5, <1>8, <1>9 DEF KbdProgress
    <2>3. Top.env \notin mixed /\ Top.proc = "crt" => CrtProgress("test", b + 1, s, outdata)
        BY <1>5, <1>8, <1>9 DEF CrtProgress
    <2>4. Progress(frames'[Depth], buf_index', meant', msg_text', mixed', outdata')
        BY <1>4, <1>6, <1>10, <1>11, <2>1, <2>2, <2>3 DEF Progress
    <2> QED
        BY <1>1, <1>2, <1>3, <1>4, <2>4, LoopStays DEF LoopPc
<1>16. OkNext(frames'[Depth])
    <2>1. LineOk(frames'[Depth], keyboard.line', meant')
        BY <1>1, <1>2, <1>4, <1>10 DEF FrameOk, LineOk
    <2>2. SourceOk(frames'[Depth], meant', msg_text')
        BY <1>1, <1>2, <1>4, <1>10 DEF FrameOk, SourceOk
    <2>3. TurnOk(frames'[Depth], meant', mixed', outdata', Printing')
        <3>1. Printing' = Printing
            BY <1>4 DEF Printing
        <3> QED
            BY <1>1, <1>2, <1>4, <1>10, <3>1 DEF FrameOk, TurnOk, LoopPc
    <2> QED
        BY <1>10, <2>1, <2>2, <2>3 DEF OkNext, FrameOk, SentOk
<1> QED
    BY <1>1, <1>3, <1>4, <1>12, <1>13, <1>14, <1>15, <1>16, HandlerMoves

LEMMA ReplyKeeps ==
    ASSUME RoomToSpare, DevInv, Reply
    PROVE  DevInv'
<1>1. frames # <<>> /\ Top.pc = "send"
    BY DEF Reply
<1>2. /\ EnvInv /\ KbdInv /\ CrtOnce /\ LoopInv /\ ScreenInv /\ MemType /\ NulTails /\ SideInv
      /\ Top.env \in Env
      /\ FrameOk(Top, keyboard.line, meant, msg_text, mixed, held, outdata, Printing)
    BY <1>1, TopFacts
<1>3. SideInv' /\ Moved("return")
    BY <1>2, OtherHandlerSteps
<1>4. /\ held' = held \cup {Top.env}
      /\ UNCHANGED <<keyboard, screen, indata, outdata, pending, buf_index, box, msg_text,
                     meant, mixed, loaded>>
    BY DEF Reply, shared, history
<1>5. AtTopOnly
    BY <1>2, <1>4 DEF AtTopOnly, EnvInv
<1>6. MemType' /\ NulTails'
    BY <1>2, <1>4 DEF MemType, NulTails
<1>7. ScreenInv'
    BY <1>2, <1>4, ScreenQuiet
<1>8. LoopInv'
    <2>1. "return" \notin LoopPc /\ "send" \notin LoopPc
        BY DEF LoopPc
    <2> QED
        BY <1>1, <1>2, <1>3, <1>4, <2>1, LoopAside
<1>9. OkNext(frames'[Depth])
    <2>1. /\ frames'[Depth].proc = Top.proc /\ frames'[Depth].pc = "return"
          /\ frames'[Depth].env = Top.env
        BY <1>3 DEF Moved
    <2>2. SentOk(frames'[Depth], meant', msg_text', mixed', held')
        BY <1>1, <1>2, <1>4, <2>1 DEF FrameOk, SentOk
    <2> QED
        BY <2>1, <2>2 DEF OkNext, FrameOk, LineOk, SourceOk, TurnOk, LoopPc
<1> QED
    BY <1>1, <1>3, <1>4, <1>5, <1>6, <1>7, <1>8, <1>9, HandlerMoves

LEMMA ReturnKeeps ==
    ASSUME RoomToSpare, DevInv, Return
    PROVE  DevInv'
<1>1. frames # <<>> /\ Top.pc = "return"
    BY DEF Return
<1>2. /\ EnvInv /\ FrameInv /\ KbdInv /\ CrtOnce /\ LoopInv /\ ScreenInv /\ MemType /\ NulTails
      /\ SideInv /\ Top \in Frame
    BY <1>1, TopFacts
<1>3. SideInv' /\ Popped
    BY <1>2, OtherHandlerSteps
<1>4. /\ meant' = [meant EXCEPT ![Top.env] = <<>>] /\ mixed' = mixed \ {Top.env}
      /\ UNCHANGED <<keyboard, screen, indata, outdata, pending, buf_index, box, held,
                     msg_text, loaded>>
    BY DEF Return, shared, messages
<1>5. /\ meant' \in [Env \cup {NoEnv} -> Lines \cup Texts \cup {<<>>}]
      /\ \A e \in Env : e # Top.env => meant'[e] = meant[e]
    BY <1>2, <1>4 DEF MemType
<1>6. AtTopOnly
    BY <1>2, <1>4, <1>5 DEF AtTopOnly, EnvInv
<1>7. MemType' /\ NulTails'
    BY <1>2, <1>4, <1>5 DEF MemType, NulTails
<1>8. ScreenInv'
    BY <1>2, <1>4, ScreenQuiet
<1>9. LoopSet' = LoopSet /\ CrtSet' \subseteq CrtSet
    BY <1>1, <1>2, <1>3, PoppedSets DEF LoopPc
<1>10. \A k \in 1 .. Len(frames') : k \in 1 .. Depth - 1 /\ frames'[k] = frames[k]
    BY <1>3 DEF Popped
<1>11. LoopInv'
    <2>1. ASSUME NEW k \in LoopSet
          PROVE  /\ frames'[k] = frames[k]
                 /\ frames[k].env \in mixed' <=> frames[k].env \in mixed
                 /\ meant'[frames[k].env] = meant[frames[k].env]
        <3>1. k \in 1 .. Depth - 1 /\ frames'[k] = frames[k]
            BY <1>9, <1>10, <2>1 DEF LoopSet
        <3>2. frames[k].env \in Env
            BY <1>1, <1>2, <2>1, <3>1, BelowTop DEF LoopSet, LoopPc, Shape
        <3>3. frames[k].env # Top.env
            BY <1>1, <1>2, <3>1, <3>2, BelowTop
        <3> QED
            BY <1>4, <1>5, <3>1, <3>2, <3>3
    <2> QED
        BY <1>2, <1>4, <1>9, <2>1, LoopKept
<1>12. FramesOk'
    <2>1. \A k \in 1 .. Depth - 1 : OkNext(frames[k])
        BY <1>1, <1>2, <1>6, OthersKept DEF DevInv
    <2>2. \A k \in 1 .. Len(frames') : OkNext(frames'[k])
        BY <1>10, <2>1
    <2> QED
        BY <2>2 DEF FramesOk, OkNext
<1>13. BoxOk' /\ LineInv'
    BY <1>1, <1>2, <1>4, <1>5, BoxKept, LineKept DEF DevInv
<1>14. CrtOnce'
    BY <1>2, <1>4, <1>9 DEF CrtOnce
<1> QED
    BY <1>3, <1>7, <1>8, <1>11, <1>12, <1>13, <1>14 DEF DevInv

(* crt_iproc copies a text: the child does not print.                      *)
LEMMA CrtCopies ==
    ASSUME RoomToSpare, DevInv, frames # <<>>, Top.proc = "crt"
    PROVE  /\ "crt" \notin pending
           /\ outdata \in [Address -> Byte] /\ BufSize \in Nat \ {0} /\ BufSize \in Address
           /\ Top.pc \notin {"nothing", "return"} =>
                 /\ meant[Top.env] \in Texts /\ Len(meant[Top.env]) \in 1 .. BufSize - 2
                 /\ Upto(msg_text[Top.env], meant[Top.env], Len(meant[Top.env]) + 1)
           /\ Top.pc \in LoopPc \cup {"raise"} => oc_flag = 0 /\ ~ Printing
<1>1. CrtOnce /\ MemType /\ FrameInv
      /\ FrameOk(Top, keyboard.line, meant, msg_text, mixed, held, outdata, Printing)
    BY TopFacts
<1>2. Depth \in CrtSet
    BY <1>1, TopIs DEF CrtSet
<1>3. ASSUME Top.pc \notin {"nothing", "return"}
      PROVE  /\ meant[Top.env] \in Texts /\ Len(meant[Top.env]) \in 1 .. BufSize - 2
             /\ Upto(msg_text[Top.env], meant[Top.env], Len(meant[Top.env]) + 1)
    <2>1. meant[Top.env] \in Texts
          /\ Upto(msg_text[Top.env], meant[Top.env], Len(meant[Top.env]) + 1)
        BY <1>1, <1>3 DEF FrameOk, SourceOk, HasText
    <2>2. Len(meant[Top.env]) \in 1 .. BufSize - 1 /\ Len(meant[Top.env]) <= BufSize - 2
        BY <2>1, LineFacts, TextFacts DEF RoomToSpare
    <2> QED
        BY <2>1, <2>2, BufFacts
<1>4. Top.pc \in LoopPc \cup {"raise"} => oc_flag = 0 /\ ~ Printing
    BY <1>1 DEF FrameOk, TurnOk, oc_flag
<1> QED
    BY <1>1, <1>2, <1>3, <1>4, BufFacts DEF CrtOnce, MemType

(* A store of a handler that has found the buffer empty.                   *)
LEMMA ScreenStored ==
    ASSUME ScreenInv, ~ Printing, oc_flag = 0, outdata'[BufSize] = 0,
           UNCHANGED <<screen, pending, loaded>>
    PROVE  ScreenInv'
BY DEF ScreenInv, Printing, oc_flag

LEMMA CrtNothingKeeps ==
    ASSUME RoomToSpare, DevInv, CrtNothing
    PROVE  DevInv'
<1>1. frames # <<>> /\ Top.proc = "crt" /\ Top.pc = "nothing"
    BY AtTop DEF CrtNothing
<1>2. /\ EnvInv /\ KbdInv /\ CrtOnce /\ LoopInv /\ ScreenInv /\ MemType /\ NulTails /\ SideInv
      /\ FrameOk(Top, keyboard.line, meant, msg_text, mixed, held, outdata, Printing)
    BY <1>1, TopFacts
<1>3. SideInv' /\ Moved("return")
    BY <1>2, CrtIprocSteps
<1>4. /\ outdata' = [outdata EXCEPT ![BufSize] = 0]
      /\ loaded' = IF oc_flag # 0 /\ loaded.fate = "ready"
                   THEN [loaded EXCEPT !.fate = "cleared"] ELSE loaded
      /\ UNCHANGED <<keyboard, screen, indata, pending, buf_index, box, held, msg_text,
                     meant, mixed>>
    BY DEF CrtNothing, messages
<1>5. outdata \in [Address -> Byte] /\ BufSize \in Address /\ BufSize \in Nat \ {0}
      /\ "crt" \notin pending
    BY <1>1, CrtCopies
<1>6. /\ outdata' \in [Address -> Byte] /\ outdata'[BufSize] = 0
      /\ \A a \in Address : a # BufSize => outdata'[a] = outdata[a]
    BY <1>4, <1>5, NulByte
<1>7. AtTopOnly
    BY <1>1, <1>2, <1>4 DEF AtTopOnly, EnvInv
<1>8. /\ loaded' \in [text : Lines \cup Texts \cup {<<>>}, whole : BOOLEAN,
                      fate : {"none", "ready", "cleared"}]
      /\ loaded'.text = loaded.text /\ loaded'.whole = loaded.whole
      /\ loaded'.fate = IF loaded.fate = "ready" THEN "cleared" ELSE loaded.fate
    BY <1>2, <1>4 DEF MemType, ScreenInv
<1>9. MemType' /\ NulTails'
    <2>1. BufSize + 1 \in Address /\ BufSize + 1 # BufSize
        BY <1>5 DEF Address
    <2> QED
        BY <1>2, <1>4, <1>6, <1>8, <2>1 DEF MemType, NulTails
<1>10. ScreenInv'
    <2>1. Printing => oc_flag # 0
        BY <1>1, <1>2 DEF FrameOk, TurnOk, oc_flag
    <2>2. Printing' = Printing /\ screen' = screen /\ "crt" \notin pending'
        BY <1>4, <1>5 DEF Printing
    <2>3. Printing /\ loaded.whole => Upto(outdata', loaded.text, Len(loaded.text) + 1)
        <3> SUFFICES ASSUME Printing, loaded.whole
                     PROVE  Upto(outdata', loaded.text, Len(loaded.text) + 1)
            OBVIOUS
        <3>1. loaded.text \in Texts /\ Upto(outdata, loaded.text, Len(loaded.text) + 1)
            BY <1>2 DEF ScreenInv
        <3>2. Len(loaded.text) \in 1 .. BufSize - 1
            BY <3>1, LineFacts, TextFacts
        <3>3. \A i \in 0 .. Len(loaded.text) + 1 - 1 : i \in Address /\ i # BufSize
            BY <1>5, <3>2 DEF Address
        <3>4. \A i \in 0 .. Len(loaded.text) + 1 - 1 : outdata'[i] = outdata[i]
            BY <1>6, <3>3
        <3> QED
            BY <3>1, <3>4, UptoKept
    <2>4. screen.pc = "clear" => outdata'[screen.i] = NUL
        <3>1. screen.i \in Address
            BY <1>2, <1>5 DEF MemType, Address
        <3> QED
            BY <1>2, <1>6, <3>1 DEF ScreenInv, NUL
    <2>5. oc_flag' = 0 /\ loaded'.fate # "ready" /\ (loaded'.fate # "none" <=> loaded.fate # "none")
        BY <1>6, <1>8 DEF oc_flag
    <2> QED
        BY <1>2, <1>8, <2>1, <2>2, <2>3, <2>4, <2>5 DEF ScreenInv
<1>11. LoopInv'
    <2>1. "nothing" \notin LoopPc /\ "return" \notin LoopPc
        BY DEF LoopPc
    <2> QED
        BY <1>1, <1>2, <1>3, <1>4, <2>1, LoopAside
<1>12. OkNext(frames'[Depth])
    <2>1. frames'[Depth].proc = "crt" /\ frames'[Depth].pc = "return"
        BY <1>1, <1>3 DEF Moved
    <2> QED
        BY <2>1 DEF OkNext, FrameOk, LineOk, SentOk, SourceOk, TurnOk, LoopPc
<1> QED
    BY <1>1, <1>3, <1>4, <1>7, <1>9, <1>10, <1>11, <1>12, HandlerMoves

LEMMA CrtFlagKeeps ==
    ASSUME RoomToSpare, DevInv, CrtFlag
    PROVE  DevInv'
<1>1. frames # <<>> /\ Top.proc = "crt" /\ Top.pc = "flag"
    BY AtTop DEF CrtFlag
<1>2. /\ EnvInv /\ KbdInv /\ CrtOnce /\ LoopInv /\ ScreenInv /\ MemType /\ NulTails /\ SideInv
      /\ Top.env \in Env /\ Depth \in 1 .. Len(frames) /\ FrameInv
      /\ FrameOk(Top, keyboard.line, meant, msg_text, mixed, held, outdata, Printing)
    BY <1>1, TopFacts
<1>3. UNCHANGED <<keyboard, screen, indata, outdata, pending, box, held, msg_text, meant, loaded>>
    BY DEF CrtFlag, shared
<1>4. ScreenInv'
    BY <1>2, <1>3, ScreenQuiet
<1>5. NulTails' /\ Printing' = Printing
    BY <1>2, <1>3 DEF NulTails, Printing
<1>6. CASE oc_flag = 0
    <2>1. buf_index' = 0 /\ mixed' = (mixed \ {Top.env}) \cup Copying
        BY <1>6 DEF CrtFlag, Begin
    <2>2. SideInv' /\ Moved("store")
        BY <1>2, <1>6, CrtIprocSteps
    <2>3. AtTopOnly
        BY <1>2, <1>3, <2>1 DEF AtTopOnly, EnvInv
    <2>4. MemType'
        <3>1. 0 \in 0 .. BufSize + 1
            BY BufFacts
        <3>2. \A k \in 1 .. Depth - 1 : frames[k].pc \in LoopPc => frames[k].env \in Env
            BY <1>1, <1>2, BelowTop DEF Shape, LoopPc
        <3>3. Copying \subseteq Env
            BY <3>2 DEF Copying, LoopPc
        <3> QED
            BY <1>2, <1>3, <2>1, <3>1, <3>3 DEF MemType
    <2>5. LoopInv'
        <3>1. meant'[Top.env] \in Texts
            BY <1>1, <1>3, CrtCopies
        <3> QED
            BY <1>1, <1>2, <2>1, <2>2, <3>1, LoopBegins
    <2>6. OkNext(frames'[Depth])
        <3>1. /\ frames'[Depth].proc = "crt" /\ frames'[Depth].pc = "store"
              /\ frames'[Depth].env = Top.env
            BY <1>1, <2>2 DEF Moved
        <3>2. SourceOk(frames'[Depth], meant', msg_text')
            BY <1>1, <1>2, <1>3, <3>1 DEF FrameOk, SourceOk
        <3>3. TurnOk(frames'[Depth], meant', mixed', outdata', Printing')
            <4>1. outdata'[BufSize] = 0 /\ ~ Printing'
                BY <1>1, <1>2, <1>3, <1>5, <1>6 DEF FrameOk, TurnOk, oc_flag
            <4> QED
                BY <3>1, <4>1 DEF TurnOk
        <3> QED
            BY <3>1, <3>2, <3>3 DEF OkNext, FrameOk, LineOk, SentOk
    <2> QED
        BY <1>1, <1>3, <1>4, <1>5, <2>2, <2>3, <2>4, <2>5, <2>6, HandlerMoves
<1>7. CASE oc_flag # 0
    <2>1. buf_index' = buf_index /\ mixed' = mixed
        BY <1>7 DEF CrtFlag
    <2>2. SideInv' /\ Moved("return")
        BY <1>2, <1>7, CrtIprocSteps
    <2>3. AtTopOnly
        BY <1>2, <1>3, <2>1 DEF AtTopOnly, EnvInv
    <2>4. MemType'
        BY <1>2, <1>3, <2>1 DEF MemType
    <2>5. LoopInv'
        <3>1. "flag" \notin LoopPc /\ "return" \notin LoopPc
            BY DEF LoopPc
        <3> QED
            BY <1>1, <1>2, <1>3, <2>1, <2>2, <3>1, LoopAside
    <2>6. OkNext(frames'[Depth])
        <3>1. frames'[Depth].proc = "crt" /\ frames'[Depth].pc = "return"
            BY <1>1, <2>2 DEF Moved
        <3> QED
            BY <3>1 DEF OkNext, FrameOk, LineOk, SentOk, SourceOk, TurnOk, LoopPc
    <2> QED
        BY <1>1, <1>3, <1>4, <1>5, <2>2, <2>3, <2>4, <2>5, <2>6, HandlerMoves
<1> QED
    BY <1>6, <1>7

LEMMA CrtStoreKeeps ==
    ASSUME RoomToSpare, DevInv, CrtStore
    PROVE  DevInv'
<1> DEFINE b == buf_index
           s == meant[Top.env]
           from == msg_text[Top.env]
<1>1. frames # <<>> /\ Top.proc = "crt" /\ Top.pc = "store"
    BY AtTop DEF CrtStore
<1>2. /\ EnvInv /\ KbdInv /\ CrtOnce /\ LoopInv /\ ScreenInv /\ MemType /\ NulTails /\ SideInv
      /\ Top.env \in Env /\ FrameInv
      /\ FrameOk(Top, keyboard.line, meant, msg_text, mixed, held, outdata, Printing)
      /\ Progress(Top, buf_index, meant, msg_text, mixed, outdata)
    BY <1>1, TopFacts DEF LoopPc
<1>3. SideInv' /\ Moved("inc")
    BY <1>2, CrtIprocSteps
<1>4. /\ outdata' = [outdata EXCEPT ![b] = from[b]]
      /\ UNCHANGED <<keyboard, screen, indata, pending, buf_index, box, held, msg_text,
                     meant, mixed, loaded>>
    BY DEF CrtStore, messages, history
<1>5. /\ s \in Texts /\ Len(s) \in 1 .. BufSize - 2 /\ Upto(from, s, Len(s) + 1)
      /\ outdata \in [Address -> Byte] /\ BufSize \in Nat \ {0}
      /\ oc_flag = 0 /\ ~ Printing
    BY <1>1, CrtCopies DEF LoopPc
<1>6. from \in [Address -> Byte] /\ b \in Nat
    BY <1>2 DEF MemType
<1>7. /\ Top.env \in mixed => b <= BufSize - 1
      /\ Top.env \notin mixed => b <= Len(s) - 1 /\ Upto(outdata, s, b)
    BY <1>1, <1>2 DEF Progress, MixedProgress, CrtProgress
<1>8. /\ frames'[Depth].proc = "crt" /\ frames'[Depth].pc = "inc"
      /\ frames'[Depth].env = Top.env
    BY <1>1, <1>3 DEF Moved
<1>9. from = msg_text[Top.env] /\ s = meant[Top.env] /\ b = buf_index
    OBVIOUS
<1> HIDE DEF b, s, from
<1>10. b \in 0 .. BufSize - 1
    BY <1>5, <1>6, <1>7
<1>11. b \in Address /\ from[b] \in Byte /\ b # BufSize /\ b # BufSize + 1
    BY <1>5, <1>6, <1>10 DEF Address
<1>12. /\ outdata' \in [Address -> Byte] /\ outdata'[BufSize] = 0
       /\ outdata'[BufSize + 1] = NUL
    <2>1. BufSize \in Address /\ BufSize + 1 \in Address
        BY <1>5 DEF Address
    <2>2. outdata[BufSize] = 0 /\ outdata[BufSize + 1] = NUL
        BY <1>2, <1>5 DEF oc_flag, NulTails
    <2> QED
        BY <1>4, <1>5, <1>11, <2>1, <2>2
<1>13. AtTopOnly
    BY <1>1, <1>2, <1>4 DEF AtTopOnly, EnvInv
<1>14. MemType' /\ NulTails'
    BY <1>2, <1>4, <1>12 DEF MemType, NulTails
<1>15. ScreenInv'
    BY <1>2, <1>4, <1>5, <1>12, ScreenStored
<1>16. LoopInv'
    <2>1. Top.env \notin mixed => CrtProgress("inc", b, s, outdata')
        <3> SUFFICES ASSUME Top.env \notin mixed
                     PROVE  CrtProgress("inc", b, s, outdata')
            OBVIOUS
        <3>1. from[b] = Char(s, b)
            <4>1. b \in 0 .. Len(s) + 1 - 1
                BY <1>5, <1>6, <1>7
            <4> QED
                BY <1>5, <4>1 DEF Upto
        <3>2. Upto([outdata EXCEPT ![b] = Char(s, b)], s, b + 1)
            BY <1>5, <1>7, <1>11, UptoAdds
        <3>3. Upto(outdata', s, b + 1)
            BY <1>4, <3>1, <3>2
        <3> QED
            BY <1>7, <3>3 DEF CrtProgress
    <2>2. Top.env \in mixed => MixedProgress("inc", b)
        BY <1>7 DEF MixedProgress
    <2>3. Progress(frames'[Depth], buf_index', meant', msg_text', mixed', outdata')
        BY <1>4, <1>8, <1>9, <2>1, <2>2 DEF Progress
    <2> QED
        BY <1>1, <1>2, <1>3, <1>4, <2>3, LoopStays DEF LoopPc
<1>17. OkNext(frames'[Depth])
    <2>1. SourceOk(frames'[Depth], meant', msg_text')
        BY <1>1, <1>2, <1>4, <1>8 DEF FrameOk, SourceOk
    <2>2. Printing' = Printing
        BY <1>4 DEF Printing
    <2>3. TurnOk(frames'[Depth], meant', mixed', outdata', Printing')
        BY <1>5, <1>8, <1>12, <2>2 DEF TurnOk
    <2> QED
        BY <1>8, <2>1, <2>3 DEF OkNext, FrameOk, LineOk, SentOk
<1> QED
    BY <1>1, <1>3, <1>4, <1>13, <1>14, <1>15, <1>16, <1>17, HandlerMoves

LEMMA CrtTestKeeps ==
    ASSUME RoomToSpare, DevInv, CrtTest
    PROVE  DevInv'
<1> DEFINE pc == IF msg_text[Top.env][buf_index] # NUL THEN "store" ELSE "nul"
           b == buf_index
           s == meant[Top.env]
           from == msg_text[Top.env]
<1>1. frames # <<>> /\ Top.proc = "crt" /\ Top.pc = "test"
    BY AtTop DEF CrtTest
<1>2. /\ EnvInv /\ KbdInv /\ CrtOnce /\ LoopInv /\ ScreenInv /\ MemType /\ NulTails /\ SideInv
      /\ Top.env \in Env /\ FrameInv
      /\ FrameOk(Top, keyboard.line, meant, msg_text, mixed, held, outdata, Printing)
      /\ Progress(Top, buf_index, meant, msg_text, mixed, outdata)
    BY <1>1, TopFacts DEF LoopPc
<1>3. SideInv' /\ Moved(pc)
    BY <1>2, CrtIprocSteps
<1>4. UNCHANGED <<keyboard, screen, indata, outdata, pending, buf_index, box, held, msg_text,
                  meant, mixed, loaded>>
    BY DEF CrtTest, shared, messages, history
<1>5. /\ s \in Texts /\ Len(s) \in 1 .. BufSize - 2 /\ Upto(from, s, Len(s) + 1)
      /\ BufSize \in Nat \ {0} /\ oc_flag = 0 /\ ~ Printing
    BY <1>1, CrtCopies DEF LoopPc
<1>6. b \in Nat
    BY <1>2 DEF MemType
<1>7. /\ Top.env \in mixed => b \in 1 .. BufSize
      /\ Top.env \notin mixed => b \in 1 .. Len(s) /\ Upto(outdata, s, b)
    BY <1>1, <1>2 DEF Progress, MixedProgress, CrtProgress
<1>8. pc = IF from[b] # NUL THEN "store" ELSE "nul"
    OBVIOUS
<1>9. /\ frames'[Depth].proc = "crt" /\ frames'[Depth].pc = pc
      /\ frames'[Depth].env = Top.env
    BY <1>1, <1>3 DEF Moved
<1>10. from = msg_text[Top.env] /\ s = meant[Top.env] /\ b = buf_index
    OBVIOUS
<1> HIDE DEF b, s, from, pc
<1>11. pc \in {"store", "nul"} /\ pc \in LoopPc
    BY <1>8 DEF LoopPc
<1>12. Top.env \notin mixed => CrtProgress(pc, b, s, outdata)
    <2> SUFFICES ASSUME Top.env \notin mixed
                 PROVE  CrtProgress(pc, b, s, outdata)
        OBVIOUS
    <2>1. b \in 0 .. Len(s) /\ b \in 0 .. Len(s) + 1 - 1
        BY <1>5, <1>6, <1>7
    <2>2. from[b] = Char(s, b)
        BY <1>5, <2>1 DEF Upto
    <2>3. from[b] = NUL <=> b = Len(s)
        BY <1>5, <2>1, <2>2, CharFacts
    <2>4. b # Len(s) => b <= Len(s) - 1
        BY <1>5, <1>6, <1>7
    <2> QED
        BY <1>7, <1>8, <2>3, <2>4 DEF CrtProgress
<1>13. Top.env \in mixed => MixedProgress(pc, b)
    <2> SUFFICES ASSUME Top.env \in mixed
                 PROVE  MixedProgress(pc, b)
        OBVIOUS
    <2>1. b \in 1 .. BufSize /\ b \in Address
        BY <1>5, <1>7 DEF Address
    <2>2. b >= BufSize - 1 => from[b] = NUL
        BY <1>2, <1>10, <2>1 DEF NulTails
    <2>3. pc = "store" => b <= BufSize - 1
        BY <1>5, <1>8, <2>1, <2>2
    <2> QED
        BY <1>11, <2>1, <2>3 DEF MixedProgress
<1>14. AtTopOnly
    BY <1>2, <1>4 DEF AtTopOnly, EnvInv
<1>15. MemType' /\ NulTails'
    BY <1>2, <1>4 DEF MemType, NulTails
<1>16. ScreenInv'
    BY <1>2, <1>4, ScreenQuiet
<1>17. LoopInv'
    <2>1. Progress(frames'[Depth], buf_index', meant', msg_text', mixed', outdata')
        BY <1>4, <1>9, <1>10, <1>12, <1>13 DEF Progress
    <2> QED
        BY <1>1, <1>2, <1>3, <1>4, <1>11, <2>1, LoopStays DEF LoopPc
<1>18. OkNext(frames'[Depth])
    <2>1. SourceOk(frames'[Depth], meant', msg_text')
        BY <1>1, <1>2, <1>4, <1>9 DEF FrameOk, SourceOk
    <2>2. Printing' = Printing /\ outdata'[BufSize] = 0
        BY <1>4, <1>5 DEF Printing, oc_flag
    <2>3. TurnOk(frames'[Depth], meant', mixed', outdata', Printing')
        BY <1>5, <1>9, <1>11, <2>2 DEF TurnOk
    <2> QED
        BY <1>9, <2>1, <2>3 DEF OkNext, FrameOk, LineOk, SentOk
<1> QED
    BY <1>1, <1>3, <1>4, <1>14, <1>15, <1>16, <1>17, <1>18, HandlerMoves

LEMMA CrtEndKeeps ==
    ASSUME RoomToSpare, DevInv, CrtEnd
    PROVE  DevInv'
<1> DEFINE b == buf_index
           s == meant[Top.env]
<1>1. frames # <<>> /\ Top.proc = "crt" /\ Top.pc = "nul"
    BY AtTop DEF CrtEnd
<1>2. /\ EnvInv /\ KbdInv /\ CrtOnce /\ LoopInv /\ ScreenInv /\ MemType /\ NulTails /\ SideInv
      /\ Top.env \in Env /\ FrameInv
      /\ FrameOk(Top, keyboard.line, meant, msg_text, mixed, held, outdata, Printing)
      /\ Progress(Top, buf_index, meant, msg_text, mixed, outdata)
    BY <1>1, TopFacts DEF LoopPc
<1>3. SideInv' /\ Moved("raise")
    BY <1>2, CrtIprocSteps
<1>4. /\ outdata' = [outdata EXCEPT ![b] = NUL] /\ buf_index' = b + 1
      /\ UNCHANGED <<keyboard, screen, indata, pending, box, held, msg_text,
                     meant, mixed, loaded>>
    BY DEF CrtEnd, messages, history
<1>5. /\ s \in Texts /\ Len(s) \in 1 .. BufSize - 2
      /\ outdata \in [Address -> Byte] /\ BufSize \in Nat \ {0} /\ BufSize \in Address
      /\ oc_flag = 0 /\ ~ Printing
    BY <1>1, CrtCopies DEF LoopPc
<1>6. b \in Nat
    BY <1>2 DEF MemType
<1>7. /\ Top.env \in mixed => b \in 1 .. BufSize
      /\ Top.env \notin mixed => b = Len(s) /\ Upto(outdata, s, b)
    BY <1>1, <1>2 DEF Progress, MixedProgress, CrtProgress
<1>8. /\ frames'[Depth].proc = "crt" /\ frames'[Depth].pc = "raise"
      /\ frames'[Depth].env = Top.env
    BY <1>1, <1>3 DEF Moved
<1>9. s = meant[Top.env] /\ b = buf_index
    OBVIOUS
<1> HIDE DEF b, s
<1>10. b \in 0 .. BufSize
    BY <1>5, <1>6, <1>7
<1>11. b \in Address /\ b + 1 \in 0 .. BufSize + 1
    BY <1>5, <1>10 DEF Address
<1>12. /\ outdata' \in [Address -> Byte] /\ outdata'[BufSize] = 0
       /\ outdata'[BufSize + 1] = NUL
    <2>1. BufSize + 1 \in Address
        BY <1>5 DEF Address
    <2>2. outdata[BufSize] = 0 /\ outdata[BufSize + 1] = NUL
        BY <1>2, <1>5 DEF oc_flag, NulTails
    <2> QED
        BY <1>4, <1>5, <1>11, <2>1, <2>2, NulByte DEF NUL
<1>13. AtTopOnly
    BY <1>1, <1>2, <1>4 DEF AtTopOnly, EnvInv
<1>14. MemType' /\ NulTails'
    BY <1>2, <1>4, <1>11, <1>12 DEF MemType, NulTails
<1>15. ScreenInv'
    BY <1>2, <1>4, <1>5, <1>12, ScreenStored
<1>16. LoopInv'
    <2>1. Top.env \notin mixed => buf_index' \in 1 .. BufSize - 1
        BY <1>4, <1>5, <1>7
    <2> QED
        BY <1>1, <1>2, <1>3, <1>4, <2>1, LoopLeaves DEF LoopPc
<1>17. OkNext(frames'[Depth])
    <2>1. SourceOk(frames'[Depth], meant', msg_text')
        BY <1>1, <1>2, <1>4, <1>8 DEF FrameOk, SourceOk
    <2>2. Printing' = Printing
        BY <1>4 DEF Printing
    <2>3. Top.env \notin mixed => Upto(outdata', s, Len(s) + 1)
        <3> SUFFICES ASSUME Top.env \notin mixed
                     PROVE  Upto(outdata', s, Len(s) + 1)
            OBVIOUS
        <3>1. Char(s, b) = NUL
            BY <1>5, <1>7 DEF Char
        <3>2. Upto([outdata EXCEPT ![b] = Char(s, b)], s, b + 1)
            BY <1>5, <1>7, <1>11, UptoAdds
        <3> QED
            BY <1>4, <1>7, <3>1, <3>2
    <2>4. TurnOk(frames'[Depth], meant', mixed', outdata', Printing')
        BY <1>4, <1>5, <1>8, <1>9, <1>12, <2>2, <2>3 DEF TurnOk
    <2> QED
        BY <1>8, <2>1, <2>4 DEF OkNext, FrameOk, LineOk, SentOk
<1> QED
    BY <1>1, <1>3, <1>4, <1>13, <1>14, <1>15, <1>16, <1>17, HandlerMoves

LEMMA RaiseOcKeeps ==
    ASSUME RoomToSpare, DevInv, RaiseOc
    PROVE  DevInv' /\ loaded.fate # "ready"
<1> DEFINE s == meant[Top.env]
<1>1. frames # <<>> /\ Top.proc = "crt" /\ Top.pc = "raise"
    BY AtTop DEF RaiseOc
<1>2. /\ EnvInv /\ KbdInv /\ CrtOnce /\ LoopInv /\ ScreenInv /\ MemType /\ NulTails /\ SideInv
      /\ Top.env \in Env /\ FrameInv
      /\ FrameOk(Top, keyboard.line, meant, msg_text, mixed, held, outdata, Printing)
    BY <1>1, TopFacts
<1>3. SideInv' /\ Moved("send")
    BY <1>2, CrtIprocSteps
<1>4. /\ outdata' = [outdata EXCEPT ![BufSize] = 1]
      /\ loaded' = [text |-> s, whole |-> Top.env \notin mixed, fate |-> "ready"]
      /\ UNCHANGED <<keyboard, screen, indata, pending, buf_index, box, held, msg_text,
                     meant, mixed>>
    BY DEF RaiseOc, messages
<1>5. /\ s \in Texts /\ Len(s) \in 1 .. BufSize - 2
      /\ outdata \in [Address -> Byte] /\ BufSize \in Nat \ {0} /\ BufSize \in Address
      /\ oc_flag = 0 /\ ~ Printing /\ "crt" \notin pending
    BY <1>1, CrtCopies
<1>6. Top.env \notin mixed => Upto(outdata, s, Len(s) + 1)
    BY <1>1, <1>2 DEF FrameOk, TurnOk
<1>7. /\ frames'[Depth].proc = "crt" /\ frames'[Depth].pc = "send"
      /\ frames'[Depth].env = Top.env
    BY <1>1, <1>3 DEF Moved
<1>8. s = meant[Top.env]
    OBVIOUS
<1> HIDE DEF s
<1>9. /\ outdata' \in [Address -> Byte] /\ outdata'[BufSize] = 1
      /\ \A a \in Address : a # BufSize => outdata'[a] = outdata[a]
    BY <1>4, <1>5, NulByte
<1>10. AtTopOnly
    BY <1>1, <1>2, <1>4 DEF AtTopOnly, EnvInv
<1>11. MemType' /\ NulTails'
    <2>1. BufSize + 1 \in Address /\ BufSize + 1 # BufSize
        BY <1>5 DEF Address
    <2>2. (Top.env \notin mixed) \in BOOLEAN
        OBVIOUS
    <2>3. loaded' \in [text : Lines \cup Texts \cup {<<>>}, whole : BOOLEAN,
                       fate : {"none", "ready", "cleared"}]
        BY <1>4, <1>5, <2>2
    <2> QED
        BY <1>2, <1>4, <1>9, <2>1, <2>3 DEF MemType, NulTails
<1>12. ScreenInv'
    <2>1. Top.env \notin mixed => Upto(outdata', s, Len(s) + 1)
        <3>1. \A i \in 0 .. Len(s) + 1 - 1 : i \in Address /\ i # BufSize
            BY <1>5 DEF Address
        <3> QED
            BY <1>6, <1>9, <3>1, UptoKept
    <2>2. ~ Printing' /\ screen'.pc # "clear" /\ "crt" \notin pending' /\ oc_flag' = 1
        BY <1>4, <1>5, <1>9 DEF Printing, oc_flag
    <2>3. loaded'.text = s /\ (loaded'.whole <=> Top.env \notin mixed) /\ loaded'.fate = "ready"
        BY <1>4
    <2> QED
        BY <1>5, <2>1, <2>2, <2>3 DEF ScreenInv
<1>13. LoopInv'
    <2>1. "raise" \notin LoopPc /\ "send" \notin LoopPc
        BY DEF LoopPc
    <2> QED
        BY <1>1, <1>2, <1>3, <1>4, <2>1, LoopAside
<1>14. OkNext(frames'[Depth])
    <2>1. SourceOk(frames'[Depth], meant', msg_text')
        BY <1>1, <1>2, <1>4, <1>7 DEF FrameOk, SourceOk
    <2> QED
        BY <1>7, <2>1 DEF OkNext, FrameOk, LineOk, SentOk, TurnOk, LoopPc
<1>15. loaded.fate # "ready"
    BY <1>2, <1>5 DEF ScreenInv
<1> QED
    BY <1>1, <1>3, <1>4, <1>10, <1>11, <1>12, <1>13, <1>14, <1>15, HandlerMoves

-----------------------------------------------------------------------------
(* A handler starts.                                                       *)
LEMMA InterruptKeeps ==
    ASSUME RoomToSpare, DevInv, NEW proc \in Iproc, Interrupt(proc)
    PROVE  DevInv'
<1> DEFINE f == Started(proc)
<1>1. /\ EnvInv /\ KbdInv /\ CrtOnce /\ LoopInv /\ ScreenInv /\ MemType /\ NulTails /\ SideInv
      /\ LineInv /\ FramesOk /\ BoxOk /\ FrameInv
    BY DEF DevInv, SideInv, EnvInv
<1>2. SideInv' /\ Pushed(f) /\ f \in Frame
    BY <1>1, InterruptSteps
<1>3. /\ proc \in pending /\ pending' = pending \ {proc}
      /\ box' = [box EXCEPT ![proc] = IF @ = <<>> THEN @ ELSE Tail(@)]
      /\ UNCHANGED <<keyboard, screen, indata, outdata, buf_index, held, msg_text, meant,
                     mixed, loaded>>
    BY DEF Interrupt, shared, history
<1>4. box \in [Iproc -> Seq(Env)] /\ box[proc] \in Seq(Env) /\ "crt" \in Iproc
    BY <1>1 DEF EnvInv, Iproc
<1>5. /\ f.proc = proc /\ f.pc \in {"nothing", "flag"}
      /\ f.pc = "flag" => box[proc] # <<>> /\ f.env = box[proc][1] /\ 1 \in 1 .. Len(box[proc])
    <2>1. CASE box[proc] = <<>>
        BY <2>1 DEF Started
    <2>2. CASE box[proc] # <<>>
        <3>1. Head(box[proc]) = box[proc][1] /\ 1 \in 1 .. Len(box[proc])
            BY <1>4, <2>2
        <3> QED
            BY <2>2, <3>1 DEF Started
    <2> QED
        BY <2>1, <2>2
<1> HIDE DEF f
<1>6. MemType' /\ NulTails' /\ LineInv' /\ ScreenInv'
    <2>1. ScreenInv'
        BY <1>1, <1>3, ScreenQuiet
    <2> QED
        BY <1>1, <1>3, <2>1 DEF MemType, NulTails, LineInv
<1>7. f.pc \notin LoopPc
    BY <1>5 DEF LoopPc
<1>8. LoopSet' = LoopSet
      /\ CrtSet' = IF f.proc = "crt" THEN CrtSet \cup {Depth + 1} ELSE CrtSet
    BY <1>2, <1>7, PushedSets
<1>9. /\ \A k \in 1 .. Len(frames') : k = Depth + 1 \/ k \in 1 .. Len(frames)
      /\ \A k \in 1 .. Len(frames) : frames'[k] = frames[k]
      /\ frames'[Depth + 1] = f
    BY <1>2 DEF Pushed, Depth
<1>10. LoopInv'
    <2>1. \A k \in LoopSet : frames'[k] = frames[k]
        BY <1>9 DEF LoopSet
    <2> QED
        BY <1>1, <1>3, <1>8, <2>1, LoopKept
<1>11. CrtOnce'
    <2>1. CASE proc = "crt"
        <3>1. CrtSet = {} /\ CrtSet' = {Depth + 1} /\ "crt" \notin pending'
            BY <1>1, <1>3, <1>5, <1>8, <2>1 DEF CrtOnce
        <3> QED
            BY <3>1 DEF CrtOnce
    <2>2. CASE proc # "crt"
        <3>1. CrtSet' = CrtSet /\ ("crt" \in pending' <=> "crt" \in pending)
            BY <1>3, <1>5, <1>8, <2>2
        <3> QED
            BY <1>1, <3>1 DEF CrtOnce
    <2> QED
        BY <2>1, <2>2
<1>12. FramesOk'
    <2>1. OkNext(f)
        <3>1. SourceOk(f, meant', msg_text')
            <4> SUFFICES ASSUME f.proc = "crt", f.pc = "flag"
                         PROVE  HasText(f.env, meant, msg_text)
                BY <1>3, <1>5 DEF SourceOk, HasText
            <4> QED
                BY <1>1, <1>5 DEF BoxOk
        <3>2. TurnOk(f, meant', mixed', outdata', Printing')
            <4> SUFFICES ASSUME f.proc = "crt", Printing PROVE outdata[BufSize] # 0
                BY <1>3, <1>5 DEF TurnOk, LoopPc, Printing
            <4> QED
                BY <1>1, <1>3, <1>5 DEF ScreenInv, oc_flag
        <3> QED
            BY <1>5, <3>1, <3>2 DEF OkNext, FrameOk, LineOk, SentOk
    <2>2. ASSUME NEW k \in 1 .. Len(frames)
          PROVE  OkNext(frames[k])
        BY <1>1, <1>3, <2>2 DEF FramesOk, OkNext, Printing
    <2>3. \A k \in 1 .. Len(frames') : OkNext(frames'[k])
        BY <1>9, <2>1, <2>2
    <2> QED
        BY <2>3 DEF FramesOk, OkNext
<1>13. BoxOk'
    <2>1. \A i \in 1 .. Len(box'["crt"]) :
             \E j \in 1 .. Len(box["crt"]) : box'["crt"][i] = box["crt"][j]
        <3>1. CASE box'["crt"] = box["crt"]
            BY <3>1
        <3>2. CASE box["crt"] # <<>> /\ box'["crt"] = Tail(box["crt"])
            <4>1. box["crt"] \in Seq(Env) /\ Len(Tail(box["crt"])) = Len(box["crt"]) - 1
                BY <1>4, <3>2
            <4>2. \A i \in 1 .. Len(box["crt"]) - 1 :
                     i + 1 \in 1 .. Len(box["crt"]) /\ Tail(box["crt"])[i] = box["crt"][i + 1]
                BY <3>2, <4>1
            <4> QED
                BY <3>2, <4>1, <4>2
        <3> QED
            BY <1>3, <1>4, <3>1, <3>2
    <2> QED
        BY <1>1, <1>3, <2>1 DEF BoxOk, HasText
<1> QED
    BY <1>2, <1>6, <1>10, <1>11, <1>12, <1>13 DEF DevInv

(* The children.                                                           *)
LEMMA KeyboardKeeps ==
    ASSUME RoomToSpare, DevInv, Keyboard \/ \E l \in Lines : Type(l)
    PROVE  DevInv'
<1>1. /\ EnvInv /\ KbdInv /\ CrtOnce /\ LoopInv /\ ScreenInv /\ MemType /\ NulTails /\ SideInv
      /\ LineInv /\ FramesOk /\ BoxOk /\ FrameInv
    BY DEF DevInv, SideInv, EnvInv
<1>2. SideInv' /\ UNCHANGED frames
    BY <1>1, KeyboardSteps
<1>3. /\ UNCHANGED <<screen, outdata, buf_index, box, held, msg_text, meant, mixed, loaded>>
      /\ pending' = pending \/ pending' = pending \cup {"kbd"}
    BY DEF Keyboard, Type, ReadChar, EndLine, RaiseOk, SignalLine, NextLine, shared, messages,
           history
<1>4. keyboard.line' = keyboard.line \/ ActiveSet = {}
    <2>1. CASE keyboard.pc = "wait"
        <3>1. NextLine \/ keyboard' = keyboard
            BY <2>1 DEF Keyboard, Type, ReadChar, EndLine, RaiseOk, SignalLine
        <3>2. NextLine => ActiveSet = {}
            BY <1>1 DEF NextLine, KbdInv, Owing
        <3> QED
            BY <3>1, <3>2
    <2>2. CASE keyboard.pc # "wait"
        BY <1>1, <2>2 DEF KbdInv, Owing
    <2> QED
        BY <2>1, <2>2
<1>5. ScreenInv'
    <2>1. "crt" \in pending' => "crt" \in pending
        BY <1>3
    <2> QED
        BY <1>1, <1>3, <2>1, ScreenQuiet
<1>6. LoopInv' /\ CrtOnce' /\ BoxOk'
    <2>1. LoopSet' = LoopSet /\ CrtSet' = CrtSet
        BY <1>2 DEF LoopSet, CrtSet
    <2>2. LoopInv'
        BY <1>1, <1>2, <1>3, <2>1, LoopKept
    <2> QED
        BY <1>1, <1>3, <2>1, <2>2 DEF CrtOnce, BoxOk
<1>7. FramesOk'
    <2>1. ASSUME NEW k \in 1 .. Len(frames)
          PROVE  OkNext(frames[k])
        <3>1. FrameOk(frames[k], keyboard.line, meant, msg_text, mixed, held, outdata, Printing)
            BY <1>1, <2>1 DEF FramesOk
        <3>2. keyboard.line' = keyboard.line \/ ~ Active(frames[k])
            BY <1>4, <2>1 DEF ActiveSet
        <3>3. LineOk(frames[k], keyboard.line', meant)
            BY <3>1, <3>2 DEF FrameOk, LineOk, Active
        <3>4. Printing' = Printing
            BY <1>3 DEF Printing
        <3> QED
            BY <1>3, <3>1, <3>3, <3>4 DEF OkNext, FrameOk
    <2> QED
        BY <1>2, <2>1 DEF FramesOk, OkNext
<1>8. MemType'
    BY <1>1, <1>3 DEF MemType
<1>9. LineInv' /\ indata'[BufSize - 1] = NUL
    <2> DEFINE line == keyboard.line
               i == keyboard.i
    <2>1. /\ keyboard \in [pc : KbdPc, i : Nat, line : Lines \cup {<<>>}]
          /\ keyboard.pc # "idle" => line \in Lines
          /\ i <= Len(line) /\ i \in Nat
          /\ indata \in [Address -> Byte] /\ indata[BufSize - 1] = NUL
        BY <1>1 DEF KbdInv, KbdType, NulTails
    <2>2. line \in Lines => Len(line) \in 0 .. BufSize - 2
        <3> SUFFICES ASSUME line \in Lines PROVE Len(line) \in 0 .. BufSize - 2
            OBVIOUS
        <3>1. Len(line) \in 0 .. BufSize - 1 /\ Len(line) <= BufSize - 2
            BY LineFacts DEF RoomToSpare
        <3> QED
            BY <3>1, BufFacts
    <2>3. BufSize \in Nat \ {0} /\ BufSize - 1 \in Address /\ BufSize \in Address
        BY BufFacts DEF Address
    <2>4. line = keyboard.line /\ i = keyboard.i
        OBVIOUS
    <2> HIDE DEF line, i
    <2>5. CASE ReadChar
        <3>1. keyboard.pc = "read" /\ i < Len(line) /\ line \in Lines
            BY <2>1, <2>4, <2>5 DEF ReadChar
        <3>2. i \in 0 .. BufSize - 3 /\ Len(line) \in Nat
            BY <2>1, <2>2, <2>3, <3>1
        <3>3. i < BufSize /\ i \in Address /\ i # BufSize - 1
            BY <2>3, <3>2 DEF Address
        <3>4. indata' = [indata EXCEPT ![i] = Char(line, i)]
            <4>1. indata' = [indata EXCEPT ![i] = line[i + 1]]
                BY <2>4, <2>5, <3>3 DEF ReadChar
            <4> QED
                BY <3>1, <4>1 DEF Char
        <3>5. /\ keyboard'.pc = "read" /\ keyboard'.line = line /\ keyboard'.i = i + 1
            BY <2>1, <2>4, <2>5, <3>1 DEF ReadChar
        <3>6. Upto(indata, line, i)
            BY <1>1, <2>4, <3>1 DEF LineInv
        <3>7. Upto(indata', line, i + 1)
            BY <2>1, <3>3, <3>4, <3>6, UptoAdds
        <3>8. indata'[BufSize - 1] = NUL
            BY <2>1, <2>3, <3>3, <3>4
        <3> QED
            BY <3>5, <3>7, <3>8 DEF LineInv
    <2>6. CASE EndLine
        <3>1. keyboard.pc = "read" /\ i = Len(line) /\ line \in Lines
            BY <2>1, <2>4, <2>6 DEF EndLine
        <3>2. i \in 0 .. BufSize - 2
            BY <2>2, <3>1
        <3>3. i \in Address /\ i # BufSize - 1
            BY <2>3, <3>2 DEF Address
        <3>4. indata' = [indata EXCEPT ![i] = Char(line, i)]
            <4>1. indata' = [indata EXCEPT ![i] = NUL]
                BY <2>4, <2>6 DEF EndLine
            <4>2. ~ (i < Len(line))
                BY <3>1, <3>2
            <4>3. Char(line, i) = NUL
                BY <4>2 DEF Char
            <4> QED
                BY <4>1, <4>3
        <3>5. keyboard'.pc = "raise" /\ keyboard'.line = line
            BY <2>1, <2>4, <2>6, <3>1 DEF EndLine
        <3>6. Upto(indata, line, i)
            BY <1>1, <2>4, <3>1 DEF LineInv
        <3>7. Upto(indata', line, Len(line) + 1)
            BY <2>1, <3>1, <3>3, <3>4, <3>6, UptoAdds
        <3>8. indata'[BufSize - 1] = NUL
            BY <2>1, <2>3, <3>3, <3>4
        <3> QED
            BY <3>5, <3>7, <3>8 DEF LineInv
    <2>7. CASE RaiseOk
        <3>1. keyboard.pc = "raise" /\ line \in Lines
            BY <2>1, <2>4, <2>7 DEF RaiseOk
        <3>2. indata' = [indata EXCEPT ![BufSize] = 1]
            BY <2>7 DEF RaiseOk
        <3>3. keyboard'.pc = "kill" /\ keyboard'.line = line
            BY <2>1, <2>4, <2>7 DEF RaiseOk
        <3>4. Upto(indata, line, Len(line) + 1)
            BY <1>1, <2>4, <3>1 DEF LineInv
        <3>5. \A a \in 0 .. BufSize - 1 : indata'[a] = indata[a]
            BY <2>1, <2>3, <3>2, BufFacts
        <3>6. \A a \in 0 .. Len(line) + 1 - 1 : a \in 0 .. BufSize - 1
            BY <2>2, <2>3, <3>1
        <3>7. Upto(indata', line, Len(line) + 1)
            <4>1. \A a \in 0 .. Len(line) + 1 - 1 : indata'[a] = indata[a]
                BY <3>5, <3>6
            <4> QED
                BY <3>4, <4>1, UptoKept
        <3>8. indata'[BufSize - 1] = NUL
            BY <2>1, <2>3, <3>5
        <3> QED
            BY <3>3, <3>7, <3>8 DEF LineInv
    <2>8. CASE SignalLine
        <3>1. keyboard.pc = "kill" /\ keyboard' = [keyboard EXCEPT !.pc = "wait"]
              /\ indata' = indata
            BY <2>8 DEF SignalLine, shared
        <3>2. keyboard'.pc = "wait" /\ keyboard'.line = line
            BY <2>1, <2>4, <3>1
        <3>3. Upto(indata, line, Len(line) + 1)
            BY <1>1, <2>4, <3>1 DEF LineInv
        <3> QED
            BY <2>1, <3>1, <3>2, <3>3 DEF LineInv
    <2>9. CASE NextLine
        <3>1. keyboard'.pc = "idle" /\ indata' = indata
            BY <2>9 DEF NextLine, shared
        <3> QED
            BY <2>1, <3>1 DEF LineInv
    <2>10. ASSUME NEW l \in Lines, Type(l)
           PROVE  LineInv' /\ indata'[BufSize - 1] = NUL
        <3>1. keyboard'.pc = "read" /\ keyboard'.i = 0 /\ indata' = indata
            BY <2>10 DEF Type, shared
        <3>2. Upto(indata', keyboard'.line, 0)
            BY UptoZero
        <3> QED
            BY <2>1, <3>1, <3>2 DEF LineInv
    <2> QED
        BY <2>5, <2>6, <2>7, <2>8, <2>9, <2>10 DEF Keyboard
<1>10. NulTails'
    BY <1>1, <1>3, <1>9 DEF NulTails
<1> QED
    BY <1>2, <1>5, <1>6, <1>7, <1>8, <1>9, <1>10 DEF DevInv

(* A step of the CRT child: all that its handlers see of it is whether it  *)
(* prints, and the flag.                                                   *)
LEMMA ScreenKeeps ==
    ASSUME RoomToSpare, DevInv, Screen
    PROVE  DevInv'
<1>1. /\ EnvInv /\ KbdInv /\ CrtOnce /\ LoopInv /\ ScreenInv /\ MemType /\ NulTails /\ SideInv
      /\ LineInv /\ FramesOk /\ BoxOk /\ FrameInv
    BY DEF DevInv, SideInv, EnvInv
<1>2. SideInv' /\ UNCHANGED frames
    BY <1>1, ScreenSteps
<1>3. UNCHANGED <<keyboard, indata, buf_index, box, held, msg_text, meant, mixed>>
    BY DEF Screen, Poll, SignalReady, PrintChar, Printed, shared, messages, history
<1>4. LoopSet' = LoopSet /\ CrtSet' = CrtSet
    BY <1>2 DEF LoopSet, CrtSet
<1>5. BoxOk' /\ LineInv'
    BY <1>1, <1>3 DEF BoxOk, LineInv
<1>6. /\ outdata \in [Address -> Byte] /\ BufSize \in Address /\ BufSize + 1 \in Address
      /\ BufSize \in Nat \ {0} /\ outdata[BufSize + 1] = NUL
      /\ screen \in [pc : {"poll", "sleep", "print", "clear"}, i : 0 .. BufSize + 1,
                     shown : Seq(Byte \ {NUL})]
      /\ 0 \in 0 .. BufSize + 1
    BY <1>1, BufFacts DEF MemType, NulTails, Address
(* Enough for the handlers, in each of its steps.                          *)
<1>7. ASSUME /\ outdata' = outdata \/ Printing
             /\ \A k \in 1 .. Len(frames) :
                   TurnOk(frames[k], meant, mixed, outdata', Printing')
             /\ MemType' /\ NulTails' /\ ScreenInv' /\ CrtOnce'
      PROVE  DevInv'
    <2>1. \A k \in 1 .. Len(frames) : OkNext(frames[k])
        BY <1>1, <1>3, <1>7 DEF FramesOk, OkNext, FrameOk
    <2>2. FramesOk'
        BY <1>2, <2>1 DEF FramesOk, OkNext
    <2>3. ASSUME NEW k \in LoopSet
          PROVE  outdata' = outdata \/ frames[k].proc = "kbd"
        <3>1. k \in 1 .. Len(frames) /\ frames[k] \in Frame /\ frames[k].pc \in LoopPc
            BY <1>1, <2>3, FrameAt DEF LoopSet, FrameInv
        <3>2. FrameOk(frames[k], keyboard.line, meant, msg_text, mixed, held, outdata, Printing)
            BY <1>1, <3>1 DEF FramesOk
        <3>3. frames[k].proc = "crt" => ~ Printing
            BY <3>1, <3>2 DEF FrameOk, TurnOk
        <3> QED
            BY <1>7, <3>1, <3>3 DEF Frame, Iproc
    <2>4. LoopInv'
        BY <1>1, <1>2, <1>3, <1>4, <2>3, LoopKept
    <2> QED
        BY <1>2, <1>5, <1>7, <2>2, <2>4 DEF DevInv
<1>8. \A k \in 1 .. Len(frames) : TurnOk(frames[k], meant, mixed, outdata, Printing)
    BY <1>1 DEF FramesOk, FrameOk
<1>9. CASE Poll
    <2>1. UNCHANGED <<outdata, pending, loaded>> /\ screen.pc = "poll"
          /\ screen' = IF oc_flag = 0 THEN [screen EXCEPT !.pc = "sleep"]
                       ELSE [pc |-> "print", i |-> 0, shown |-> <<>>]
        BY <1>9 DEF Poll, shared, history
    <2>2. MemType' /\ NulTails' /\ CrtOnce'
        <3>1. screen' \in [pc : {"poll", "sleep", "print", "clear"}, i : 0 .. BufSize + 1,
                           shown : Seq(Byte \ {NUL})]
            BY <1>6, <2>1
        <3> QED
            BY <1>1, <1>3, <1>4, <2>1, <3>1 DEF MemType, NulTails, CrtOnce
    <2>3. CASE oc_flag = 0
        <3>1. screen'.pc = "sleep"
            BY <1>6, <2>1, <2>3
        <3>2. ~ Printing' /\ ~ Printing
            BY <2>1, <3>1 DEF Printing
        <3>3. ScreenInv'
            BY <1>1, <2>1, <3>1, <3>2 DEF ScreenInv, oc_flag
        <3> QED
            BY <1>7, <1>8, <2>1, <2>2, <3>2, <3>3 DEF TurnOk
    <2>4. CASE oc_flag # 0
        <3>1. screen'.pc = "print" /\ screen'.i = 0 /\ screen'.shown = <<>>
            BY <2>1, <2>4
        <3>2. Printing'
            BY <3>1 DEF Printing
        <3>3. ScreenInv'
            <4>1. loaded.fate = "ready" /\ loaded.text \in Texts
                BY <1>1, <2>4 DEF ScreenInv
            <4>2. Len(loaded.text) \in Nat
                BY <4>1, LineFacts
            <4>3. loaded.whole => Upto(outdata, loaded.text, Len(loaded.text) + 1)
                BY <1>1, <2>4 DEF ScreenInv
            <4>4. /\ Len(screen'.shown) = screen'.i /\ screen'.i <= Len(loaded.text)
                  /\ \A j \in 1 .. screen'.i : screen'.shown[j] = loaded.text[j]
                BY <3>1, <4>2
            <4>5. oc_flag' = oc_flag /\ loaded' = loaded
                BY <2>1 DEF oc_flag
            <4> QED
                BY <2>1, <2>4, <3>1, <4>1, <4>3, <4>4, <4>5 DEF ScreenInv
        <3>4. ASSUME NEW k \in 1 .. Len(frames)
              PROVE  TurnOk(frames[k], meant, mixed, outdata, TRUE)
            <4>1. FrameOk(frames[k], keyboard.line, meant, msg_text, mixed, held, outdata, Printing)
                BY <1>1, <3>4 DEF FramesOk
            <4> QED
                BY <2>4, <4>1 DEF FrameOk, TurnOk, oc_flag
        <3>5. \A k \in 1 .. Len(frames) : TurnOk(frames[k], meant, mixed, outdata', Printing')
            BY <2>1, <3>2, <3>4 DEF TurnOk
        <3> QED
            BY <1>7, <2>1, <2>2, <3>3, <3>5
    <2> QED
        BY <2>3, <2>4
<1>10. CASE SignalReady
    <2>1. UNCHANGED <<outdata, loaded>> /\ screen.pc = "sleep"
          /\ screen' = [screen EXCEPT !.pc = "poll"]
        BY <1>10 DEF SignalReady, shared, history
    <2>2. CrtSet = {}
        BY <1>1, <1>10 DEF SignalReady, CrtSet, FrameInv
    <2>3. MemType' /\ NulTails'
        <3>1. screen' \in [pc : {"poll", "sleep", "print", "clear"}, i : 0 .. BufSize + 1,
                           shown : Seq(Byte \ {NUL})]
            BY <1>6, <2>1
        <3> QED
            BY <1>1, <1>3, <2>1, <3>1 DEF MemType, NulTails
    <2>4. screen'.pc = "poll"
        BY <1>6, <2>1
    <2>5. ~ Printing' /\ ~ Printing
        BY <2>1, <2>4 DEF Printing
    <2>6. ScreenInv'
        BY <1>1, <2>1, <2>4, <2>5 DEF ScreenInv, oc_flag
    <2>7. CrtOnce'
        BY <1>4, <2>2 DEF CrtOnce
    <2> QED
        BY <1>7, <1>8, <2>1, <2>3, <2>5, <2>6, <2>7 DEF TurnOk
<1>11. CASE PrintChar
    <2> DEFINE c == outdata[screen.i]
               i == screen.i
    <2>1. UNCHANGED <<outdata, pending, loaded>> /\ screen.pc = "print"
          /\ screen' = IF c # NUL
                       THEN [screen EXCEPT !.shown = Append(@, c), !.i = @ + 1]
                       ELSE [screen EXCEPT !.pc = "clear"]
        BY <1>11 DEF PrintChar, shared, history
    <2>2. i \in 0 .. BufSize + 1 /\ i \in Address /\ c \in Byte /\ i \in Nat
          /\ screen.shown \in Seq(Byte \ {NUL}) /\ c = outdata[i]
        <3>1. screen.i \in 0 .. BufSize + 1
            BY <1>6
        <3>2. screen.i \in Address
            BY <1>6, <3>1 DEF Address
        <3> QED
            BY <1>6, <3>1, <3>2
    <2>3. CASE c # NUL
        <3>1. i # BufSize + 1
            BY <1>6, <2>2, <2>3
        <3>2. i + 1 \in 0 .. BufSize + 1 /\ c \in Byte \ {NUL}
            BY <1>6, <2>2, <2>3, <3>1
        <3>3. Append(screen.shown, c) \in Seq(Byte \ {NUL})
            BY <2>2, <3>2
        <3>4. screen' = [screen EXCEPT !.shown = Append(screen.shown, c), !.i = i + 1]
            BY <2>1, <2>3
        <3>5. /\ screen'.pc = "print" /\ screen'.i = i + 1
              /\ screen'.shown = Append(screen.shown, c)
              /\ screen' \in [pc : {"poll", "sleep", "print", "clear"}, i : 0 .. BufSize + 1,
                              shown : Seq(Byte \ {NUL})]
            BY <1>6, <2>1, <3>2, <3>3, <3>4
        <3>6. Printing' /\ Printing
            BY <2>1, <3>5 DEF Printing
        <3>7. loaded.whole =>
                 /\ Len(screen'.shown) = i + 1 /\ i + 1 <= Len(loaded.text)
                 /\ \A j \in 1 .. i + 1 : screen'.shown[j] = loaded.text[j]
            <4> SUFFICES ASSUME loaded.whole
                         PROVE  /\ Len(screen'.shown) = i + 1 /\ i + 1 <= Len(loaded.text)
                                /\ \A j \in 1 .. i + 1 : screen'.shown[j] = loaded.text[j]
                OBVIOUS
            <4>1. /\ Len(screen.shown) = i /\ i <= Len(loaded.text)
                  /\ \A j \in 1 .. i : screen.shown[j] = loaded.text[j]
                  /\ loaded.text \in Texts /\ Upto(outdata, loaded.text, Len(loaded.text) + 1)
                BY <1>1, <3>6 DEF ScreenInv
            <4>2. Len(loaded.text) \in Nat
                BY <4>1, LineFacts
            <4>3. i \in 0 .. Len(loaded.text) /\ i \in 0 .. Len(loaded.text) + 1 - 1
                BY <2>2, <4>1, <4>2
            <4>4. c = Char(loaded.text, i)
                BY <2>2, <4>1, <4>3 DEF Upto
            <4>5. i < Len(loaded.text)
                BY <2>3, <4>1, <4>3, <4>4, CharFacts
            <4>6. c = loaded.text[i + 1]
                BY <4>4, <4>5 DEF Char
            <4>7. /\ Len(Append(screen.shown, c)) = i + 1
                  /\ Append(screen.shown, c)[i + 1] = c
                  /\ \A j \in 1 .. i : Append(screen.shown, c)[j] = screen.shown[j]
                BY <2>2, <4>1
            <4>8. \A j \in 1 .. i + 1 : j = i + 1 \/ j \in 1 .. i
                BY <2>2
            <4> HIDE DEF c, i
            <4>9. ASSUME NEW j \in 1 .. i + 1
                  PROVE  screen'.shown[j] = loaded.text[j]
                BY <3>5, <4>1, <4>6, <4>7, <4>8, <4>9
            <4>10. i + 1 <= Len(loaded.text)
                BY <2>2, <4>2, <4>5
            <4> QED
                BY <3>5, <4>7, <4>9, <4>10
        <3>8. ScreenInv'
            <4>1. oc_flag' = oc_flag /\ loaded' = loaded /\ screen'.pc # "clear"
                BY <2>1, <3>5 DEF oc_flag
            <4> HIDE DEF c, i
            <4> QED
                BY <1>1, <2>1, <3>5, <3>6, <3>7, <4>1 DEF ScreenInv
        <3>9. MemType' /\ NulTails' /\ CrtOnce'
            BY <1>1, <1>3, <1>4, <2>1, <3>5 DEF MemType, NulTails, CrtOnce
        <3> QED
            BY <1>7, <1>8, <2>1, <3>6, <3>8, <3>9 DEF TurnOk
    <2>4. CASE c = NUL
        <3>1. screen' = [screen EXCEPT !.pc = "clear"]
            BY <2>1, <2>4
        <3>2. /\ screen'.pc = "clear" /\ screen'.i = screen.i /\ screen'.shown = screen.shown
              /\ screen' \in [pc : {"poll", "sleep", "print", "clear"}, i : 0 .. BufSize + 1,
                              shown : Seq(Byte \ {NUL})]
            BY <1>6, <3>1
        <3>3. Printing' /\ Printing
            BY <2>1, <3>2 DEF Printing
        <3>4. ScreenInv'
            <4>1. oc_flag' = oc_flag /\ loaded' = loaded /\ outdata'[screen'.i] = NUL
                BY <2>1, <2>4, <3>2 DEF oc_flag
            <4> QED
                BY <1>1, <2>1, <3>2, <3>3, <4>1 DEF ScreenInv
        <3>5. MemType' /\ NulTails' /\ CrtOnce'
            BY <1>1, <1>3, <1>4, <2>1, <3>2 DEF MemType, NulTails, CrtOnce
        <3> QED
            BY <1>7, <1>8, <2>1, <3>3, <3>4, <3>5 DEF TurnOk
    <2> QED
        BY <2>3, <2>4
<1>12. CASE Printed
    <2>1. /\ screen.pc = "clear" /\ outdata' = [outdata EXCEPT ![BufSize] = 0]
          /\ screen' = [pc |-> "poll", i |-> 0, shown |-> <<>>]
          /\ loaded' = Nothing /\ pending' = pending
        BY <1>12 DEF Printed
    <2>2. Printing /\ ~ Printing' /\ screen'.pc = "poll"
        BY <2>1 DEF Printing
    <2>3. outdata' \in [Address -> Byte] /\ outdata'[BufSize] = 0 /\ outdata'[BufSize + 1] = NUL
        BY <1>6, <2>1, NulByte
    <2>4. MemType' /\ NulTails' /\ CrtOnce'
        <3>1. screen' \in [pc : {"poll", "sleep", "print", "clear"}, i : 0 .. BufSize + 1,
                           shown : Seq(Byte \ {NUL})]
            BY <1>6, <2>1
        <3>2. loaded' \in [text : Lines \cup Texts \cup {<<>>}, whole : BOOLEAN,
                           fate : {"none", "ready", "cleared"}]
            BY <2>1 DEF Nothing
        <3> QED
            BY <1>1, <1>3, <1>4, <2>1, <2>3, <3>1, <3>2 DEF MemType, NulTails, CrtOnce
    <2>5. ScreenInv'
        <3>1. loaded'.fate = "none" /\ oc_flag' = 0
            BY <2>1, <2>3 DEF Nothing, oc_flag
        <3> QED
            BY <2>2, <3>1 DEF ScreenInv
    <2>6. ASSUME NEW k \in 1 .. Len(frames)
          PROVE  TurnOk(frames[k], meant, mixed, outdata', Printing')
        <3>1. TurnOk(frames[k], meant, mixed, outdata, Printing)
            BY <1>8, <2>6
        <3> QED
            BY <2>2, <3>1 DEF TurnOk
    <2> QED
        BY <1>7, <2>2, <2>4, <2>5, <2>6
<1> QED
    BY <1>9, <1>10, <1>11, <1>12 DEF Screen

(* The user processes, while no handler runs.                              *)
LEMMA AskKeeps ==
    ASSUME RoomToSpare, DevInv, NEW e \in Env, Ask(e)
    PROVE  DevInv'
<1>1. /\ EnvInv /\ KbdInv /\ CrtOnce /\ LoopInv /\ ScreenInv /\ MemType /\ NulTails /\ SideInv
      /\ LineInv /\ FramesOk /\ BoxOk
    BY DEF DevInv, SideInv
<1>2. SideInv' /\ frames = <<>> /\ UNCHANGED frames
    BY <1>1, UserSteps
<1>3. /\ UNCHANGED <<keyboard, screen, indata, outdata, pending, buf_index, msg_text, meant,
                     mixed, loaded>>
      /\ box' = [box EXCEPT !["kbd"] = Append(@, e)]
    BY DEF Ask, shared, history
<1>4. box'["crt"] = box["crt"]
    BY <1>1, <1>3 DEF EnvInv, Iproc
<1>5. \A k \in 1 .. Len(frames') : FALSE
    BY <1>2
<1>6. FramesOk' /\ LoopInv' /\ CrtOnce'
    BY <1>5 DEF FramesOk, LoopInv, LoopSet, CrtOnce, CrtSet
<1>7. ScreenInv'
    BY <1>1, <1>3, ScreenQuiet
<1>8. MemType' /\ NulTails' /\ LineInv' /\ BoxOk'
    BY <1>1, <1>3, <1>4 DEF MemType, NulTails, LineInv, BoxOk
<1> QED
    BY <1>2, <1>6, <1>7, <1>8 DEF DevInv

LEMMA DisplayKeeps ==
    ASSUME RoomToSpare, DevInv, NEW e \in Env, NEW t \in Texts, Display(e, t)
    PROVE  DevInv'
<1>1. /\ EnvInv /\ KbdInv /\ CrtOnce /\ LoopInv /\ ScreenInv /\ MemType /\ NulTails /\ SideInv
      /\ LineInv /\ FramesOk /\ BoxOk
    BY DEF DevInv, SideInv
<1>2. SideInv' /\ frames = <<>> /\ UNCHANGED frames
    BY <1>1, UserSteps
<1> DEFINE was == msg_text[e]
           text == [a \in Address |-> IF a < Len(t) THEN t[a + 1]
                                      ELSE IF a = Len(t) THEN NUL ELSE was[a]]
<1>3. /\ UNCHANGED <<keyboard, screen, indata, outdata, pending, buf_index, mixed, loaded>>
      /\ box' = [box EXCEPT !["crt"] = Append(@, e)]
      /\ msg_text' = [msg_text EXCEPT ![e] = text]
      /\ meant' = [meant EXCEPT ![e] = t]
      /\ e \in held
    BY DEF Display, shared
<1>4. \A k \in 1 .. Len(frames') : FALSE
    BY <1>2
<1>5. FramesOk' /\ LoopInv' /\ CrtOnce'
    BY <1>4 DEF FramesOk, LoopInv, LoopSet, CrtOnce, CrtSet
<1>6. ScreenInv'
    BY <1>1, <1>3, ScreenQuiet
<1>7. Len(t) \in 1 .. BufSize - 2 /\ BufSize \in Nat
    <2>1. Len(t) \in 1 .. BufSize - 1 /\ Len(t) <= BufSize - 2
        BY LineFacts, TextFacts DEF RoomToSpare
    <2> QED
        BY <2>1, BufFacts
<1>8. was \in [Address -> Byte] /\ \A a \in Address : a >= BufSize - 1 => was[a] = NUL
    BY <1>1 DEF MemType, NulTails
<1>9. text \in [Address -> Byte]
    <2>1. ASSUME NEW a \in Address
          PROVE  text[a] \in Byte
        <3>1. a \in Nat /\ text[a] = IF a < Len(t) THEN t[a + 1]
                                     ELSE IF a = Len(t) THEN NUL ELSE was[a]
            BY <1>7, <2>1 DEF Address
        <3>2. a < Len(t) => t[a + 1] \in Byte
            <4>1. a < Len(t) => a + 1 \in 1 .. Len(t)
                BY <1>7, <3>1
            <4> QED
                BY <4>1, LineFacts
        <3> QED
            BY <1>8, <2>1, <3>1, <3>2, NulByte
    <2> QED
        BY <2>1
<1>10. /\ \A a \in Address : a >= BufSize - 1 => text[a] = NUL
       /\ Upto(text, t, Len(t) + 1)
    <2>1. ASSUME NEW a \in Address, a >= BufSize - 1
          PROVE  text[a] = NUL
        <3>1. ~ (a < Len(t)) /\ a # Len(t)
            BY <1>7, <2>1 DEF Address
        <3> QED
            BY <1>8, <2>1, <3>1
    <2>2. ASSUME NEW a \in 0 .. Len(t) + 1 - 1
          PROVE  text[a] = Char(t, a)
        <3>1. a \in Address /\ (a < Len(t) \/ (a = Len(t) /\ ~ (a < Len(t))))
            BY <1>7, <2>2 DEF Address
        <3> QED
            BY <3>1 DEF Char
    <2> QED
        BY <2>1, <2>2 DEF Upto
<1> HIDE DEF text
<1>11. /\ msg_text' \in [Env -> [Address -> Byte]] /\ msg_text'[e] = text
       /\ \A d \in Env : d # e => msg_text'[d] = msg_text[d]
    BY <1>1, <1>3, <1>9 DEF MemType
<1>12. /\ meant' \in [Env \cup {NoEnv} -> Lines \cup Texts \cup {<<>>}] /\ meant'[e] = t
       /\ \A d \in Env : d # e => meant'[d] = meant[d]
    BY <1>1, <1>3 DEF MemType
<1>13. MemType' /\ NulTails' /\ LineInv'
    <2>1. \A d \in Env : \A a \in Address : a >= BufSize - 1 => msg_text'[d][a] = NUL
        BY <1>1, <1>10, <1>11 DEF NulTails
    <2> QED
        BY <1>1, <1>3, <1>11, <1>12, <2>1 DEF MemType, NulTails, LineInv
<1>14. BoxOk'
    <2>1. box \in [Iproc -> Seq(Env)] /\ "crt" \in Iproc /\ box["crt"] \in Seq(Env)
        BY <1>1 DEF EnvInv, Iproc
    <2>2. /\ box'["crt"] = Append(box["crt"], e) /\ Len(box'["crt"]) = Len(box["crt"]) + 1
          /\ box'["crt"][Len(box["crt"]) + 1] = e /\ Len(box["crt"]) \in Nat
          /\ \A i \in 1 .. Len(box["crt"]) : box'["crt"][i] = box["crt"][i]
        BY <1>3, <2>1
    <2>3. \A i \in 1 .. Len(box'["crt"]) : i = Len(box["crt"]) + 1 \/ i \in 1 .. Len(box["crt"])
        BY <2>2
    <2>4. HasText(e, meant', msg_text')
        BY <1>10, <1>11, <1>12 DEF HasText
    <2>5. ASSUME NEW i \in 1 .. Len(box["crt"])
          PROVE  HasText(box["crt"][i], meant', msg_text')
        <3>1. box["crt"][i] \in Env
            BY <2>1, <2>5, BoxIn
        <3>2. box["crt"][i] # e
            BY <1>1, <1>3, <2>1, <2>5 DEF EnvInv, BoxApart
        <3>3. HasText(box["crt"][i], meant, msg_text)
            BY <1>1, <2>5 DEF BoxOk
        <3> QED
            BY <1>11, <1>12, <3>1, <3>2, <3>3 DEF HasText
    <2> QED
        BY <2>2, <2>3, <2>4, <2>5 DEF BoxOk
<1> QED
    BY <1>2, <1>5, <1>6, <1>13, <1>14 DEF DevInv

-----------------------------------------------------------------------------
LEMMA InitDevInv == Init => DevInv
<1> SUFFICES ASSUME Init PROVE DevInv
    OBVIOUS
<1>1. SideInv
    BY InitSideInv
<1>2. /\ indata = [a \in Address |-> NUL] /\ outdata = [a \in Address |-> NUL]
      /\ screen = [pc |-> "poll", i |-> 0, shown |-> <<>>]
      /\ keyboard.pc = "idle" /\ pending = {} /\ frames = <<>> /\ buf_index = 0
      /\ msg_text = [e \in Env |-> [a \in Address |-> NUL]]
      /\ meant = [e \in Env \cup {NoEnv} |-> <<>>] /\ mixed = {} /\ loaded = Nothing
      /\ Len(box["crt"]) = 0
    BY DEF Init, Empty, Iproc
<1>3. BufSize \in Address /\ BufSize - 1 \in Address /\ BufSize + 1 \in Address
      /\ 0 \in 0 .. BufSize + 1
    BY BufFacts DEF Address
<1>4. MemType
    <2>1. [a \in Address |-> NUL] \in [Address -> Byte]
        BY NulByte
    <2>2. loaded \in [text : Lines \cup Texts \cup {<<>>}, whole : BOOLEAN,
                      fate : {"none", "ready", "cleared"}]
        BY <1>2 DEF Nothing
    <2>3. screen \in [pc : {"poll", "sleep", "print", "clear"}, i : 0 .. BufSize + 1,
                      shown : Seq(Byte \ {NUL})]
        BY <1>2, <1>3
    <2> QED
        BY <1>2, <1>3, <2>1, <2>2, <2>3 DEF MemType
<1>5. NulTails /\ LineInv
    BY <1>2, <1>3 DEF NulTails, LineInv
<1>6. CrtSet = {} /\ LoopSet = {}
    BY <1>2 DEF CrtSet, LoopSet
<1>7. CrtOnce /\ FramesOk /\ LoopInv /\ BoxOk
    BY <1>2, <1>6 DEF CrtOnce, FramesOk, LoopInv, BoxOk
<1>8. ScreenInv
    <2>1. screen.pc = "poll" /\ loaded.fate = "none" /\ outdata[BufSize] = 0
        BY <1>2, <1>3 DEF Nothing, NUL
    <2> QED
        BY <1>2, <2>1 DEF ScreenInv, Printing, oc_flag
<1> QED
    BY <1>1, <1>4, <1>5, <1>7, <1>8 DEF DevInv

LEMMA NextDevInv ==
    ASSUME RoomToSpare
    PROVE  DevInv /\ [Next]_vars => DevInv'
<1> SUFFICES ASSUME DevInv, [Next]_vars PROVE DevInv'
    OBVIOUS
<1>1. CASE UNCHANGED vars
    <2>1. UNCHANGED <<keyboard, screen, indata, outdata, pending, frames, buf_index, box,
                      held, dropped, msg_text, meant, mixed, loaded>>
        BY <1>1 DEF vars, shared, messages, history
    <2>2. SideInv'
        BY <1>1, NextSideInv DEF DevInv
    <2>3. Printing' = Printing /\ oc_flag' = oc_flag /\ LoopSet' = LoopSet /\ CrtSet' = CrtSet
        BY <2>1 DEF Printing, oc_flag, LoopSet, CrtSet
    <2>4. MemType' /\ NulTails' /\ LineInv' /\ CrtOnce' /\ BoxOk' /\ ScreenInv'
        BY <2>1, <2>3 DEF DevInv, MemType, NulTails, LineInv, CrtOnce, BoxOk, ScreenInv
    <2>5. FramesOk' /\ LoopInv'
        BY <2>1, <2>3 DEF DevInv, FramesOk, LoopInv
    <2> QED
        BY <2>2, <2>4, <2>5 DEF DevInv
<1>2. CASE Handler
    BY <1>2, KbdNothingKeeps, KbdFlagKeeps, KbdStoreKeeps, KbdTestKeeps, KbdClearKeeps,
       CrtNothingKeeps, CrtFlagKeeps, CrtStoreKeeps, CrtTestKeeps, CrtEndKeeps, RaiseOcKeeps,
       IncrementKeeps, ReplyKeeps, ReturnKeeps DEF Handler, kbd_iproc, crt_iproc
<1>3. CASE Next /\ ~ Handler
    BY <1>3, KeyboardKeeps, ScreenKeeps, AskKeeps, DisplayKeeps, InterruptKeeps DEF Next
<1> QED
    BY <1>1, <1>2, <1>3

(* What the devices keep, when neither lines nor texts reach the last byte *)
(* before the flag.                                                        *)
THEOREM DevicesInvariant ==
    ASSUME RoomToSpare
    PROVE  Spec => []DevInv
BY InitDevInv, NextDevInv, PTL DEF Spec

(* Every store of a child or of a handler, mixed up or not, is inside the  *)
(* buffer it is for: no index leaves the memory, and no letter but those   *)
(* of the lines and texts appears anywhere.                                *)
THEOREM TypeCorrect ==
    ASSUME RoomToSpare
    PROVE  Spec => []TypeOK
<1>1. DevInv => TypeOK
    <2> SUFFICES ASSUME DevInv PROVE TypeOK
        OBVIOUS
    <2>1. /\ EnvInv /\ KbdInv /\ MemType /\ FrameInv
        BY DEF DevInv, SideInv, EnvInv
    <2>2. BufSize \in Nat \ {0} /\ \A a \in 0 .. BufSize + 1 : a \in Address
        BY BufFacts DEF Address
    <2>3. keyboard.pc \in KbdPc /\ keyboard.i \in Address /\ keyboard.line \in Lines \cup {<<>>}
        <3>1. keyboard \in [pc : KbdPc, i : Nat, line : Lines \cup {<<>>}]
              /\ keyboard.i <= Len(keyboard.line)
            BY <2>1 DEF KbdInv, KbdType
        <3>2. Len(keyboard.line) \in 0 .. BufSize
            <4>1. keyboard.line \in Lines => Len(keyboard.line) \in 0 .. BufSize - 1
                BY LineFacts
            <4>2. keyboard.line = <<>> => Len(keyboard.line) = 0
                OBVIOUS
            <4> QED
                BY <2>2, <3>1, <4>1, <4>2
        <3>3. keyboard.i \in 0 .. BufSize + 1
            BY <2>2, <3>1, <3>2
        <3> QED
            BY <2>2, <3>1, <3>3
    <2>4. screen.pc \in {"poll", "sleep", "print", "clear"} /\ screen.i \in Address
          /\ screen.shown \in Seq(Byte \ {NUL})
        BY <2>1, <2>2 DEF MemType
    <2>5. ASSUME NEW k \in DOMAIN frames
          PROVE  frames[k].proc \in Iproc /\ frames[k].pc \in Pc
                 /\ frames[k].env \in Env \cup {NoEnv}
        <3>1. frames[k] \in Frame
            BY <2>1, <2>5 DEF FrameInv
        <3> QED
            BY <3>1 DEF Frame
    <2>6. buf_index \in Address /\ loaded.fate \in {"none", "ready", "cleared"}
        BY <2>1, <2>2 DEF MemType
    <2> QED
        BY <2>1, <2>3, <2>4, <2>5, <2>6 DEF TypeOK, EnvInv, KbdInv, MemType, KbdPc, Pc
<1> QED
    BY <1>1, DevicesInvariant, PTL

(* One side at a time uses a shared buffer, although a handler may be      *)
(* interrupted anywhere by the other one and by itself.                    *)
THEOREM OneSideAtATime ==
    ASSUME RoomToSpare
    PROVE  Spec => []BuffersExclusive
<1>1. DevInv => BuffersExclusive
    <2> SUFFICES ASSUME DevInv PROVE BuffersExclusive
        OBVIOUS
    <2>1. EnvInv /\ KbdInv /\ FramesOk /\ FrameInv /\ DOMAIN frames = 1 .. Len(frames)
        BY DEF DevInv, SideInv, EnvInv, FrameInv
    <2>2. ASSUME keyboard.pc \in {"read", "raise"}, NEW k \in InUse("kbd")
          PROVE  FALSE
        <3>1. k \in 1 .. Len(frames) /\ Shape(frames[k]) /\ frames[k].proc = "kbd"
              /\ frames[k].pc \in {"store", "inc", "test", "nul", "raise", "clear"}
            BY <2>1, <2>2 DEF InUse, FrameInv
        <3>2. k \in ActiveSet
            BY <3>1 DEF ActiveSet, Active, Shape
        <3> QED
            BY <2>1, <2>2, <3>2 DEF KbdInv, Owing
    <2>3. ASSUME screen.pc \in {"print", "clear"}, NEW k \in InUse("crt")
          PROVE  FALSE
        <3>1. k \in 1 .. Len(frames) /\ Shape(frames[k]) /\ frames[k].proc = "crt"
              /\ frames[k].pc \in LoopPc \cup {"raise"}
            BY <2>1, <2>3 DEF InUse, FrameInv, Shape, LoopPc
        <3>2. FrameOk(frames[k], keyboard.line, meant, msg_text, mixed, held, outdata, Printing)
            BY <2>1, <3>1 DEF FramesOk
        <3> QED
            BY <2>3, <3>1, <3>2 DEF FrameOk, TurnOk, Printing
    <2> QED
        BY <2>2, <2>3 DEF BuffersExclusive
<1> QED
    BY <1>1, DevicesInvariant, PTL

(* A line comes out of kbd_iproc as it was typed, if no other handler ran  *)
(* its copy loop within the one that copied it.                            *)
THEOREM LinesArrive ==
    ASSUME RoomToSpare
    PROVE  Spec => []LineArrives
<1>1. DevInv => LineArrives
    <2> SUFFICES ASSUME DevInv, NEW k \in DOMAIN frames, frames[k].proc = "kbd",
                        frames[k].pc = "return", frames[k].env \in held,
                        frames[k].env \notin mixed
                 PROVE  Carries(msg_text[frames[k].env], meant[frames[k].env])
        BY DEF LineArrives, Sent
    <2>1. EnvInv /\ FramesOk /\ MemType /\ k \in 1 .. Len(frames)
        BY DEF DevInv, SideInv, EnvInv, FrameInv
    <2>2. FrameOk(frames[k], keyboard.line, meant, msg_text, mixed, held, outdata, Printing)
        BY <2>1 DEF FramesOk
    <2>3. Upto(msg_text[frames[k].env], meant[frames[k].env], Len(meant[frames[k].env]) + 1)
        BY <2>2 DEF FrameOk, SentOk
    <2>4. meant[frames[k].env] \in Lines \cup Texts \cup {<<>>}
        BY <2>1 DEF EnvInv, MemType
    <2> QED
        BY <2>3, <2>4, UptoWhole
<1> QED
    BY <1>1, DevicesInvariant, PTL

(* The CRT child prints the text it was given last, whole and once, if no  *)
(* other handler ran its copy loop while that text was copied.             *)
THEOREM TextsArePrinted ==
    ASSUME RoomToSpare
    PROVE  Spec => []TextPrintedWhole
<1>1. DevInv => TextPrintedWhole
    <2> SUFFICES ASSUME DevInv, screen.pc = "clear", loaded.whole
                 PROVE  screen.shown = loaded.text /\ loaded.fate \in {"ready", "cleared"}
        BY DEF TextPrintedWhole
    <2> DEFINE s == loaded.text
               i == screen.i
    <2>1. ScreenInv /\ MemType /\ Printing
        BY DEF DevInv, Printing
    <2>2. /\ s \in Texts /\ loaded.fate \in {"ready", "cleared"}
          /\ Upto(outdata, s, Len(s) + 1)
          /\ Len(screen.shown) = i /\ i <= Len(s) /\ i \in Nat
          /\ \A j \in 1 .. i : screen.shown[j] = s[j]
          /\ outdata[i] = NUL /\ screen.shown \in Seq(Byte \ {NUL})
        BY <2>1 DEF ScreenInv, MemType
    <2> HIDE DEF s, i
    <2>3. s \in Seq(Nat \ {0, 1}) /\ Len(s) \in Nat
        BY <2>2, LineFacts
    <2>4. i \in 0 .. Len(s) /\ i \in 0 .. Len(s) + 1 - 1
        BY <2>2, <2>3
    <2>5. i = Len(s)
        <3>1. outdata[i] = Char(s, i)
            BY <2>2, <2>4 DEF Upto
        <3> QED
            BY <2>2, <2>4, <3>1, CharFacts
    <2>6. screen.shown = s
        BY <2>2, <2>3, <2>5, SeqEqual
    <2> QED
        BY <2>2, <2>6 DEF s
<1> QED
    BY <1>1, DevicesInvariant, PTL

(* crt_iproc never stores over a text that the CRT child has still to      *)
(* print.                                                                  *)
THEOREM OneTextAtATime ==
    ASSUME RoomToSpare
    PROVE  Spec => TextsTakeTurns
<1>1. DevInv /\ [Next]_vars
         => [loaded' # loaded /\ loaded'.fate = "ready" => loaded.fate # "ready"]_vars
    <2> SUFFICES ASSUME DevInv, Next, loaded' # loaded, loaded'.fate = "ready"
                 PROVE  loaded.fate # "ready"
        BY DEF vars
    <2>1. CASE RaiseOc
        BY <2>1, RaiseOcKeeps
    <2>2. CASE CrtNothing
        BY <2>2 DEF CrtNothing
    <2>3. CASE Printed
        BY <2>3 DEF Printed, Nothing
    <2>4. CASE ~ (RaiseOc \/ CrtNothing \/ Printed)
        BY <2>4 DEF Next, Type, Ask, Display, Keyboard, ReadChar, EndLine, RaiseOk, SignalLine,
                    NextLine, Screen, Poll, SignalReady, PrintChar, Handler, kbd_iproc,
                    KbdNothing, KbdFlag, KbdStore, KbdTest, KbdClear, crt_iproc, CrtFlag,
                    CrtStore, CrtTest, CrtEnd, Increment, Reply, Return, Interrupt, history
    <2> QED
        BY <2>1, <2>2, <2>3, <2>4
<1> QED
    BY <1>1, DevicesInvariant, PTL DEF Spec, TextsTakeTurns
==============================================================================
