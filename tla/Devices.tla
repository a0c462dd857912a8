------------------------------ MODULE Devices ------------------------------
(***************************************************************************)
(* The keyboard and the CRT: two child programs (keyboard.c, crt.c), each  *)
(* sharing a buffer and a flag byte with an i-process (kbd_iproc and       *)
(* crt_iproc of iproc.c).  Shared memory is stored to byte by byte.        *)
(*                                                                         *)
(* The i-processes are signal handlers.  From the end of their call of     *)
(* receive_message on, no signal is blocked, so a handler may interrupt    *)
(* the other one, and itself, anywhere in its copy loop; and both loops    *)
(* count with the one static variable buf_index of iproc.c.                *)
(***************************************************************************)
EXTENDS Integers, Sequences

CONSTANTS
    BufSize,    \* k_bufsize and c_bufsize (1028)
    Lines,      \* what is typed: sequences of letters
    Texts,      \* what is displayed: sequences of letters
    Env,        \* the envelopes of the user processes
    NoEnv,      \* the NULL that receive_message returns
    MaxNest     \* bound: handlers on the signal stack at once

(* Bytes: 0 is NUL and a lowered flag, 1 a raised flag, letters are above. *)
NUL     == 0
Address == 0 .. BufSize + 2
Iproc   == {"kbd", "crt"}

ASSUME BufferAssumption == BufSize \in Nat \ {0} /\ MaxNest \in Nat /\ NoEnv \notin Env

(* Every line and text leaves room for its NUL before the flag.  A line    *)
(* may be empty; the RTX displays no text that is.                         *)
ASSUME LengthAssumption ==
    /\ \A t \in Lines \cup Texts :
          t \in Seq(Nat \ {0, 1}) /\ Len(t) \in 0 .. BufSize - 1
    /\ <<>> \notin Texts

VARIABLES
    keyboard,   \* the keyboard child
    screen,     \* the CRT child
    indata,     \* shared with the keyboard; indata[BufSize] is ok_flag
    outdata,    \* shared with the CRT; outdata[BufSize] is oc_flag
    pending,    \* signals sent and not delivered, by their i-process
    frames,     \* the stack of signal handlers
    buf_index,  \* the static of iproc.c
    box,        \* receive_msg_Q of the two i-processes
    held,       \* envelopes the user processes have
    msg_text,
    meant,      \* the line or text an envelope is to carry (history)
    mixed,      \* envelopes whose copy another copy has interrupted (history)
    dropped,    \* envelopes a handler has returned with (history)
    loaded      \* the last text given to the CRT (history)

shared   == <<indata, outdata>>
messages == <<box, held, msg_text, dropped>>
history  == <<meant, mixed, loaded>>
vars == <<keyboard, screen, shared, pending, frames, buf_index, messages, history>>

Empty   == [a \in Address |-> NUL]
Nothing == [text |-> <<>>, whole |-> TRUE, fate |-> "none"]

Init ==
    /\ keyboard = [pc |-> "idle", i |-> 0, line |-> <<>>]
    /\ screen = [pc |-> "poll", i |-> 0, shown |-> <<>>]
    /\ indata = Empty /\ outdata = Empty
    /\ pending = {}
    /\ frames = <<>>
    /\ buf_index = 0
    /\ box = [p \in Iproc |-> <<>>]
    /\ held = Env
    /\ msg_text = [e \in Env |-> Empty]
    /\ meant = [e \in Env \cup {NoEnv} |-> <<>>]
    /\ mixed = {} /\ dropped = {}
    /\ loaded = Nothing

ok_flag == indata[BufSize]
oc_flag == outdata[BufSize]

-----------------------------------------------------------------------------
(* The keyboard child                                                      *)

Type(l) ==
    /\ keyboard.pc = "idle"
    /\ keyboard' = [pc |-> "read", i |-> 0, line |-> l]
    /\ UNCHANGED <<screen, shared, pending, frames, buf_index, messages, history>>

ReadChar ==
    /\ keyboard.pc = "read"
    /\ keyboard.i < Len(keyboard.line)
    /\ indata' = IF keyboard.i < BufSize
                 THEN [indata EXCEPT ![keyboard.i] = keyboard.line[keyboard.i + 1]]
                 ELSE indata
    /\ keyboard' = [keyboard EXCEPT !.i = @ + 1]
    /\ UNCHANGED <<screen, outdata, pending, frames, buf_index, messages, history>>

(* Mutant of EndLine: the signal is sent before the flag is raised.        *)
EndLine_SignalsFirst ==
    /\ keyboard.pc = "read"
    /\ keyboard.i = Len(keyboard.line)
    /\ indata' = [indata EXCEPT ![keyboard.i] = NUL]
    /\ pending' = pending \cup {"kbd"}
    /\ keyboard' = [keyboard EXCEPT !.pc = "raise"]
    /\ UNCHANGED <<screen, outdata, frames, buf_index, messages, history>>

EndLine ==
    /\ keyboard.pc = "read"
    /\ keyboard.i = Len(keyboard.line)
    /\ indata' = [indata EXCEPT ![keyboard.i] = NUL]
    /\ keyboard' = [keyboard EXCEPT !.pc = "raise"]
    /\ UNCHANGED <<screen, outdata, pending, frames, buf_index, messages, history>>

(* Mutant of RaiseOk: the flag is the character '1'.                       *)
RaiseOk_Char ==
    /\ keyboard.pc = "raise"
    /\ indata' = [indata EXCEPT ![BufSize] = 49]
    /\ keyboard' = [keyboard EXCEPT !.pc = "kill", !.i = 0]
    /\ UNCHANGED <<screen, outdata, pending, frames, buf_index, messages, history>>

RaiseOk ==
    /\ keyboard.pc = "raise"
    /\ indata' = [indata EXCEPT ![BufSize] = 1]
    /\ keyboard' = [keyboard EXCEPT !.pc = "kill", !.i = 0]
    /\ UNCHANGED <<screen, outdata, pending, frames, buf_index, messages, history>>

SignalLine ==
    /\ keyboard.pc = "kill"
    /\ pending' = pending \cup {"kbd"}
    /\ keyboard' = [keyboard EXCEPT !.pc = "wait"]
    /\ UNCHANGED <<screen, shared, frames, buf_index, messages, history>>

(* Mutant of NextLine: the child does not wait for the buffer.             *)
NextLine_AtOnce ==
    /\ keyboard.pc = "wait"
    /\ keyboard' = [pc |-> "idle", i |-> 0, line |-> <<>>]
    /\ UNCHANGED <<screen, shared, pending, frames, buf_index, messages, history>>

NextLine ==
    /\ keyboard.pc = "wait"
    /\ ok_flag # 1
    /\ keyboard' = [pc |-> "idle", i |-> 0, line |-> <<>>]
    /\ UNCHANGED <<screen, shared, pending, frames, buf_index, messages, history>>

Keyboard == ReadChar \/ EndLine \/ RaiseOk \/ SignalLine \/ NextLine

-----------------------------------------------------------------------------
(* The CRT child                                                           *)

(* Mutant of Poll: the child only waits for the flag.                      *)
Poll_Silent ==
    /\ screen.pc = "poll"
    /\ oc_flag # 0
    /\ screen' = [pc |-> "print", i |-> 0, shown |-> <<>>]
    /\ UNCHANGED <<keyboard, shared, pending, frames, buf_index, messages, history>>

(* The test of its inner loop: sleep, or print from the beginning.         *)
Poll ==
    /\ screen.pc = "poll"
    /\ screen' = IF oc_flag = 0 THEN [screen EXCEPT !.pc = "sleep"]
                 ELSE [pc |-> "print", i |-> 0, shown |-> <<>>]
    /\ UNCHANGED <<keyboard, shared, pending, frames, buf_index, messages, history>>

(* Mutant of SignalReady: the child does not sleep before it signals.      *)
SignalReady_Hasty ==
    /\ screen.pc = "sleep"
    /\ pending' = pending \cup {"crt"}
    /\ screen' = [screen EXCEPT !.pc = "poll"]
    /\ UNCHANGED <<keyboard, shared, frames, buf_index, messages, history>>

(* The child signals after it has slept 100 ms: long enough for the        *)
(* handler of its last signal to have returned.  Nothing else is assumed   *)
(* of the time a step takes.                                               *)
SignalReady ==
    /\ screen.pc = "sleep"
    /\ "crt" \notin pending
    /\ \A k \in DOMAIN frames : frames[k].proc # "crt"
    /\ pending' = pending \cup {"crt"}
    /\ screen' = [screen EXCEPT !.pc = "poll"]
    /\ UNCHANGED <<keyboard, shared, frames, buf_index, messages, history>>

PrintChar ==
    /\ screen.pc = "print"
    /\ LET c == outdata[screen.i]
       IN screen' = IF c # NUL
                    THEN [screen EXCEPT !.shown = Append(@, c), !.i = @ + 1]
                    ELSE [screen EXCEPT !.pc = "clear"]
    /\ UNCHANGED <<keyboard, shared, pending, frames, buf_index, messages, history>>

Printed ==
    /\ screen.pc = "clear"
    /\ outdata' = [outdata EXCEPT ![BufSize] = 0]
    /\ screen' = [pc |-> "poll", i |-> 0, shown |-> <<>>]
    /\ loaded' = Nothing
    /\ UNCHANGED <<keyboard, indata, pending, frames, buf_index, messages, meant, mixed>>

Screen == Poll \/ SignalReady \/ PrintChar \/ Printed

-----------------------------------------------------------------------------
(* The user processes, which run while no handler is on the stack          *)

Ask(e) ==
    /\ frames = <<>>
    /\ e \in held
    /\ held' = held \ {e}
    /\ box' = [box EXCEPT !["kbd"] = Append(@, e)]
    /\ UNCHANGED <<keyboard, screen, shared, pending, frames, buf_index, msg_text,
                   dropped, history>>

Display(e, t) ==
    /\ frames = <<>>
    /\ e \in held
    /\ held' = held \ {e}
    /\ box' = [box EXCEPT !["crt"] = Append(@, e)]
    /\ msg_text' = [msg_text EXCEPT ![e] =
                      [ a \in Address |-> IF a < Len(t) THEN t[a + 1]
                                          ELSE IF a = Len(t) THEN NUL ELSE @[a] ]]
    /\ meant' = [meant EXCEPT ![e] = t]
    /\ UNCHANGED <<keyboard, screen, shared, pending, frames, buf_index, dropped,
                   mixed, loaded>>

-----------------------------------------------------------------------------
(* The handlers                                                            *)

Depth == Len(frames)
Top   == frames[Depth]
At(proc, pc) == frames # <<>> /\ Top.proc = proc /\ Top.pc = pc
Goto(pc)     == frames' = [frames EXCEPT ![Depth].pc = pc]

(* A handler up to the end of receive_message, which nothing interrupts.   *)
Interrupt(proc) ==
    /\ proc \in pending
    /\ Depth < MaxNest
    /\ pending' = pending \ {proc}
    /\ frames' = Append(frames,
                   IF box[proc] = <<>> THEN [proc |-> proc, pc |-> "nothing", env |-> NoEnv]
                   ELSE [proc |-> proc, pc |-> "flag", env |-> Head(box[proc])])
    /\ box' = [box EXCEPT ![proc] = IF @ = <<>> THEN @ ELSE Tail(@)]
    /\ UNCHANGED <<keyboard, screen, shared, buf_index, held, msg_text, dropped,
                   history>>

(* The frames below the top one whose loops still use buf_index.           *)
Copying == { frames[k].env : k \in { j \in 1 .. Depth - 1 :
                                       frames[j].pc \in {"store", "inc", "test", "nul"} } }

(* Mutant of Begin: buf_index is not reset.                                *)
Begin_NoReset ==
    /\ Goto("store")
    /\ mixed' = (mixed \ {Top.env}) \cup Copying
    /\ UNCHANGED buf_index

(* The loops begin: buf_index = 0.                                         *)
Begin ==
    /\ Goto("store")
    /\ buf_index' = 0
    /\ mixed' = (mixed \ {Top.env}) \cup Copying

(* The envelope stays in the handler, which returns.                       *)
Leave ==
    /\ Goto("return")
    /\ dropped' = dropped \cup {Top.env}

Increment ==
    /\ frames # <<>> /\ Top.pc = "inc"
    /\ buf_index' = buf_index + 1
    /\ Goto("test")
    /\ UNCHANGED <<keyboard, screen, shared, pending, messages, history>>

(* send_message back to the process the envelope came from, which gets it. *)
Reply ==
    /\ frames # <<>> /\ Top.pc = "send"
    /\ held' = held \cup {Top.env}
    /\ Goto("return")
    /\ UNCHANGED <<keyboard, screen, shared, pending, buf_index, box, msg_text,
                   dropped, history>>

Return ==
    /\ frames # <<>> /\ Top.pc = "return"
    /\ frames' = SubSeq(frames, 1, Depth - 1)
    /\ meant' = [meant EXCEPT ![Top.env] = <<>>]
    /\ mixed' = mixed \ {Top.env}
    /\ UNCHANGED <<keyboard, screen, shared, pending, buf_index, messages, loaded>>

-----------------------------------------------------------------------------
KbdNothing ==
    /\ At("kbd", "nothing")
    /\ indata' = [indata EXCEPT ![BufSize] = 0]
    /\ Goto("return")
    /\ UNCHANGED <<keyboard, screen, outdata, pending, buf_index, messages, history>>

KbdFlag ==
    /\ At("kbd", "flag")
    /\ IF ok_flag = 1
       THEN /\ Begin
            /\ meant' = [meant EXCEPT ![Top.env] = keyboard.line]
            /\ UNCHANGED dropped
       ELSE /\ Leave
            /\ UNCHANGED <<buf_index, mixed, meant>>
    /\ UNCHANGED <<keyboard, screen, shared, pending, box, held, msg_text, loaded>>

KbdStore ==
    /\ At("kbd", "store")
    /\ msg_text' = [msg_text EXCEPT ![Top.env][buf_index] = indata[buf_index]]
    /\ Goto("inc")
    /\ UNCHANGED <<keyboard, screen, shared, pending, buf_index, box, held, dropped,
                   history>>

KbdTest ==
    /\ At("kbd", "test")
    /\ Goto(IF indata[buf_index - 1] # NUL THEN "store" ELSE "clear")
    /\ UNCHANGED <<keyboard, screen, shared, pending, buf_index, messages, history>>

(* Mutant of KbdClear: ok_flag is not reset.                               *)
KbdClear_Forgotten ==
    /\ At("kbd", "clear")
    /\ Goto("send")
    /\ UNCHANGED <<keyboard, screen, shared, pending, buf_index, messages, history>>

KbdClear ==
    /\ At("kbd", "clear")
    /\ indata' = [indata EXCEPT ![BufSize] = 0]
    /\ Goto("send")
    /\ UNCHANGED <<keyboard, screen, outdata, pending, buf_index, messages, history>>

kbd_iproc == KbdNothing \/ KbdFlag \/ KbdStore \/ KbdTest \/ KbdClear

-----------------------------------------------------------------------------
(* Without an envelope the flag is cleared, whatever it was raised for.    *)
CrtNothing ==
    /\ At("crt", "nothing")
    /\ outdata' = [outdata EXCEPT ![BufSize] = 0]
    /\ loaded' = IF oc_flag # 0 /\ loaded.fate = "ready"
                 THEN [loaded EXCEPT !.fate = "cleared"] ELSE loaded
    /\ Goto("return")
    /\ UNCHANGED <<keyboard, screen, indata, pending, buf_index, messages, meant, mixed>>

(* Mutant of CrtFlag: the buffer is stored to whether it is empty or not.  *)
CrtFlag_Untested ==
    /\ At("crt", "flag")
    /\ Begin
    /\ UNCHANGED <<keyboard, screen, shared, pending, messages, meant, loaded>>

CrtFlag ==
    /\ At("crt", "flag")
    /\ IF oc_flag = 0 THEN Begin /\ UNCHANGED dropped
       ELSE Leave /\ UNCHANGED <<buf_index, mixed>>
    /\ UNCHANGED <<keyboard, screen, shared, pending, box, held, msg_text, meant,
                   loaded>>

CrtStore ==
    /\ At("crt", "store")
    /\ outdata' = [outdata EXCEPT ![buf_index] = msg_text[Top.env][buf_index]]
    /\ Goto("inc")
    /\ UNCHANGED <<keyboard, screen, indata, pending, buf_index, messages, history>>

CrtTest ==
    /\ At("crt", "test")
    /\ Goto(IF msg_text[Top.env][buf_index] # NUL THEN "store" ELSE "nul")
    /\ UNCHANGED <<keyboard, screen, shared, pending, buf_index, messages, history>>

CrtEnd ==
    /\ At("crt", "nul")
    /\ outdata' = [outdata EXCEPT ![buf_index] = NUL]
    /\ buf_index' = buf_index + 1
    /\ Goto("raise")
    /\ UNCHANGED <<keyboard, screen, indata, pending, messages, history>>

RaiseOc ==
    /\ At("crt", "raise")
    /\ outdata' = [outdata EXCEPT ![BufSize] = 1]
    /\ loaded' = [text |-> meant[Top.env], whole |-> Top.env \notin mixed, fate |-> "ready"]
    /\ Goto("send")
    /\ UNCHANGED <<keyboard, screen, indata, pending, buf_index, messages, meant, mixed>>

crt_iproc == CrtNothing \/ CrtFlag \/ CrtStore \/ CrtTest \/ CrtEnd \/ RaiseOc

-----------------------------------------------------------------------------
Handler == kbd_iproc \/ crt_iproc \/ Increment \/ Reply \/ Return

Next ==
    \/ \E l \in Lines : Type(l)
    \/ \E e \in Env : Ask(e) \/ \E t \in Texts : Display(e, t)
    \/ Keyboard \/ Screen \/ Handler
    \/ \E proc \in Iproc : Interrupt(proc)

(* The children run on their own.  A handler may be interrupted, but the   *)
(* signals of a child that sleeps 100 ms do not keep it from going on,     *)
(* wherever it is on the stack; and a signal that is sent is delivered.    *)
(* Nobody has to type or to display.                                       *)
Fairness ==
    /\ WF_vars(Keyboard) /\ WF_vars(Screen)
    /\ \A d \in 1 .. MaxNest : SF_vars(Depth = d /\ Handler)
    /\ \A proc \in Iproc : SF_vars(Interrupt(proc))

Spec == Init /\ [][Next]_vars /\ Fairness

-----------------------------------------------------------------------------
Byte == {NUL, 1} \cup UNION { { t[i] : i \in 1 .. Len(t) } : t \in Lines \cup Texts }

TypeOK ==
    /\ keyboard.pc \in {"idle", "read", "raise", "kill", "wait"}
    /\ keyboard.i \in Address /\ keyboard.line \in Lines \cup {<<>>}
    /\ screen.pc \in {"poll", "sleep", "print", "clear"}
    /\ screen.i \in Address /\ screen.shown \in Seq(Byte \ {NUL})
    /\ indata \in [Address -> Byte] /\ outdata \in [Address -> Byte]
    /\ pending \subseteq Iproc
    /\ \A k \in DOMAIN frames :
          /\ frames[k].proc \in Iproc
          /\ frames[k].pc \in {"nothing", "flag", "store", "inc", "test", "nul",
                               "raise", "clear", "send", "return"}
          /\ frames[k].env \in Env \cup {NoEnv}
    /\ buf_index \in Address
    /\ box \in [Iproc -> Seq(Env)]
    /\ held \subseteq Env /\ mixed \subseteq Env /\ dropped \subseteq Env
    /\ msg_text \in [Env -> [Address -> Byte]]
    /\ meant \in [Env \cup {NoEnv} -> Lines \cup Texts \cup {<<>>}]
    /\ loaded.fate \in {"none", "ready", "cleared"}

(* What a NUL-terminated text reads as.                                    *)
Carries(text, s) ==
    (\A i \in 1 .. Len(s) : text[i - 1] = s[i]) /\ text[Len(s)] = NUL

(* One side at a time uses a buffer: while the keyboard child stores to    *)
(* its buffer no handler copies from it, and while a handler copies into   *)
(* the CRT's buffer the CRT child does not print from it.                  *)
InUse(proc) == { k \in DOMAIN frames :
                   /\ frames[k].proc = proc
                   /\ frames[k].pc \in {"store", "inc", "test", "nul", "raise", "clear"} }

BuffersExclusive ==
    /\ keyboard.pc \in {"read", "raise"} => InUse("kbd") = {}
    /\ screen.pc \in {"print", "clear"} => InUse("crt") = {}

(* The line that kbd_iproc sends in an envelope is the line that was       *)
(* typed, unless the copy loop of another handler ran within its own.      *)
Sent(proc) == { frames[k].env : k \in { j \in DOMAIN frames :
                  frames[j].proc = proc /\ frames[j].pc = "return" } } \cap held

LineArrives == \A e \in Sent("kbd") \ mixed : Carries(msg_text[e], meant[e])

(* The envelopes of kbd_iproc are never dropped: its signal comes once per *)
(* line, and the flag is still raised when the handler tests it.           *)
KeyboardDropsNone ==
    \A k \in DOMAIN frames :
        frames[k].proc = "kbd" /\ frames[k].pc = "return" => frames[k].env \notin dropped

(* What the CRT prints is the text it was given last, whole and once,      *)
(* unless buf_index was changed while the text was copied.                 *)
TextPrintedWhole ==
    screen.pc = "clear" /\ loaded.whole =>
        screen.shown = loaded.text /\ loaded.fate \in {"ready", "cleared"}

(* A text is given to the CRT only after the one before it was printed, or *)
(* was lost because crt_iproc without an envelope cleared its flag.        *)
TextsTakeTurns ==
    [][ loaded' # loaded /\ loaded'.fate = "ready" => loaded.fate # "ready" ]_vars

(* "read buffer into the env, while we haven't reached the NULL": an       *)
(* envelope carries the line, whatever interrupts kbd_iproc.               *)
LineIntact == \A e \in Sent("kbd") : Carries(msg_text[e], meant[e])

-----------------------------------------------------------------------------
(* The keyboard child does not wait for ever: with or without a request    *)
(* for it, its line is taken out of the buffer.                            *)
KeyboardGoesOn == keyboard.pc = "wait" ~> keyboard.pc = "idle"

(* A text in the queue of crt_iproc is taken from there: the CRT child     *)
(* keeps asking while its buffer is empty, and empties it otherwise.       *)
TextsAreTaken == \A e \in Env : (\E i \in DOMAIN box["crt"] : box["crt"][i] = e)
                                  ~> (\A i \in DOMAIN box["crt"] : box["crt"][i] # e)
=============================================================================
