-------------------------------- MODULE Clock --------------------------------
(***************************************************************************)
(* The two clocks.  timer_iproc counts ten pulses to a second, increments  *)
(* systemclock and wallclock, and shows the wall clock if the console      *)
(* asked for it; the CCI sets the wall clock field by field, outside every *)
(* atomic section.  clock_out calls user primitives, so the handler can be *)
(* interrupted by further pulses before it has reset pulse_counter.        *)
(***************************************************************************)
EXTENDS Naturals

CONSTANTS
    PerSecond,      \* pulses in a second (10)
    MAX_SS,         \* 59
    MAX_MM,         \* 59
    MAX_HH,         \* 23
    MaxPulses       \* bound: pulses delivered

ASSUME ClockAssumption ==
    /\ PerSecond \in Nat \ {0}
    /\ MAX_SS \in Nat /\ MAX_MM \in Nat /\ MAX_HH \in Nat
    /\ MaxPulses \in Nat

VARIABLES
    systemclock, wallclock,     \* [ss, mm, hh]
    pulse_counter,
    wallClockOut,
    setting,        \* the field clock_set stores next, or "none"
    newtime,        \* the time clock_set was called with
    displaying,     \* a timer handler is inside clock_out
    pulses,         \* pulses delivered since boot (history)
    displayed       \* the wall clock was ever displayed (history)

vars == <<systemclock, wallclock, pulse_counter, wallClockOut, setting,
          newtime, displaying, pulses, displayed>>

Time == [ss : 0 .. MAX_SS, mm : 0 .. MAX_MM, hh : 0 .. MAX_HH]
Zero == [ss |-> 0, mm |-> 0, hh |-> 0]

(* init_clocks.                                                            *)
Init ==
    /\ systemclock = Zero /\ wallclock = Zero
    /\ pulse_counter = 0
    /\ wallClockOut = FALSE
    /\ setting = "none" /\ newtime = Zero
    /\ displaying = FALSE
    /\ pulses = 0 /\ displayed = FALSE

(* Mutant of clock_increment: the seconds run one too far.                 *)
clock_increment_Over(clock, wall) ==
    IF clock.ss <= MAX_SS THEN [clock EXCEPT !.ss = @ + 1]
    ELSE IF clock.mm < MAX_MM THEN [clock EXCEPT !.ss = 0, !.mm = @ + 1]
    ELSE IF wall /\ clock.hh >= MAX_HH THEN [clock EXCEPT !.ss = 0, !.mm = 0]
    ELSE [ss |-> 0, mm |-> 0, hh |-> clock.hh + 1]

(* clock_increment.  For the wall clock's last hour the source compares hh *)
(* with 0 where it means to assign it, so the hour stays.                  *)
clock_increment(clock, wall) ==
    IF clock.ss < MAX_SS THEN [clock EXCEPT !.ss = @ + 1]
    ELSE IF clock.mm < MAX_MM THEN [clock EXCEPT !.ss = 0, !.mm = @ + 1]
    ELSE IF wall /\ clock.hh >= MAX_HH THEN [clock EXCEPT !.ss = 0, !.mm = 0]
    ELSE [ss |-> 0, mm |-> 0, hh |-> clock.hh + 1]

(* Mutant of Pulse: the counter is tested before it is incremented.        *)
Pulse_Late ==
    /\ pulses < MaxPulses
    /\ pulses' = pulses + 1
    /\ IF pulse_counter = PerSecond
       THEN /\ systemclock' = clock_increment(systemclock, FALSE)
            /\ wallclock' = clock_increment(wallclock, TRUE)
            /\ displaying' = wallClockOut
            /\ displayed' = (displayed \/ wallClockOut)
            /\ pulse_counter' = IF wallClockOut THEN PerSecond ELSE 0
       ELSE /\ pulse_counter' = pulse_counter + 1
            /\ UNCHANGED <<systemclock, wallclock, displaying, displayed>>
    /\ UNCHANGED <<wallClockOut, setting, newtime>>

(* timer_iproc up to its first call that turns atomicity off.              *)
Pulse ==
    /\ pulses < MaxPulses
    /\ pulses' = pulses + 1
    /\ IF pulse_counter + 1 = PerSecond
       THEN /\ systemclock' = clock_increment(systemclock, FALSE)
            /\ wallclock' = clock_increment(wallclock, TRUE)
            /\ displaying' = wallClockOut
            /\ displayed' = (displayed \/ wallClockOut)
            /\ pulse_counter' = IF wallClockOut THEN PerSecond ELSE 0
       ELSE /\ pulse_counter' = pulse_counter + 1
            /\ UNCHANGED <<systemclock, wallclock, displaying, displayed>>
    /\ UNCHANGED <<wallClockOut, setting, newtime>>

(* clock_out has returned: the handler resets the pulse counter, whatever  *)
(* the handlers that interrupted it have counted.                          *)
DisplayDone ==
    /\ displaying
    /\ displaying' = FALSE
    /\ pulse_counter' = 0
    /\ UNCHANGED <<systemclock, wallclock, wallClockOut, setting, newtime, pulses, displayed>>

(* cd and ct on the console.  A user process runs only when no handler is  *)
(* on the stack.                                                           *)
Console ==
    /\ ~ displaying /\ setting = "none"
    /\ wallClockOut' \in BOOLEAN
    /\ UNCHANGED <<systemclock, wallclock, pulse_counter, setting, newtime,
                   displaying, pulses, displayed>>

(* clock_set stores ss, then mm, then hh; an invalid time changes nothing. *)
SetSeconds(to) ==
    /\ ~ displaying /\ setting = "none"
    /\ wallclock' = [wallclock EXCEPT !.ss = to.ss]
    /\ newtime' = to /\ setting' = "mm"
    /\ UNCHANGED <<systemclock, pulse_counter, wallClockOut, displaying, pulses, displayed>>

SetMinutes ==
    /\ ~ displaying /\ setting = "mm"
    /\ wallclock' = [wallclock EXCEPT !.mm = newtime.mm]
    /\ setting' = "hh"
    /\ UNCHANGED <<systemclock, pulse_counter, wallClockOut, newtime,
                   displaying, pulses, displayed>>

SetHours ==
    /\ ~ displaying /\ setting = "hh"
    /\ wallclock' = [wallclock EXCEPT !.hh = newtime.hh]
    /\ setting' = "none" /\ newtime' = Zero
    /\ UNCHANGED <<systemclock, pulse_counter, wallClockOut, displaying, pulses, displayed>>

Next ==
    \/ Pulse \/ DisplayDone \/ Console
    \/ \E to \in Time : SetSeconds(to)
    \/ SetMinutes \/ SetHours

Spec == Init /\ [][Next]_vars

-----------------------------------------------------------------------------
(* A tick that falls between two stores of clock_set reads a mixture of    *)
(* two times, and still leaves every field of the wall clock in its range. *)
TypeOK ==
    /\ wallclock \in Time
    /\ systemclock \in [ss : 0 .. MAX_SS, mm : 0 .. MAX_MM, hh : Nat]
    /\ pulse_counter \in 0 .. MaxPulses
    /\ wallClockOut \in BOOLEAN /\ displaying \in BOOLEAN /\ displayed \in BOOLEAN
    /\ setting \in {"none", "mm", "hh"} /\ newtime \in Time
    /\ pulses \in 0 .. MaxPulses

Uptime == systemclock.ss + (MAX_SS + 1) * (systemclock.mm + (MAX_MM + 1) * systemclock.hh)

(* The system clock, which time-stamps the traces, is exact as long as the *)
(* wall clock was never displayed, and displaying it can only lose pulses. *)
SystemClockKeepsTime ==
    /\ ~ displayed => PerSecond * Uptime + pulse_counter = pulses
    /\ PerSecond * Uptime <= pulses
=============================================================================
