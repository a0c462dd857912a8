---------------------------- MODULE ClockProofs -----------------------------
(***************************************************************************)
(* Proofs about Clock, for any number of pulses in a second, any ranges of *)
(* the fields and any number of pulses.                                    *)
(***************************************************************************)
EXTENDS Clock, Integers, TLAPS

(* Nothing but a display that takes too long is ever late: inside one, the *)
(* counter has passed the value at which the handler would tick.           *)
Counted ==
    /\ pulse_counter <= pulses
    /\ displaying => displayed /\ pulse_counter >= PerSecond
    /\ ~ displaying => PerSecond * Uptime + pulse_counter <= pulses
    /\ PerSecond * Uptime <= pulses
    /\ ~ displayed => PerSecond * Uptime + pulse_counter = pulses

ClockInv == TypeOK /\ Counted

-----------------------------------------------------------------------------
LEMMA TimesNext ==
    ASSUME NEW a \in Nat, NEW b \in Nat
    PROVE  a * (b + 1) = a * b + a /\ a * b \in Nat
OBVIOUS

(* clock_increment counts one second up, carries included.                 *)
SystemTime == [ss : 0 .. MAX_SS, mm : 0 .. MAX_MM, hh : Nat]

Seconds(c) == c.ss + (MAX_SS + 1) * (c.mm + (MAX_MM + 1) * c.hh)

LEMMA IncrementCounts ==
    ASSUME NEW c \in SystemTime
    PROVE  /\ clock_increment(c, FALSE) \in SystemTime
           /\ Seconds(c) \in Nat
           /\ Seconds(clock_increment(c, FALSE)) = Seconds(c) + 1
<1> DEFINE d == clock_increment(c, FALSE)
           s == MAX_SS + 1
           m == MAX_MM + 1
           X == m * c.hh
           Y == s * (c.mm + X)
<1>1. /\ MAX_SS \in Nat /\ MAX_MM \in Nat /\ s \in Nat /\ m \in Nat
      /\ c.ss \in 0 .. MAX_SS /\ c.mm \in 0 .. MAX_MM /\ c.hh \in Nat
    BY ClockAssumption DEF SystemTime
<1>2. X \in Nat /\ m * (c.hh + 1) = X + m
    BY <1>1, TimesNext
<1>3. /\ Y \in Nat /\ s * (c.mm + X + 1) = Y + s
    <2> HIDE DEF X
    <2>1. c.mm + X \in Nat
        BY <1>1, <1>2
    <2> QED
        BY <1>1, <2>1, TimesNext
<1>4. Seconds(c) = c.ss + Y
    BY DEF Seconds
<1>5. CASE c.ss < MAX_SS
    <2>1. d = [c EXCEPT !.ss = @ + 1]
        BY <1>5 DEF clock_increment
    <2>2. d.ss = c.ss + 1 /\ d.mm = c.mm /\ d.hh = c.hh /\ d \in SystemTime
        <3>1. c.ss + 1 \in 0 .. MAX_SS
            BY <1>1, <1>5
        <3> QED
            BY <2>1, <3>1 DEF SystemTime
    <2>3. Seconds(d) = c.ss + 1 + Y
        BY <2>2 DEF Seconds
    <2> HIDE DEF d, Y, X
    <2>7. c.ss \in Int /\ c.ss + Y \in Nat /\ Seconds(d) = c.ss + Y + 1
        BY <1>1, <1>3, <2>2, <2>3
    <2> QED
        BY <1>4, <2>2, <2>7 DEF d
<1>6. CASE ~ (c.ss < MAX_SS) /\ c.mm < MAX_MM
    <2>1. d = [c EXCEPT !.ss = 0, !.mm = @ + 1]
        BY <1>6 DEF clock_increment
    <2>2. d.ss = 0 /\ d.mm = c.mm + 1 /\ d.hh = c.hh /\ d \in SystemTime
        <3>1. c.mm + 1 \in 0 .. MAX_MM /\ 0 \in 0 .. MAX_SS
            BY <1>1, <1>6
        <3> QED
            BY <2>1, <3>1 DEF SystemTime
    <2>3. Seconds(d) = 0 + s * (c.mm + 1 + X)
        BY <2>2 DEF Seconds
    <2> HIDE DEF d, Y, X
    <2>4. c.mm + 1 + X = c.mm + X + 1 /\ c.ss = MAX_SS
        BY <1>1, <1>2, <1>6
    <2>5. Seconds(d) = Y + s
        <3> HIDE DEF s
        <3> QED
            BY <1>1, <1>3, <2>3, <2>4
    <2>7. c.ss \in Int /\ c.ss + Y \in Nat /\ Seconds(d) = c.ss + Y + 1
        BY <1>1, <1>3, <2>2, <2>4, <2>5
    <2> QED
        BY <1>4, <2>2, <2>7 DEF d
<1>7. CASE ~ (c.ss < MAX_SS) /\ ~ (c.mm < MAX_MM)
    <2>1. d = [ss |-> 0, mm |-> 0, hh |-> c.hh + 1]
        BY <1>7 DEF clock_increment
    <2>2. d.ss = 0 /\ d.mm = 0 /\ d.hh = c.hh + 1 /\ d \in SystemTime
        <3> DEFINE h == c.hh + 1
        <3>1. h \in Nat /\ 0 \in 0 .. MAX_MM /\ 0 \in 0 .. MAX_SS
            BY <1>1
        <3>2. d = [ss |-> 0, mm |-> 0, hh |-> h]
            BY <2>1
        <3> HIDE DEF h, d
        <3>3. d.ss = 0 /\ d.mm = 0 /\ d.hh = h
            BY <3>2
        <3>4. d \in SystemTime
            BY <3>1, <3>2 DEF SystemTime
        <3> QED
            BY <3>3, <3>4 DEF h
    <2>3. Seconds(d) = 0 + s * (0 + m * (c.hh + 1))
        BY <2>2 DEF Seconds
    <2> HIDE DEF d, Y, X
    <2>4. c.ss = MAX_SS /\ c.mm = MAX_MM
        BY <1>1, <1>7
    <2>5. 0 + m * (c.hh + 1) = c.mm + X + 1
        BY <1>1, <1>2, <2>4
    <2>6. Seconds(d) = Y + s
        <3> HIDE DEF s, m
        <3> QED
            BY <1>1, <1>3, <2>3, <2>5
    <2>7. c.ss \in Int /\ c.ss + Y \in Nat /\ Seconds(d) = c.ss + Y + 1
        BY <1>1, <1>3, <2>2, <2>4, <2>6
    <2> QED
        BY <1>4, <2>2, <2>7 DEF d
<1> QED
    BY <1>5, <1>6, <1>7

(* And keeps every field of the wall clock in its range.                   *)
LEMMA WallIncrement ==
    ASSUME NEW c \in Time
    PROVE  clock_increment(c, TRUE) \in Time
<1>1. /\ c.ss \in 0 .. MAX_SS /\ c.mm \in 0 .. MAX_MM /\ c.hh \in 0 .. MAX_HH
      /\ MAX_SS \in Nat /\ MAX_MM \in Nat /\ MAX_HH \in Nat
    BY ClockAssumption DEF Time
<1>2. CASE c.ss < MAX_SS
    BY <1>1, <1>2 DEF clock_increment, Time
<1>3. CASE ~ (c.ss < MAX_SS) /\ c.mm < MAX_MM
    <2>1. c.mm + 1 \in 0 .. MAX_MM /\ 0 \in 0 .. MAX_SS
        BY <1>1, <1>3
    <2> QED
        BY <1>3, <2>1 DEF clock_increment, Time
<1>4. CASE ~ (c.ss < MAX_SS) /\ ~ (c.mm < MAX_MM) /\ c.hh >= MAX_HH
    <2>1. 0 \in 0 .. MAX_MM /\ 0 \in 0 .. MAX_SS
        BY <1>1
    <2> QED
        BY <1>4, <2>1 DEF clock_increment, Time
<1>5. CASE ~ (c.ss < MAX_SS) /\ ~ (c.mm < MAX_MM) /\ ~ (c.hh >= MAX_HH)
    BY <1>1, <1>5 DEF clock_increment, Time
<1> QED
    BY <1>2, <1>3, <1>4, <1>5

-----------------------------------------------------------------------------
LEMMA InitClockInv == Init => ClockInv
<1> SUFFICES ASSUME Init
             PROVE  ClockInv
    OBVIOUS
<1>1. Zero \in Time /\ Zero \in SystemTime
    BY ClockAssumption DEF Zero, Time, SystemTime
<1>2. TypeOK
    <2>1. 0 \in 0 .. MaxPulses
        BY ClockAssumption
    <2>2. FALSE \in BOOLEAN
        OBVIOUS
    <2> QED
        BY <1>1, <2>1, <2>2, Zenon DEF Init, TypeOK, SystemTime
<1>3. Uptime = 0
    <2>1. systemclock.ss = 0 /\ systemclock.mm = 0 /\ systemclock.hh = 0
        BY DEF Init, Zero
    <2>2. (MAX_MM + 1) * 0 = 0 /\ (MAX_SS + 1) * 0 = 0
        BY ClockAssumption
    <2> QED
        BY <2>1, <2>2 DEF Uptime
<1>4. PerSecond * 0 = 0
    BY ClockAssumption
<1> QED
    BY <1>2, <1>3, <1>4 DEF Init, ClockInv, Counted

(* The steps that count nothing.                                           *)
LEMMA CountedRest ==
    ASSUME ClockInv,
           UNCHANGED <<systemclock, pulse_counter, displaying, pulses, displayed>>
    PROVE  Counted'
BY DEF ClockInv, Counted, Uptime

LEMMA PulseGood ==
    ASSUME ClockInv, Pulse
    PROVE  ClockInv'
<1> DEFINE U == Uptime
           P == PerSecond
<1>1. /\ P \in Nat \ {0} /\ MaxPulses \in Nat
      /\ pulses \in Nat /\ pulses < MaxPulses /\ pulses' = pulses + 1
      /\ pulse_counter \in Nat /\ pulse_counter <= pulses
      /\ UNCHANGED <<wallClockOut, setting, newtime>>
      /\ systemclock \in SystemTime /\ wallclock \in Time
      /\ wallClockOut \in BOOLEAN /\ displaying \in BOOLEAN /\ displayed \in BOOLEAN
    BY ClockAssumption DEF Pulse, ClockInv, TypeOK, Counted, SystemTime
<1>2. U \in Nat /\ U = Seconds(systemclock)
    BY <1>1, IncrementCounts DEF Uptime, Seconds
<1>3. P * U \in Nat /\ P * (U + 1) = P * U + P
    <2> HIDE DEF U
    <2> QED
        BY <1>1, <1>2, TimesNext
<1>4. /\ displaying => displayed /\ pulse_counter >= P
      /\ ~ displaying => P * U + pulse_counter <= pulses
      /\ P * U <= pulses
      /\ ~ displayed => P * U + pulse_counter = pulses
    BY DEF ClockInv, Counted
<1>5. CASE pulse_counter + 1 = P
    <2>1. /\ systemclock' = clock_increment(systemclock, FALSE)
          /\ wallclock' = clock_increment(wallclock, TRUE)
          /\ displaying' = wallClockOut
          /\ displayed' = (displayed \/ wallClockOut)
          /\ pulse_counter' = IF wallClockOut THEN P ELSE 0
        BY <1>5 DEF Pulse
    <2>2. ~ displaying
        BY <1>1, <1>4, <1>5
    <2>3. systemclock' \in SystemTime /\ Uptime' = U + 1
        BY <1>1, <1>2, <2>1, IncrementCounts DEF Uptime, Seconds
    <2>4. wallclock' \in Time
        BY <1>1, <2>1, WallIncrement
    <2>5. TypeOK'
        <3>1. pulses' \in 0 .. MaxPulses /\ P \in 0 .. MaxPulses /\ 0 \in 0 .. MaxPulses
            BY <1>1, <1>5
        <3>2. pulse_counter' \in 0 .. MaxPulses
            BY <2>1, <3>1
        <3>3. displaying' \in BOOLEAN /\ displayed' \in BOOLEAN
            BY <1>1, <2>1, Zenon
        <3> QED
            BY <1>1, <2>3, <2>4, <3>1, <3>2, <3>3, Zenon DEF TypeOK, ClockInv, SystemTime
    <2>6. PerSecond * Uptime' = P * U + P
        BY <1>3, <2>3
    <2> HIDE DEF U
    <2>7. PerSecond * Uptime' <= pulses'
        BY <1>1, <1>3, <1>4, <1>5, <2>2, <2>6
    <2>8. ASSUME wallClockOut
          PROVE  Counted'
        <3>1. pulse_counter' = P /\ displaying' /\ displayed'
            BY <2>1, <2>8
        <3>2. P <= pulses'
            BY <1>1, <1>5
        <3>3. P <= P
            BY <1>1
        <3> QED
            BY <2>7, <3>1, <3>2, <3>3 DEF Counted
    <2>9. ASSUME ~ wallClockOut
          PROVE  Counted'
        <3>1. pulse_counter' = 0 /\ displaying' = FALSE /\ displayed' = displayed
            BY <1>1, <2>1, <2>9
        <3>2. ~ displayed => P * U + P = pulses + 1
            BY <1>1, <1>3, <1>4, <1>5
        <3> QED
            BY <1>1, <1>3, <2>6, <2>7, <3>1, <3>2 DEF Counted
    <2> QED
        BY <2>5, <2>8, <2>9 DEF ClockInv
<1>6. CASE pulse_counter + 1 # P
    <2>1. /\ pulse_counter' = pulse_counter + 1
          /\ UNCHANGED <<systemclock, wallclock, displaying, displayed>>
        BY <1>6 DEF Pulse
    <2>2. Uptime' = U
        BY <2>1 DEF Uptime
    <2>3. TypeOK'
        BY <1>1, <2>1 DEF TypeOK, ClockInv
    <2> HIDE DEF U
    <2>4. Counted'
        <3>1. PerSecond * Uptime' = P * U
            BY <2>2
        <3> QED
            BY <1>1, <1>3, <1>4, <2>1, <3>1 DEF Counted
    <2> QED
        BY <2>3, <2>4 DEF ClockInv
<1> QED
    BY <1>5, <1>6

LEMMA DisplayDoneGood ==
    ASSUME ClockInv, DisplayDone
    PROVE  ClockInv'
<1>1. /\ displaying /\ displaying' = FALSE /\ pulse_counter' = 0
      /\ UNCHANGED <<systemclock, wallclock, wallClockOut, setting, newtime, pulses, displayed>>
    BY DEF DisplayDone
<1>2. TypeOK'
    <2>1. 0 \in 0 .. MaxPulses
        BY ClockAssumption
    <2>2. FALSE \in BOOLEAN
        OBVIOUS
    <2> QED
        BY <1>1, <2>1, <2>2, Zenon DEF ClockInv, TypeOK
<1>3. pulses \in Nat /\ displayed /\ PerSecond * Uptime <= pulses /\ Uptime' = Uptime
    BY <1>1 DEF ClockInv, TypeOK, Counted, Uptime
<1>4. PerSecond * Uptime \in Nat
    <2>1. Uptime \in Nat
        BY IncrementCounts DEF ClockInv, TypeOK, Uptime, Seconds, SystemTime
    <2> QED
        BY <2>1, ClockAssumption, TimesNext
<1>5. Counted'
    <2>1. PerSecond * Uptime' = PerSecond * Uptime
        BY <1>3
    <2> DEFINE x == PerSecond * Uptime
    <2>2. x \in Nat /\ x <= pulses /\ PerSecond * Uptime' = x
        BY <1>3, <1>4, <2>1
    <2> HIDE DEF x
    <2> QED
        BY <1>1, <1>3, <2>2 DEF Counted
<1> QED
    BY <1>2, <1>5 DEF ClockInv

(* clock_set stores one field, in its range; nothing else is disturbed.    *)
LEMMA ConsoleGood ==
    ASSUME ClockInv, Console \/ (\E to \in Time : SetSeconds(to)) \/ SetMinutes \/ SetHours
    PROVE  ClockInv'
<1>1. Zero \in Time
    BY ClockAssumption DEF Zero, Time
<1>2. Counted'
    BY CountedRest DEF Console, SetSeconds, SetMinutes, SetHours
<1>3. CASE Console
    BY <1>2, <1>3 DEF Console, ClockInv, TypeOK
<1>4. ASSUME NEW to \in Time, SetSeconds(to)
      PROVE  TypeOK'
    <2>1. wallclock' \in Time
        BY <1>4 DEF SetSeconds, ClockInv, TypeOK, Time
    <2> QED
        BY <1>4, <2>1 DEF SetSeconds, ClockInv, TypeOK
<1>5. CASE SetMinutes
    <2>1. wallclock' \in Time
        BY <1>5 DEF SetMinutes, ClockInv, TypeOK, Time
    <2> QED
        BY <1>2, <1>5, <2>1 DEF SetMinutes, ClockInv, TypeOK
<1>6. CASE SetHours
    <2>1. wallclock' \in Time
        BY <1>6 DEF SetHours, ClockInv, TypeOK, Time
    <2> QED
        BY <1>1, <1>2, <1>6, <2>1 DEF SetHours, ClockInv, TypeOK
<1> QED
    BY <1>2, <1>3, <1>4, <1>5, <1>6 DEF ClockInv

THEOREM ClockInvariant == Spec => []ClockInv
<1>1. ClockInv /\ [Next]_vars => ClockInv'
    <2> SUFFICES ASSUME ClockInv, [Next]_vars
                 PROVE  ClockInv'
        OBVIOUS
    <2>1. CASE UNCHANGED vars
        BY <2>1, CountedRest DEF vars, ClockInv, TypeOK
    <2> QED
        BY <2>1, PulseGood, DisplayDoneGood, ConsoleGood DEF Next
<1> QED
    BY <1>1, InitClockInv, PTL DEF Spec

(* However a tick falls between the three stores of clock_set, every field *)
(* of both clocks stays in its range.                                      *)
THEOREM ClocksStayInRange == Spec => []TypeOK
<1>1. ClockInv => TypeOK
    BY DEF ClockInv
<1> QED
    BY <1>1, ClockInvariant, PTL

(* The system clock is exact until the wall clock is displayed, and from   *)
(* then on it can only be late: no pulse is ever counted twice.            *)
THEOREM SystemClockNeverFast == Spec => []SystemClockKeepsTime
<1>1. ClockInv => SystemClockKeepsTime
    BY DEF ClockInv, Counted, SystemClockKeepsTime
<1> QED
    BY <1>1, ClockInvariant, PTL
=============================================================================
