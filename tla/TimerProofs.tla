----------------------------- MODULE TimerProofs ------------------------------
(***************************************************************************)
(* Theorems about Timer for every size of byte, prescaler and divider:     *)
(* its types, and that it implements IntervalTimer.                        *)
(***************************************************************************)
EXTENDS Timer, TLAPS

USE DEF Byte

\* A total below two periods, modulo the period, loses one period or none.
LEMMA FoldOnce ==
    ASSUME NEW p \in Nat \ {0}, NEW n \in 0 .. p + p - 1
    PROVE  n % p = IF n >= p THEN n - p ELSE n
BY SMT

\* The divider's increment wraps from the last value to 0.
LEMMA DividerWraps ==
    ASSUME TypeOK
    PROVE  (divider + 1) % ByteSize = IF divider = ByteSize - 1 THEN 0 ELSE divider + 1
<1> DEFINE n == divider + 1
<1>1. n \in 0 .. ByteSize + ByteSize - 1
  BY ByteSizeAssumption DEF TypeOK
<1> HIDE DEF n
<1>2. n % ByteSize = IF n >= ByteSize THEN n - ByteSize ELSE n
  BY <1>1, FoldOnce, ByteSizeAssumption
<1> QED
  BY <1>1, <1>2, ByteSizeAssumption DEF n, TypeOK

\* The period in force is one of DIVIDERS.
LEMMA PeriodType ==
    ASSUME TypeOK
    PROVE  Period \in Nat \ {0}
BY DividersAssumption DEF TypeOK, Control, Period

\* CountDivider keeps the divider and its prescaler in range.
LEMMA DividerType ==
    ASSUME TypeOK, NEW c \in TickCycles, CountDivider(c)
    PROVE  /\ divider' \in Byte
           /\ div_cycle_counter_' \in 0 .. DivPeriod - 1
<1>1. div_cycle_counter_' \in 0 .. DivPeriod - 1
  <2>1. div_cycle_counter_ + c \in 0 .. DivPeriod + DivPeriod - 1
    BY TickAssumption, DivPeriodAssumption DEF TypeOK
  <2> QED
    BY <2>1, FoldOnce, DivPeriodAssumption DEF CountDivider
<1>2. (divider + 1) % ByteSize \in Byte
  BY DividerWraps, ByteSizeAssumption DEF TypeOK
<1> QED
  BY <1>1, <1>2 DEF CountDivider, TypeOK

\* CountTima keeps timer_counter in range and the clocks it holds back natural.
LEMMA TimaType ==
    ASSUME TypeOK, NEW c \in TickCycles, CountTima(c)
    PROVE  /\ timer_counter' \in Byte
           /\ tima_counter_' \in Nat
           /\ interrupt_flag' \subseteq RegisterBit
<1>1. c \in Nat
  BY TickAssumption, DivPeriodAssumption
<1>2. TIMER \in RegisterBit
  BY DEF TIMER, RegisterBit
<1> QED
  BY <1>1, <1>2, PeriodType, ByteSizeAssumption DEF TypeOK, CountTima, IncrementCounter

\* A tick leaves every register in its type.
LEMMA TickType ==
    ASSUME TypeOK, NEW c \in TickCycles, Tick(c)
    PROVE  TypeOK'
BY DividerType, TimaType DEF Tick, TypeOK

\* timer.cc, cpu.cc:211-223: every register stays a byte, the prescaler below
\* its period, and the unsigned tima_counter_ never wraps below zero.
THEOREM TypeCorrect == Spec => []TypeOK
<1>1. Init => TypeOK
  BY ByteSizeAssumption, DivPeriodAssumption DEF Init, TypeOK, Control
<1>2. TypeOK /\ [Next]_vars => TypeOK'
  <2> SUFFICES ASSUME TypeOK, [Next]_vars
               PROVE  TypeOK'
    OBVIOUS
  <2>1. CASE \E c \in TickCycles : Tick(c) /\ tima_counter_' <= MaxBacklog
    BY <2>1, TickType
  <2>2. CASE WriteDIV
    BY <2>2, ByteSizeAssumption DEF WriteDIV, TypeOK
  <2>3. CASE \E v \in Byte : WriteTIMA(v)
    BY <2>3 DEF WriteTIMA, TypeOK
  <2>4. CASE \E v \in Byte : WriteTMA(v)
    BY <2>4 DEF WriteTMA, TypeOK
  <2>5. CASE \E v \in Control : WriteTAC(v)
    BY <2>5 DEF WriteTAC, TypeOK
  <2>6. CASE AckTimer
    BY <2>6 DEF AckTimer, TypeOK
  <2>7. CASE UNCHANGED vars
    BY <2>7 DEF vars, TypeOK
  <2> QED
    BY <2>1, <2>2, <2>3, <2>4, <2>5, <2>6, <2>7 DEF Next
<1> QED
  BY <1>1, <1>2, PTL DEF Spec

-------------------------------------------------------------------------------

\* The divider and its prescaler are one clock that counts modulo their range.
LEMMA ClockAdvances ==
    ASSUME TypeOK, NEW c \in TickCycles, CountDivider(c)
    PROVE  Interval!Advance(c)
<1> DEFINE total == div_cycle_counter_ + c
<1>1. /\ c \in Nat
      /\ total \in 0 .. DivPeriod + DivPeriod - 1
  BY TickAssumption, DivPeriodAssumption DEF TypeOK
<1>2. div_cycle_counter_' = IF total >= DivPeriod THEN total - DivPeriod ELSE total
  BY <1>1, FoldOnce, DivPeriodAssumption DEF CountDivider
<1>3. (divider + 1) % ByteSize = IF divider = ByteSize - 1 THEN 0 ELSE divider + 1
  BY DividerWraps
<1>4. Clock' \in 0 .. ByteSize * DivPeriod - 1
  <2>1. divider' \in Byte /\ div_cycle_counter_' \in 0 .. DivPeriod - 1
    BY DividerType
  <2>2. ASSUME NEW d \in 0 .. ByteSize - 1, NEW r \in 0 .. DivPeriod - 1
        PROVE  d * DivPeriod + r \in 0 .. ByteSize * DivPeriod - 1
    <3>1. /\ d * DivPeriod \in Nat
          /\ d * DivPeriod + DivPeriod = (d + 1) * DivPeriod
      BY DivPeriodAssumption, SMT
    <3>2. (d + 1) * DivPeriod <= ByteSize * DivPeriod
      BY DivPeriodAssumption, ByteSizeAssumption, SMT
    <3> QED
      BY <3>1, <3>2, DivPeriodAssumption, ByteSizeAssumption
  <2> QED
    BY <2>1, <2>2 DEF Clock
<1>5. Clock' = Clock + c \/ Clock' = Clock + c - ByteSize * DivPeriod
  <2>1. CASE total < DivPeriod
    <3>1. divider' = divider /\ div_cycle_counter_' = div_cycle_counter_ + c
      BY <2>1, <1>1, <1>2, DivPeriodAssumption DEF CountDivider
    <3> QED
      BY <3>1, <1>1, DivPeriodAssumption DEF Clock, TypeOK
  <2>2. CASE total >= DivPeriod /\ divider + 1 < ByteSize
    <3>1. divider' = divider + 1 /\ div_cycle_counter_' = div_cycle_counter_ + c - DivPeriod
      BY <2>2, <1>1, <1>2, <1>3, DivPeriodAssumption, ByteSizeAssumption DEF CountDivider, TypeOK
    <3> QED
      BY <3>1, <1>1, DivPeriodAssumption DEF Clock, TypeOK
  <2>3. CASE total >= DivPeriod /\ divider + 1 >= ByteSize
    <3>1. /\ divider = ByteSize - 1
          /\ divider' = 0
          /\ div_cycle_counter_' = div_cycle_counter_ + c - DivPeriod
      BY <2>3, <1>1, <1>2, <1>3, DivPeriodAssumption, ByteSizeAssumption DEF CountDivider, TypeOK
    <3> QED
      BY <3>1, <1>1, DivPeriodAssumption, ByteSizeAssumption DEF Clock, TypeOK
  <2> QED
    BY <2>1, <2>2, <2>3, <1>1, DivPeriodAssumption, ByteSizeAssumption DEF TypeOK
<1> QED
  BY <1>4, <1>5 DEF Interval!Advance

\* No clock of the countdown is lost, and it never expires early.
LEMMA CountdownStep ==
    ASSUME TypeOK, NEW c \in TickCycles, Tick(c)
    PROVE  Interval!Pass(c) \/ Interval!Expire(c)
<1>1. Interval!Advance(c)
  BY ClockAdvances DEF Tick
<1>2. c \in Nat /\ Period \in Nat \ {0} /\ Period' = Period
  BY TickAssumption, DivPeriodAssumption, PeriodType DEF Tick, Period
<1>3. CASE ~timer_control.enabled
  BY <1>1, <1>2, <1>3 DEF Tick, CountTima, Interval!Pass, Remaining
<1>4. CASE timer_control.enabled /\ tima_counter_ + c < Period
  <2>1. /\ tima_counter_' = tima_counter_ + c
        /\ UNCHANGED <<timer_counter, interrupt_flag, timer_modulo, timer_control>>
    BY <1>4, <1>2 DEF Tick, CountTima, TypeOK
  <2>2. Remaining' = Remaining - c
    BY <2>1, <1>2, ByteSizeAssumption DEF Remaining, TypeOK
  <2> QED
    BY <1>1, <1>2, <1>4, <2>1, <2>2 DEF Interval!Pass
<1>5. CASE timer_control.enabled /\ tima_counter_ + c >= Period /\ timer_counter # ByteSize - 1
  <2>1. /\ tima_counter_' = tima_counter_ + c - Period
        /\ timer_counter' = timer_counter + 1
        /\ UNCHANGED <<interrupt_flag, timer_modulo, timer_control>>
    BY <1>5, <1>2 DEF Tick, CountTima, IncrementCounter, TypeOK
  <2>2. (ByteSize - (timer_counter + 1)) * Period = (ByteSize - timer_counter) * Period - Period
    BY <1>2, ByteSizeAssumption DEF TypeOK
  <2>3. Remaining' = Remaining - c
    BY <2>1, <2>2, <1>2, ByteSizeAssumption DEF Remaining, TypeOK
  <2> QED
    BY <1>1, <1>2, <1>5, <2>1, <2>3 DEF Interval!Pass
<1>6. CASE timer_control.enabled /\ tima_counter_ + c >= Period /\ timer_counter = ByteSize - 1
  <2>1. /\ tima_counter_' = tima_counter_ + c - Period
        /\ timer_counter' = timer_modulo
        /\ interrupt_flag' = interrupt_flag \cup {TIMER}
        /\ UNCHANGED <<timer_modulo, timer_control>>
    BY <1>6, <1>2 DEF Tick, CountTima, IncrementCounter, TypeOK
  <2>2. Remaining = Period - tima_counter_
    BY <1>2, <1>6, ByteSizeAssumption DEF Remaining, TypeOK
  <2>3. Remaining' = Remaining - c + (ByteSize - timer_modulo) * Period
    BY <2>1, <2>2, <1>2, ByteSizeAssumption DEF Remaining, TypeOK
  <2>4. Remaining <= c
    BY <2>2, <1>6, <1>2 DEF TypeOK
  <2> QED
    BY <1>1, <1>2, <1>6, <2>1, <2>3, <2>4 DEF Interval!Expire
<1> QED
  BY <1>2, <1>3, <1>4, <1>5, <1>6 DEF TypeOK

\* timer.cc tick(): for every divider table and every byte size, the timer
\* implements the interval timer: nothing is lost and nothing comes early.
THEOREM TimerImplementsIntervalTimer == Spec => RefinesIntervalTimer
<1>1. Init => Interval!Init
  <2> SUFFICES ASSUME Init PROVE Interval!Init
    OBVIOUS
  <2>1. Period \in Nat \ {0}
    BY DividersAssumption DEF Init, Period
  <2>2. Remaining = ByteSize * Period
    BY <2>1, ByteSizeAssumption DEF Init, Remaining
  <2>3. Remaining > 0
    BY <2>1, <2>2, ByteSizeAssumption
  <2>4. Clock = 0
    BY DivPeriodAssumption DEF Init, Clock
  <2> QED
    BY <2>3, <2>4 DEF Init, Interval!Init
<1>2. TypeOK /\ [Next]_vars => [Interval!Next]_Interval!ivars
  <2> SUFFICES ASSUME TypeOK, [Next]_vars
               PROVE  [Interval!Next]_Interval!ivars
    OBVIOUS
  <2>1. CASE \E c \in TickCycles : Tick(c) /\ tima_counter_' <= MaxBacklog
    BY <2>1, CountdownStep DEF Interval!Next
  <2>2. CASE WriteDIV
    <3>1. Clock' = div_cycle_counter_ /\ Clock' \in 0 .. Clock
      <4>1. divider * DivPeriod \in Nat
        BY DivPeriodAssumption DEF TypeOK
      <4> QED
        BY <2>2, <4>1, DivPeriodAssumption DEF WriteDIV, Clock, TypeOK
    <3>2. UNCHANGED <<Remaining, Period>>
      BY <2>2 DEF WriteDIV, Remaining, Period
    <3> QED
      BY <2>2, <3>1, <3>2 DEF WriteDIV, Interval!Next, Interval!ResetClock
  <2>3. CASE \E v \in Byte : WriteTIMA(v)
    BY <2>3 DEF WriteTIMA, Interval!Next, Interval!Reprogram, Clock
  <2>4. CASE \E v \in Byte : WriteTMA(v)
    BY <2>4 DEF WriteTMA, Interval!Next, Interval!Reprogram, Clock
  <2>5. CASE \E v \in Control : WriteTAC(v)
    BY <2>5 DEF WriteTAC, Interval!Next, Interval!Reprogram, Clock
  <2>6. CASE AckTimer
    <3>1. UNCHANGED <<Clock, Remaining, Period, timer_control, timer_modulo>>
      BY <2>6 DEF AckTimer, Clock, Remaining, Period
    <3> QED
      BY <2>6, <3>1 DEF AckTimer, Interval!Next, Interval!Acknowledge
  <2>7. CASE UNCHANGED vars
    BY <2>7 DEF vars, Interval!ivars, Clock, Remaining, Period
  <2> QED
    BY <2>1, <2>2, <2>3, <2>4, <2>5, <2>6, <2>7 DEF Next
<1>3. Spec => []TypeOK
  BY TypeCorrect
<1> QED
  BY <1>1, <1>2, <1>3, PTL DEF Spec, Interval!Spec, RefinesIntervalTimer

-------------------------------------------------------------------------------

\* What one enabled tick makes of the clocks held back.
LEMMA HeldBack ==
    ASSUME TypeOK, NEW c \in TickCycles, Tick(c), timer_control.enabled
    PROVE  /\ c \in Nat /\ Period \in Nat \ {0}
           /\ tima_counter_' = IF tima_counter_ + c >= Period
                               THEN tima_counter_ + c - Period
                               ELSE tima_counter_ + c
BY TickAssumption, DivPeriodAssumption, PeriodType DEF Tick, CountTima, TypeOK

\* With no backlog, the tick requests the interrupt exactly when it must.
LEMMA PunctualTick ==
    ASSUME TypeOK, NEW c \in TickCycles, Tick(c), timer_control.enabled,
           tima_counter_ < Period, c <= Period
    PROVE  /\ tima_counter_' < Period
           /\ TIMER \notin interrupt_flag =>
                (TIMER \in interrupt_flag' <=> Remaining <= c)
<1>1. tima_counter_' < Period
  BY HeldBack DEF TypeOK
<1>2. ASSUME TIMER \notin interrupt_flag
      PROVE  TIMER \in interrupt_flag' <=> Remaining <= c
  <2>1. TIMER \in interrupt_flag' <=> /\ tima_counter_ + c >= Period
                                      /\ timer_counter = ByteSize - 1
    BY <1>2 DEF Tick, CountTima, IncrementCounter
  <2>2. CASE timer_counter = ByteSize - 1
    <3>1. Remaining = Period - tima_counter_
      BY <2>2, HeldBack, ByteSizeAssumption DEF Remaining, TypeOK
    <3> QED
      BY <2>1, <2>2, <3>1, HeldBack DEF TypeOK
  <2>3. CASE timer_counter # ByteSize - 1
    <3>1. ByteSize - timer_counter - 2 \in Nat
      BY <2>3, ByteSizeAssumption DEF TypeOK
    <3>2. (ByteSize - timer_counter - 2) * Period \in Nat
      BY <3>1, HeldBack
    <3>3. (ByteSize - timer_counter) * Period
            = (ByteSize - timer_counter - 2) * Period + Period + Period
      BY HeldBack, ByteSizeAssumption DEF TypeOK
    <3>4. ~(Remaining <= c)
      BY <3>2, <3>3, HeldBack DEF Remaining, TypeOK
    <3> QED
      BY <2>1, <2>3, <3>4
  <2> QED
    BY <2>2, <2>3
<1> QED
  BY <1>1, <1>2

\* timer.cc:19-29: for every divider table, a tick no longer than the period,
\* with nothing held back, requests the interrupt exactly when it is due.
THEOREM TimerPunctual == Spec => Punctual
<1>1. TypeOK /\ [Next]_vars =>
        [\A c \in TickCycles :
           Tick(c) /\ timer_control.enabled /\ tima_counter_ < Period /\ c <= Period
           => /\ tima_counter_' < Period
              /\ TIMER \notin interrupt_flag =>
                   (TIMER \in interrupt_flag' <=> Remaining <= c)]_vars
  BY PunctualTick
<1> QED
  BY <1>1, TypeCorrect, PTL DEF Spec, Punctual

\* timer.cc:23: for every divider table, ticks no longer than the period never
\* add to a backlog.
THEOREM TimerWorksOffBacklog == Spec => BacklogNeverGrows
<1>1. TypeOK /\ [Next]_vars =>
        [\A c \in TickCycles :
           Tick(c) /\ timer_control.enabled /\ c <= Period /\ tima_counter_ >= Period
           => tima_counter_' <= tima_counter_]_vars
  BY HeldBack DEF TypeOK
<1> QED
  BY <1>1, TypeCorrect, PTL DEF Spec, BacklogNeverGrows

\* An overdue tick counts, whatever its length: the countdown stays overdue,
\* or the interrupt is requested.
LEMMA OverdueTick ==
    ASSUME TypeOK, NEW c \in TickCycles, Tick(c), timer_control.enabled, Remaining <= 0
    PROVE  \/ TIMER \in interrupt_flag'
           \/ timer_counter' = timer_counter + 1 /\ Remaining' <= 0
<1> DEFINE n == ByteSize - timer_counter - 1
<1>1. n \in Nat /\ Period \in Nat \ {0} /\ tima_counter_ \in Nat /\ c \in Nat
  BY HeldBack, ByteSizeAssumption DEF TypeOK
<1>2. n * Period \in Nat /\ (ByteSize - timer_counter) * Period = n * Period + Period
  BY <1>1, ByteSizeAssumption DEF TypeOK
<1>3. tima_counter_ + c >= Period
  BY <1>1, <1>2 DEF Remaining
<1>4. IncrementCounter
  BY <1>3 DEF Tick, CountTima
<1>5. CASE timer_counter = ByteSize - 1
  BY <1>4, <1>5 DEF IncrementCounter
<1>6. CASE timer_counter # ByteSize - 1
  <2>1. timer_counter' = timer_counter + 1 /\ interrupt_flag' = interrupt_flag
    BY <1>4, <1>6 DEF IncrementCounter
  <2>2. tima_counter_' = tima_counter_ + c - Period /\ Period' = Period
    BY <1>3, HeldBack DEF Tick, Period
  <2>3. ByteSize - timer_counter' = n
    BY <2>1, ByteSizeAssumption DEF TypeOK
  <2>4. Remaining' = n * Period - (tima_counter_ + c - Period)
    BY <2>2, <2>3 DEF Remaining
  <2> QED
    BY <1>1, <1>2, <2>1, <2>4 DEF Remaining
<1> QED
  BY <1>5, <1>6

\* timer.cc:22-29: an interrupt that is late, as after a switch to a faster
\* period, comes within as many ticks as the counter has counts left, for every
\* length of the ticks: a late countdown counts at every tick.
THEOREM LatenessIsBounded ==
    Spec => [][\A c \in TickCycles :
                 Tick(c) /\ timer_control.enabled /\ Remaining <= 0
                 => \/ TIMER \in interrupt_flag'
                    \/ timer_counter' = timer_counter + 1 /\ Remaining' <= 0]_vars
<1>1. TypeOK /\ [Next]_vars =>
        [\A c \in TickCycles :
           Tick(c) /\ timer_control.enabled /\ Remaining <= 0
           => \/ TIMER \in interrupt_flag'
              \/ timer_counter' = timer_counter + 1 /\ Remaining' <= 0]_vars
  BY OverdueTick
<1> QED
  BY <1>1, TypeCorrect, PTL DEF Spec
===============================================================================
