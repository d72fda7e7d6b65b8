-------------------------------- MODULE Timer ---------------------------------
(***************************************************************************)
(* The divider and the interval timer: src/src/timer.hh, src/src/timer.cc, *)
(* and the writes that Cpu::write_ makes to its four registers.            *)
(*                                                                         *)
(* The program's byte (256 values), the divider's prescaler (256 clocks)   *)
(* and the four entries of DIVIDERS are constants: TLC takes small ones,   *)
(* the theorems of TimerProofs hold for all of them.                       *)
(***************************************************************************)
EXTENDS Integers, Interrupts

CONSTANTS
    ByteSize,    \* values of a ByteRegister; 256 in the program
    DivPeriod,   \* clocks per increment of the divider; 256 in the program
    DIVIDERS,    \* clocks per increment of timer_counter, by clock select
    TickCycles,  \* what tick() may be given: 4 * the cycles of an instruction
    MaxBacklog   \* bound of the model: tima_counter_ stays at most this

ASSUME ByteSizeAssumption  == ByteSize \in Nat \ {0}
ASSUME DivPeriodAssumption == DivPeriod \in Nat \ {0}
ASSUME DividersAssumption  == DIVIDERS \in [0 .. 3 -> Nat \ {0}]
\* The longest instruction, 24 clocks, is shorter than the divider's period.
ASSUME TickAssumption      == TickCycles \subseteq 0 .. DivPeriod
ASSUME BacklogAssumption   == MaxBacklog \in Nat

VARIABLES
    divider,             \* 0xFF04
    timer_counter,       \* 0xFF05
    timer_modulo,        \* 0xFF06
    timer_control,       \* 0xFF07: bit 2 and bits 1-0
    div_cycle_counter_,
    tima_counter_,
    interrupt_flag       \* Cpu::interrupt_flag, which the callback reaches

vars == <<divider, timer_counter, timer_modulo, timer_control,
          div_cycle_counter_, tima_counter_, interrupt_flag>>

Byte    == 0 .. ByteSize - 1
Control == [enabled : BOOLEAN, select : 0 .. 3]

TypeOK ==
    /\ divider \in Byte
    /\ timer_counter \in Byte
    /\ timer_modulo \in Byte
    /\ timer_control \in Control
    /\ div_cycle_counter_ \in 0 .. DivPeriod - 1
    /\ tima_counter_ \in Nat
    /\ interrupt_flag \subseteq RegisterBit

Init ==
    /\ divider = 0
    /\ timer_counter = 0
    /\ timer_modulo = 0
    /\ timer_control = [enabled |-> FALSE, select |-> 0]
    /\ div_cycle_counter_ = 0
    /\ tima_counter_ = 0
    /\ interrupt_flag = {}

-------------------------------------------------------------------------------
(* tick()                                                                  *)

\* A plausible slip: the mask that keeps the remainder is forgotten.
Bug_NoMask(c) ==
    LET total == div_cycle_counter_ + c IN
    /\ divider' = IF total >= DivPeriod THEN (divider + 1) % ByteSize ELSE divider
    /\ div_cycle_counter_' = total

\* The first half of tick(): the prescaler and the divider.
CountDivider(c) ==
    LET total == div_cycle_counter_ + c IN
    /\ divider' = IF total >= DivPeriod THEN (divider + 1) % ByteSize ELSE divider
    /\ div_cycle_counter_' = total % DivPeriod

\* The clocks between two increments of timer_counter.
Period == DIVIDERS[timer_control.select]

\* Plausible slips: the reload comes one increment early ...
Bug_EarlyOverflow ==
    IF timer_counter >= ByteSize - 2
    THEN /\ timer_counter' = timer_modulo
         /\ interrupt_flag' = interrupt_flag \cup {TIMER}
    ELSE /\ timer_counter' = timer_counter + 1
         /\ UNCHANGED interrupt_flag

\* ... or the counter wraps to 0 without the request.
Bug_SilentWrap ==
    /\ timer_counter' = (timer_counter + 1) % ByteSize
    /\ UNCHANGED interrupt_flag

\* timer_counter reaches its end: reload it and request the interrupt.
IncrementCounter ==
    IF timer_counter = ByteSize - 1
    THEN /\ timer_counter' = timer_modulo
         /\ interrupt_flag' = interrupt_flag \cup {TIMER}
    ELSE /\ timer_counter' = timer_counter + 1
         /\ UNCHANGED interrupt_flag

\* Plausible slips: a strict comparison, or a reset instead of a subtraction.
Bug_StrictCompare(c) ==
    IF ~timer_control.enabled
    THEN UNCHANGED <<tima_counter_, timer_counter, interrupt_flag>>
    ELSE IF tima_counter_ + c > Period
         THEN /\ tima_counter_' = tima_counter_ + c - Period
              /\ IncrementCounter
         ELSE /\ tima_counter_' = tima_counter_ + c
              /\ UNCHANGED <<timer_counter, interrupt_flag>>

Bug_AddTwice(c) ==
    IF ~timer_control.enabled
    THEN UNCHANGED <<tima_counter_, timer_counter, interrupt_flag>>
    ELSE IF tima_counter_ + c >= Period
         THEN /\ tima_counter_' = tima_counter_ + c
              /\ IncrementCounter
         ELSE /\ tima_counter_' = tima_counter_ + c
              /\ UNCHANGED <<timer_counter, interrupt_flag>>

\* The second half: one `if`, so at most one increment however many periods
\* the clocks held back in tima_counter_ amount to.
CountTima(c) ==
    IF ~timer_control.enabled
    THEN UNCHANGED <<tima_counter_, timer_counter, interrupt_flag>>
    ELSE IF tima_counter_ + c >= Period
         THEN /\ tima_counter_' = tima_counter_ + c - Period
              /\ IncrementCounter
         ELSE /\ tima_counter_' = tima_counter_ + c
              /\ UNCHANGED <<timer_counter, interrupt_flag>>

Tick(c) ==
    /\ CountDivider(c)
    /\ CountTima(c)
    /\ UNCHANGED <<timer_modulo, timer_control>>

-------------------------------------------------------------------------------
(* The registers as the CPU writes them, and its acknowledgement.          *)

\* Any value written to DIV clears it; the prescaler keeps its clocks.
WriteDIV ==
    /\ divider' = 0
    /\ UNCHANGED <<timer_counter, timer_modulo, timer_control,
                   div_cycle_counter_, tima_counter_, interrupt_flag>>

WriteTIMA(v) ==
    /\ timer_counter' = v
    /\ UNCHANGED <<divider, timer_modulo, timer_control,
                   div_cycle_counter_, tima_counter_, interrupt_flag>>

WriteTMA(v) ==
    /\ timer_modulo' = v
    /\ UNCHANGED <<divider, timer_counter, timer_control,
                   div_cycle_counter_, tima_counter_, interrupt_flag>>

\* The clocks already in tima_counter_ are kept, whatever the new period is.
WriteTAC(v) ==
    /\ timer_control' = v
    /\ UNCHANGED <<divider, timer_counter, timer_modulo,
                   div_cycle_counter_, tima_counter_, interrupt_flag>>

AckTimer ==
    /\ TIMER \in interrupt_flag
    /\ interrupt_flag' = interrupt_flag \ {TIMER}
    /\ UNCHANGED <<divider, timer_counter, timer_modulo, timer_control,
                   div_cycle_counter_, tima_counter_>>

Next ==
    \/ \E c \in TickCycles : Tick(c) /\ tima_counter_' <= MaxBacklog
    \/ WriteDIV
    \/ \E v \in Byte : WriteTIMA(v)
    \/ \E v \in Byte : WriteTMA(v)
    \/ \E v \in Control : WriteTAC(v)
    \/ AckTimer

Spec == Init /\ [][Next]_vars

\* Gbc::run() calls tick() after every instruction, for ever.
FairSpec == Spec /\ WF_vars(\E c \in TickCycles \ {0} : Tick(c) /\ tima_counter_' <= MaxBacklog)

-------------------------------------------------------------------------------
(* What the timer promises.                                                *)

\* The clocks still to come before timer_counter overflows, at the present
\* rate; at or below 0 when the overflow is overdue.
Remaining == (ByteSize - timer_counter) * Period - tima_counter_

\* The clocks the divider has seen, modulo its range.
Clock == divider * DivPeriod + div_cycle_counter_

Interval == INSTANCE IntervalTimer WITH
    Horizon   <- ByteSize * DivPeriod,
    clock     <- Clock,
    enabled   <- timer_control.enabled,
    remaining <- Remaining,
    reload    <- (ByteSize - timer_modulo) * Period,
    pending   <- TIMER \in interrupt_flag

\* timer.cc tick(): every step of the timer is a step of an interval timer
\* that loses no clock: none of the divider's, none of the countdown's across
\* an overflow, and never an interrupt before the countdown has run out.
RefinesIntervalTimer == Interval!Spec

\* timer.cc:19-29: while no tick is longer than the period and no clocks are
\* held back, the request comes in the very tick in which the countdown ends.
Punctual ==
    [][\A c \in TickCycles :
         Tick(c) /\ timer_control.enabled /\ tima_counter_ < Period /\ c <= Period
         => /\ tima_counter_' < Period
            /\ TIMER \notin interrupt_flag =>
                 (TIMER \in interrupt_flag' <=> Remaining <= c)]_vars

\* timer.cc:23 is an `if`: what a long tick or a switch to a faster clock
\* leaves over a period is worked off, never added to, by ticks no longer
\* than the period.
BacklogNeverGrows ==
    [][\A c \in TickCycles :
         Tick(c) /\ timer_control.enabled /\ c <= Period /\ tima_counter_ >= Period
         => tima_counter_' <= tima_counter_]_vars

\* timer.cc:19-29 and gbc.cc:78-83: a timer that stays enabled, whose counter
\* the program stops writing, requests its interrupt again and again.
KeepsInterrupting ==
    (<>[](timer_control.enabled) /\ <>[][~\E v \in Byte : WriteTIMA(v) /\ timer_counter # v]_vars
                                 /\ []<>(TIMER \notin interrupt_flag))
    => []<>(TIMER \in interrupt_flag)
===============================================================================
