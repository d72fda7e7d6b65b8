---------------------------- MODULE IntervalTimer -----------------------------
(***************************************************************************)
(* What a programmer expects of the timer, without registers or            *)
(* prescalers: a clock that counts every cycle modulo Horizon, and a       *)
(* countdown that raises a request when it has run out and starts again    *)
(* from `reload`.  The request may be late, and then the clocks by which   *)
(* it was late count for the next one; it is never early.                  *)
(***************************************************************************)
EXTENDS Integers

CONSTANTS
    Horizon,     \* the clock counts modulo this
    TickCycles   \* clocks that may pass in one step

VARIABLES clock, enabled, remaining, reload, pending

ivars == <<clock, enabled, remaining, reload, pending>>

Init ==
    /\ clock = 0
    /\ ~enabled
    /\ remaining > 0
    /\ ~pending

Advance(c) ==
    /\ clock' \in 0 .. Horizon - 1
    /\ clock' = clock + c \/ clock' = clock + c - Horizon

\* c clocks pass and the countdown goes on, or is not running.
Pass(c) ==
    /\ Advance(c)
    /\ remaining' = IF enabled THEN remaining - c ELSE remaining
    /\ UNCHANGED <<enabled, reload, pending>>

\* c clocks pass and the countdown has run out.
Expire(c) ==
    /\ enabled
    /\ remaining <= c
    /\ Advance(c)
    /\ remaining' = remaining - c + reload
    /\ pending' = TRUE
    /\ UNCHANGED <<enabled, reload>>

\* The programmer moves the clock back ...
ResetClock ==
    /\ clock' \in 0 .. clock
    /\ UNCHANGED <<enabled, remaining, reload, pending>>

\* ... or sets the countdown, its reload or its rate to anything.
Reprogram == UNCHANGED <<clock, pending>>

Acknowledge ==
    /\ pending
    /\ ~pending'
    /\ UNCHANGED <<clock, enabled, remaining, reload>>

Next ==
    \/ \E c \in TickCycles : Pass(c) \/ Expire(c)
    \/ ResetClock
    \/ Reprogram
    \/ Acknowledge

Spec == Init /\ [][Next]_ivars
===============================================================================
