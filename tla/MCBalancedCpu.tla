---------------------------- MODULE MCBalancedCpu -----------------------------
(***************************************************************************)
(* Nine addresses, four of them the room of two words: a call that is      *)
(* interrupted, an interrupt that calls, an interrupt in a handler.  One     *)
(* source: the order of several is MCCpu's question.                       *)
(***************************************************************************)
EXTENDS BalancedCpu

MCVector == [i \in Interrupt |-> IF i = TIMER THEN 3 ELSE 6]
MCBitsOf == [b \in Byte |-> IF b = 1 THEN {TIMER} ELSE {}]
MCRequests == {TIMER}
===============================================================================
