------------------------------- MODULE MCTimer --------------------------------
(***************************************************************************)
(* A small timer for TLC.  The fastest clock select is shorter than the    *)
(* longest tick, as in the program (16 clocks against 24), so backlogs     *)
(* happen; MaxBacklog leaves room for the slowest period and several of    *)
(* the fastest.                                                            *)
(***************************************************************************)
EXTENDS Timer

MCDIVIDERS == [s \in 0 .. 3 |-> CASE s = 0 -> 5 [] s = 1 -> 2 [] s = 2 -> 3 [] OTHER -> 4]
===============================================================================
