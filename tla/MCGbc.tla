-------------------------------- MODULE MCGbc ---------------------------------
(***************************************************************************)
(* A machine of two lines for TLC, with instructions of no time and of one *)
(* cycle of two clocks.  Every mode of the screen lasts one such           *)
(* instruction or more; one key, and two events waiting at most: a press   *)
(* and its release, or a close behind either.                              *)
(***************************************************************************)
EXTENDS Gbc

MCDIVIDERS   == [s \in 0 .. 3 |-> 2]
MCControls   == {[enabled |-> TRUE, select |-> 0]}
MCSelections == {{}, {"action"}}
===============================================================================
