------------------------------- MODULE LcdClock -------------------------------
(***************************************************************************)
(* The timing a program may count on: a beam that moves over the frame     *)
(* with the clock and never gains or loses a clock, one vblank request as  *)
(* it passes the last visible line, and one frame shown as it starts over. *)
(***************************************************************************)
EXTENDS Integers

CONSTANTS
    VisibleClocks,   \* clocks of the visible lines
    FrameClocks,     \* clocks of a whole frame
    TickCycles       \* clocks that may pass in one step

VARIABLES beam, vblank, shown   \* shown: frames shown so far, modulo 2

lvars == <<beam, vblank, shown>>

Init == beam = 0 /\ ~vblank /\ shown = 0

\* The beam stays on its way and passes neither mark.
Move(c) ==
    /\ beam' = beam + c
    /\ beam' < VisibleClocks \/ beam >= VisibleClocks
    /\ beam' < FrameClocks
    /\ UNCHANGED <<vblank, shown>>

EnterVblank(c) ==
    /\ beam < VisibleClocks
    /\ beam' = beam + c
    /\ beam' >= VisibleClocks
    /\ vblank' = TRUE
    /\ UNCHANGED shown

ShowFrame(c) ==
    /\ beam' = beam + c - FrameClocks
    /\ beam' >= 0
    /\ shown' = 1 - shown
    /\ UNCHANGED vblank

Acknowledge == vblank /\ ~vblank' /\ UNCHANGED <<beam, shown>>

Next ==
    \/ \E c \in TickCycles : Move(c) \/ EnterVblank(c) \/ ShowFrame(c)
    \/ Acknowledge

Spec == Init /\ [][Next]_lvars
===============================================================================
