------------------------------- MODULE TimedCpu -------------------------------
(***************************************************************************)
(* The processor with a history variable for the branch that the last      *)
(* instruction took, which tick() forgets before it returns: a step of     *)
(* NotTaken that happens to end where the branch leads is no branch.       *)
(***************************************************************************)
EXTENDS MCCpu

VARIABLE taken   \* the kind of the branch, or "none"

timed == <<vars, taken>>

TimedInit == Init /\ taken = "none"

Takes(kind) == BranchInstruction(kind) /\ taken' = kind

TakesNone ==
    /\ StraightInstruction \/ (\E w \in Word : LoadSp(w)) \/ CheckInterrupts
    /\ taken' = "none"

TimedNext ==
    \/ \E kind \in Branch : Takes(kind)
    \/ TakesNone
    \/ Devices /\ UNCHANGED taken

TimedSpec == TimedInit /\ [][TimedNext]_timed

\* cpu.cc:319-322: a tick whose instruction has branched returns the time that
\* BRANCHED_CYCLES gives for it.
BranchesTakeLonger == taken # "none" => cycles = BRANCHED_CYCLES[taken]
===============================================================================
