------------------------------ MODULE CallStack -------------------------------
(***************************************************************************)
(* What a program counts on when it calls, returns and lets itself be      *)
(* interrupted: a stack of whole words that only these steps touch.        *)
(***************************************************************************)
EXTENDS Integers, Sequences

CONSTANTS
    Word,        \* 0 .. some power of two - 1
    WordSize,
    Interrupt,   \* the sources, in the order they are served
    Vector       \* where each one's handler begins

VARIABLES
    pc,
    frames,      \* the words on the stack, the last one on top
    enabled,     \* interrupts are enabled
    pending      \* the requests

cvars == <<pc, frames, enabled, pending>>

Init == pc = 0 /\ frames = <<>> /\ ~enabled

\* The address behind an instruction of at most three bytes.
Behind == {(pc + n) % WordSize : n \in 0 .. 3}

\* Whatever leaves the stack alone.
Run == UNCHANGED frames

\* A word is saved, and the program goes on with the next instruction ...
Save == /\ \E w \in Word : frames' = Append(frames, w)
        /\ pc' \in Behind
        /\ UNCHANGED enabled

\* ... and is restored.
Restore == /\ frames # <<>>
           /\ frames' = SubSeq(frames, 1, Len(frames) - 1)
           /\ pc' \in Behind
           /\ UNCHANGED <<enabled, pending>>

\* The address behind the call is what the call saves ...
Call == /\ \E w \in Behind : frames' = Append(frames, w)
        /\ UNCHANGED enabled

\* ... and where the return goes on.
Return == /\ frames # <<>>
          /\ pc' = frames[Len(frames)]
          /\ frames' = SubSeq(frames, 1, Len(frames) - 1)
          /\ enabled => enabled'
          /\ UNCHANGED pending

\* A handler is entered with interrupts disabled; its return will go on with
\* the very instruction that was to come.
Serve(i) == /\ enabled
            /\ i \in pending
            /\ frames' = Append(frames, pc)
            /\ pc' = Vector[i]
            /\ ~enabled'
            /\ pending' = pending \ {i}

Next ==
    \/ Run
    \/ Save
    \/ Restore
    \/ Call
    \/ Return
    \/ \E i \in Interrupt : Serve(i)

Spec == Init /\ [][Next]_cvars
===============================================================================
