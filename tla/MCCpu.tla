-------------------------------- MODULE MCCpu ---------------------------------
(***************************************************************************)
(* A processor of four addresses for TLC: two of Ram and the two interrupt *)
(* registers, so that the stack runs into the registers and around the end *)
(* of memory.  The byte 1 has the bits of two sources and one of no source.*)
(***************************************************************************)
EXTENDS Cpu

MCVector == [i \in Interrupt |-> IF i = VBLANK THEN 1 ELSE 2]
MCBitsOf == [b \in Byte |-> IF b = 0 THEN {} ELSE {VBLANK, TIMER, 5}]
MCRequests == {VBLANK, TIMER}
===============================================================================
