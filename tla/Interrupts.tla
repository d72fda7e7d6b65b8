------------------------------ MODULE Interrupts ------------------------------
(***************************************************************************)
(* The interrupt sources of src/src/interrupts.hh and the two registers    *)
(* that hold one bit per source.  A register is the set of its bits that   *)
(* are 1; it is a whole byte, so a program may also set the three bits no  *)
(* source owns (InterruptFlag::set stores the byte as it is).              *)
(***************************************************************************)
EXTENDS Naturals

\* enum class Interrupt: the bit of each source.
VBLANK   == 0
LCD_STAT == 1
TIMER    == 2
SERIAL   == 3
JOYPAD   == 4

Interrupt   == {VBLANK, LCD_STAT, TIMER, SERIAL, JOYPAD}
RegisterBit == 0 .. 7
===============================================================================
