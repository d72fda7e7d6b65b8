-------------------------------- MODULE MCPpu ---------------------------------
(***************************************************************************)
(* A small frame for TLC: two visible lines, a vblank of two, modes of 2,  *)
(* 3 and 2 clocks, ticks of 1 and 2.  A tick may thus end a mode exactly   *)
(* or run over it by one clock, and a byte has values beyond the frame.    *)
(***************************************************************************)
EXTENDS Ppu

AllFlags == {"lcd_enable", "window_enable", "obj_enable", "bg_window_enable"}

MCControlWrites == {{}, {"lcd_enable"}, AllFlags}
MCStatusWrites  ==
    [interrupt_on : {{}, {"ly_lyc_coincide"}, {"hblank", "vblank"}},
     ly_lyc_coincide : {FALSE}, mode : {0, 2}]
===============================================================================
