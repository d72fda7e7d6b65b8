------------------------------- MODULE MCScreen -------------------------------
(***************************************************************************)
(* A screen of 5 by 2 pixels for TLC, in the proportions of the code: tiles *)
(* of 2 by 2 pixels on a map of 8 by 8, so that a byte has values beyond   *)
(* the frame, a sprite may straddle every border, and both maps and both   *)
(* tile sets fit into 80 bytes of vram.  The program has prepared vram and *)
(* OAM in one of a few ways while the display was off and a frame begins;  *)
(* from then on it makes at most MaxWrites writes, at any moments.         *)
(***************************************************************************)
EXTENDS Screen

CONSTANT MaxWrites

VARIABLE writes

On == {"lcd_enable", "bg_window_enable", "bg_window_tile_set"}
MCControlWrites ==
    {{}, On, (On \ {"bg_window_tile_set"}) \cup {"window_enable"},
     On \cup {"bg_tile_map", "obj_enable"},
     On \cup {"window_enable", "window_tile_map", "obj_enable"}}

MCScrollWrites == {[x |-> 0, y |-> 0], [x |-> 5, y |-> 7]}
MCWindowWrites == {[x |-> 1, y |-> 0], [x |-> 0, y |-> 1], [x |-> 6, y |-> 0]}

Identity == [color \in 0 .. 3 |-> color]
Reverse  == [color \in 0 .. 3 |-> 3 - color]
MCPalette == [bg |-> Identity, sprite_0 |-> Reverse, sprite_1 |-> Identity]
MCPaletteWrites == {[MCPalette EXCEPT !.bg = Reverse]}

\* Tiles that all differ; maps of the first two tiles, one of them with a tile
\* of the second half.
MCVram ==
    [n \in VramIndex |->
        IF n < BG_MAP_0_START THEN (n + n \div 3) % 4
        ELSE IF n = BG_MAP_1_START + 1 THEN 5
        ELSE (n + n \div 5) % 3]
MCVramWrites == {<<0, 3>>, <<BG_MAP_0_START + 1, 6>>}

At(x, y, pattern) == [x |-> x, y |-> y, pattern |-> pattern, palette |-> "sprite_0"]
\* Inside, overlapping, hidden, across each of the four borders and a corner.
MCSprites == {<<At(3, 4, 1), At(4, 4, 6)>>, <<At(4, 4, 6), At(3, 4, 1)>>, <<At(0, 4, 1), At(3, 4, 2)>>,
              <<At(1, 4, 2), At(5, 4, 1)>>, <<At(2, 4, 5), At(6, 4, 3)>>, <<At(3, 3, 1), At(0, 0, 0)>>,
              <<At(3, 4, 1), At(3, 5, 1)>>, <<At(6, 5, 3), At(2, 6, 1)>>}
MCOamWrites == {<<1, [At(3, 4, 7) EXCEPT !.palette = "sprite_1"]>>, <<1, At(2, 5, 3)>>}

MCInit ==
    /\ mode_ = "READ_OAM"
    /\ cycles_elapsed_ = 0
    /\ line = 0
    /\ ly_compare = 0
    /\ lcd_control \in MCControlWrites
    /\ lcd_status = [interrupt_on |-> {}, ly_lyc_coincide |-> FALSE, mode |-> 2]
    /\ frame_buffer_ = Blank
    /\ frame_parity = 0
    /\ thrown = FALSE
    /\ interrupt_flag = {}
    /\ scroll \in MCScrollWrites
    /\ window \in MCWindowWrites
    /\ palette = MCPalette
    /\ vram = MCVram
    /\ \E entries \in MCSprites : oam = [n \in 0 .. Sprites - 1 |-> entries[n + 1]]
    /\ pixels = White
    /\ shown = White
    /\ writes = 0

MCTick == (\E c \in TickCycles : ScreenTick(c)) /\ UNCHANGED writes
MCWrite == writes < MaxWrites /\ (WriteClockwork \/ WriteMemory) /\ writes' = writes + 1

MCSpec ==
    /\ MCInit
    /\ [][MCTick \/ MCWrite]_<<screenVars, writes>>
    /\ WF_<<screenVars, writes>>(MCTick)
===============================================================================
