-------------------------------- MODULE Screen --------------------------------
(***************************************************************************)
(* What the PPU paints: write_bg_line_(), write_window_line_(),            *)
(* draw_sprites_(), set_pixel_() and get_color_() of src/src/ppu/ppu.cc,   *)
(* on top of the clockwork of Ppu, which here throws exactly when an index *)
(* is out of vram or of the frame.                                         *)
(*                                                                         *)
(* The frame, the tiles and the byte are parameters, in the proportions of *)
(* the code.  A palette is a function from colour numbers to shades, a     *)
(* sprite a record.  LCDC's obj_size and a sprite's flips have no effect:  *)
(* obj_size is never read, and a flip only changes the order in which the  *)
(* pixels of a sprite are copied, each to its own place.                   *)
(***************************************************************************)
EXTENDS Ppu

CONSTANTS
    WordSize,          \* values of a word_t; 65536
    FRAME_WIDTH_PX,    \* 160; the frame's height is SCANLINES_PER_FRAME
    TILE_LENGTH_PX,    \* 8
    Sprites,           \* entries of OAM; 40
    ScrollWrites, WindowWrites,   \* what the program stores in the registers,
    PaletteWrites,                \* as values of the variables below
    VramWrites,        \* ... in vram, as pairs <<index, byte>>
    OamWrites          \* ... in oam, as pairs <<sprite, entry>>

BYTES_PER_TILE  == 2 * TILE_LENGTH_PX
TILES_PER_LINE  == ByteSize \div TILE_LENGTH_PX
TILESET_1_START == (ByteSize \div 2) * BYTES_PER_TILE
BG_MAP_0_START  == 3 * TILESET_1_START
BG_MAP_1_START  == BG_MAP_0_START + TILES_PER_LINE * TILES_PER_LINE
VramIndex       == 0 .. BG_MAP_1_START + TILES_PER_LINE * TILES_PER_LINE - 1

Column == 0 .. FRAME_WIDTH_PX - 1
Pixel  == 0 .. FRAME_WIDTH_PX * SCANLINES_PER_FRAME - 1
InTile == 0 .. TILE_LENGTH_PX - 1
Shade  == 0 .. 3   \* Color: WHITE, LIGHT_GRAY, DARK_GRAY, BLACK
Point  == [x : Byte, y : Byte]
Entry  == [x : Byte, y : Byte, pattern : Byte, palette : {"sprite_0", "sprite_1"}]
Palettes == [{"bg", "sprite_0", "sprite_1"} -> [0 .. 3 -> 0 .. 3]]

ASSUME TilesAssumption ==
    /\ TILE_LENGTH_PX \in Nat \ {0}
    /\ ByteSize % (2 * TILE_LENGTH_PX) = 0
    /\ WordSize \in Nat
    /\ BG_MAP_1_START + TILES_PER_LINE * TILES_PER_LINE + TILESET_1_START <= WordSize
ASSUME FrameAssumption ==
    /\ FRAME_WIDTH_PX \in Nat /\ TILE_LENGTH_PX <= FRAME_WIDTH_PX
    /\ FRAME_WIDTH_PX < ByteSize /\ ByteSize + TILE_LENGTH_PX - 2 < 2 * FRAME_WIDTH_PX
    /\ SCANLINES_PER_FRAME + 2 * TILE_LENGTH_PX <= ByteSize

ASSUME ScreenWritesAssumption ==
    /\ Sprites \in Nat
    /\ RenderFaults = BOOLEAN   \* Faults, below, is the one that occurs
    /\ ScrollWrites \subseteq Point /\ WindowWrites \subseteq Point
    /\ PaletteWrites \subseteq Palettes
    /\ VramWrites \subseteq VramIndex \X Byte
    /\ OamWrites \subseteq (0 .. Sprites - 1) \X Entry

VARIABLES
    scroll, window,   \* the corners that SCX, SCY and WX, WY name
    palette, vram, oam,
    pixels,           \* frame_buffer_ in full
    shown             \* the frame that draw_fn_ was last given

memory == <<scroll, window, palette, vram, oam>>
screenVars == <<vars, memory, pixels, shown>>

White == [p \in Pixel |-> 0]

ScreenTypeOK ==
    /\ scroll \in Point
    /\ window \in Point
    /\ palette \in Palettes
    /\ vram \in [VramIndex -> Byte]
    /\ oam \in [0 .. Sprites - 1 -> Entry]
    /\ pixels \in [Pixel -> Shade]
    /\ shown \in [Pixel -> Shade]

ScreenInit ==
    /\ Init
    /\ scroll = [x |-> 0, y |-> 0]
    /\ window = [x |-> 0, y |-> 0]
    /\ palette = [which \in {"bg", "sprite_0", "sprite_1"} |-> [color \in 0 .. 3 |-> 0]]
    /\ vram = [n \in VramIndex |-> 0]
    /\ oam = [n \in 0 .. Sprites - 1 |-> [x |-> 0, y |-> 0, pattern |-> 0, palette |-> "sprite_0"]]
    /\ pixels = White
    /\ shown = White

-------------------------------------------------------------------------------
(* Tiles                                                                   *)

\* The byte of a map that stands for a tile.  An x left of the map, which the
\* code has wrapped below 0, is one column left of it after this division.
TileId(mapStart, x, y) ==
    vram[mapStart + (y \div TILE_LENGTH_PX) * TILES_PER_LINE + (x \div TILE_LENGTH_PX)]

SignedByte(byte) == IF byte < ByteSize \div 2 THEN byte ELSE byte - ByteSize

\* tile_set_addr: the second set subtracts 128 from a number that is signed
\* already.
TileSetAddr(id, y) ==
    (IF "bg_window_tile_set" \in lcd_control
     THEN id * BYTES_PER_TILE + 2 * (y % TILE_LENGTH_PX)
     ELSE TILESET_1_START + (SignedByte(id) - ByteSize \div 2) * BYTES_PER_TILE
          + 2 * (y % TILE_LENGTH_PX)) % WordSize

\* The bit of a line's byte that belongs to column x of the tile.
BitIsSet(byte, x) == (byte \div 2 ^ (TILE_LENGTH_PX - 1 - (x % TILE_LENGTH_PX))) % 2 = 1

\* The number of the colour x pixels into the line of a tile that addr points to.
ColorNumber(addr, x) ==
    (IF BitIsSet(vram[addr + 1], x) THEN 2 ELSE 0) + (IF BitIsSet(vram[addr], x) THEN 1 ELSE 0)

\* A plausible slip: the bits above the entry are not masked off.
Bug_Unmasked(color, which) ==
    palette[which][color] + (IF color = 3 THEN 0 ELSE 4 * palette[which][color + 1])

\* get_color_(): the two bits of the palette's entry come out in reverse order.
GetColor(color, which) ==
    2 * (palette[which][color] % 2) + (palette[which][color] \div 2)

-------------------------------------------------------------------------------
(* write_scanline_()                                                       *)

\* Where in its map the background, or the window, is for column x of the line.
BgPlace(x) == [x |-> (x + scroll.x) % ByteSize, y |-> (line + scroll.y) % ByteSize]
WindowPlace(x) == [x |-> x + window.x - (TILE_LENGTH_PX - 1), y |-> line - window.y]

BgMap == IF "bg_tile_map" \in lcd_control THEN BG_MAP_1_START ELSE BG_MAP_0_START
WindowMap == IF "window_tile_map" \in lcd_control THEN BG_MAP_1_START ELSE BG_MAP_0_START

\* A line above the window's corner wraps to a number beyond the frame.
OverWindow ==
    "window_enable" \in lcd_control /\ (line - window.y) \in 0 .. SCANLINES_PER_FRAME - 1

\* A plausible slip: within its tile the line is not scrolled.
Bug_UnscrolledRow(x) == TileSetAddr(TileId(BgMap, BgPlace(x).x, BgPlace(x).y), line)

\* The address in vram that column x of the line is read from.
BgAddr(x) == TileSetAddr(TileId(BgMap, BgPlace(x).x, BgPlace(x).y), BgPlace(x).y)
WindowAddr(x) ==
    TileSetAddr(TileId(WindowMap, WindowPlace(x).x, WindowPlace(x).y), WindowPlace(x).y)

InVram(addr) == addr \in VramIndex /\ addr + 1 \in VramIndex

LineFaults ==
    \E x \in Column : ~InVram(BgAddr(x)) \/ (OverWindow /\ ~InVram(WindowAddr(x)))

\* The window is painted after the background and over all of the line.
LinePixel(x) ==
    GetColor(IF OverWindow THEN ColorNumber(WindowAddr(x), WindowPlace(x).x)
                           ELSE ColorNumber(BgAddr(x), BgPlace(x).x), "bg")

WithLine ==
    [p \in Pixel |-> IF p \div FRAME_WIDTH_PX = line
                     THEN LinePixel(p % FRAME_WIDTH_PX) ELSE pixels[p]]

-------------------------------------------------------------------------------
(* draw_sprites_()                                                         *)

OnScreen(n) ==
    /\ oam[n].y > 0 /\ oam[n].y < SCANLINES_PER_FRAME + 2 * TILE_LENGTH_PX
    /\ oam[n].x > 0 /\ oam[n].x < FRAME_WIDTH_PX + TILE_LENGTH_PX

\* A plausible slip: the corner is one tile above the sprite's place, not two.
Bug_LowCorner(n, x, y) ==
    (((oam[n].y - TILE_LENGTH_PX) % ByteSize) + y) * FRAME_WIDTH_PX
    + ((oam[n].x - TILE_LENGTH_PX) % ByteSize) + x

\* The frame's index for a pixel of a sprite: the corner is a byte and wraps,
\* the sum with the pixel's place does not.
SpriteTarget(n, x, y) ==
    (((oam[n].y - 2 * TILE_LENGTH_PX) % ByteSize) + y) * FRAME_WIDTH_PX
    + ((oam[n].x - TILE_LENGTH_PX) % ByteSize) + x

SpriteFaults ==
    \E n \in DOMAIN oam, x, y \in InTile : OnScreen(n) /\ SpriteTarget(n, x, y) \notin Pixel

SpritePixel(n, x, y) ==
    GetColor(ColorNumber(oam[n].pattern * BYTES_PER_TILE + 2 * y, x), oam[n].palette)

\* The sprites' pixels that are copied to index p.
CopiedTo(p) ==
    {s \in [sprite : DOMAIN oam, x : InTile, y : InTile] :
        OnScreen(s.sprite) /\ SpriteTarget(s.sprite, s.x, s.y) = p}

\* A plausible slip: an earlier sprite is kept where a later one is in its way.
Bug_FirstSprite(p) == CHOOSE s \in CopiedTo(p) : \A other \in CopiedTo(p) : s.sprite <= other.sprite

\* The sprite that is copied there last.  No sprite copies twice to one place.
LastCopied(p) == CHOOSE s \in CopiedTo(p) : \A other \in CopiedTo(p) : s.sprite >= other.sprite

WithSprites ==
    [p \in Pixel |->
        IF "obj_enable" \in lcd_control /\ CopiedTo(p) # {}
        THEN LET s == LastCopied(p) IN SpritePixel(s.sprite, s.x, s.y)
        ELSE pixels[p]]

-------------------------------------------------------------------------------

Faults == IF mode_ = "HBLANK" THEN Rendering /\ (line \notin Row \/ LineFaults) ELSE SpriteFaults

\* tick(), with the pixels: a scanline when the hblank is over, and the frame
\* handed out and wiped at the end of the vblank.
ScreenTick(c) ==
    /\ Tick(c, Faults)
    /\ pixels' = IF frame_parity' # frame_parity THEN White
                 ELSE IF mode_ = "HBLANK" /\ mode_' # mode_ /\ Rendering THEN WithLine
                 ELSE pixels
    /\ shown' = IF frame_parity' # frame_parity THEN WithSprites ELSE shown
    /\ UNCHANGED memory

\* Cpu::write_: the registers of the clockwork, ...
WriteClockwork ==
    /\ \/ \E v \in ControlWrites : WriteControl(v)
       \/ \E v \in LineWrites : WriteLine(v)
    /\ UNCHANGED <<memory, pixels, shown>>

\* ... and what only the painting reads.
WriteMemory ==
    /\ ~thrown
    /\ \/ scroll' \in ScrollWrites /\ UNCHANGED <<window, palette, vram, oam>>
       \/ window' \in WindowWrites /\ UNCHANGED <<scroll, palette, vram, oam>>
       \/ palette' \in PaletteWrites /\ UNCHANGED <<scroll, window, vram, oam>>
       \/ /\ \E w \in VramWrites : vram' = [vram EXCEPT ![w[1]] = w[2]]
          /\ UNCHANGED <<scroll, window, palette, oam>>
       \/ /\ \E w \in OamWrites : oam' = [oam EXCEPT ![w[1]] = w[2]]
          /\ UNCHANGED <<scroll, window, palette, vram>>
    /\ UNCHANGED <<vars, pixels, shown>>

ScreenNext ==
    \/ \E c \in TickCycles : ScreenTick(c)
    \/ WriteClockwork
    \/ WriteMemory

ScreenSpec == ScreenInit /\ [][ScreenNext]_screenVars

FairScreenSpec == ScreenSpec /\ WF_screenVars(\E c \in TickCycles \ {0} : ScreenTick(c))

-------------------------------------------------------------------------------
(* What is painted, told from the screen and not from the addresses.       *)

\* The pixel at (x, y) of the picture that a map and the first 128 tiles make.
MapPixel(mapStart, x, y) ==
    GetColor(ColorNumber(TileId(mapStart, x, y) * BYTES_PER_TILE + 2 * (y % TILE_LENGTH_PX), x),
             "bg")

\* ppu.cc:161-284: a scanline shows its row of the background, scrolled on a
\* torus, or of the window, in the tiles of the first set, as registers and vram
\* are when the beam gets there, and no other row changes.  (Columns of the
\* window beyond its map are left open: they show what lies beside the map in
\* vram.  With the second set selected see TilesFromTheirSet.)
RowShowsTiles ==
    [][mode_ = "HBLANK" /\ mode_' # mode_ =>
         /\ \A p \in Pixel :
               ~Rendering \/ p \div FRAME_WIDTH_PX # line => pixels'[p] = pixels[p]
         /\ \A x \in Column :
               LET wx == x + window.x - (TILE_LENGTH_PX - 1)
                   wy == line - window.y
                   windowed == "window_enable" \in lcd_control /\ wy >= 0
               IN  Rendering /\ "bg_window_tile_set" \in lcd_control =>
                     /\ windowed /\ wx \in Byte =>
                          pixels'[line * FRAME_WIDTH_PX + x] = MapPixel(WindowMap, wx, wy)
                     /\ ~windowed =>
                          pixels'[line * FRAME_WIDTH_PX + x] =
                             MapPixel(BgMap, (x + scroll.x) % ByteSize, (line + scroll.y) % ByteSize)
      ]_screenVars

\* Where in vram ppu.hh:21 has the tiles of the set that LCDC selects.
TileSet ==
    IF "bg_window_tile_set" \in lcd_control THEN 0 .. 2 * TILESET_1_START - 1   \* 8000-8FFF
                                            ELSE TILESET_1_START .. BG_MAP_0_START - 1   \* 8800-97FF

\* What column x of the line shows is read from that set.
ReadFromSet(x) ==
    LET addr == IF OverWindow THEN WindowAddr(x) ELSE BgAddr(x)
    IN  addr \in TileSet /\ addr + 1 \in TileSet

\* ppu.hh:21, "0=8800-97FF, 1=8000-8FFF": a line that is drawn shows tiles of
\* the set that LCDC selects.
TilesFromTheirSet ==
    [][mode_ = "HBLANK" /\ mode_' # mode_ /\ Rendering =>
         \A x \in Column : ReadFromSet(x)]_screenVars

\* The pixel (x, y) of the frame is in the box of sprite n, which the hardware
\* places by the corner one sprite's length right of and two below its own.
InBox(n, x, y) ==
    /\ x + TILE_LENGTH_PX - oam[n].x \in InTile
    /\ y + 2 * TILE_LENGTH_PX - oam[n].y \in InTile

\* A sprite whose box sticks out of the frame, though not all of it.
Straddles(n) ==
    /\ OnScreen(n)
    /\ \/ oam[n].x \notin TILE_LENGTH_PX .. FRAME_WIDTH_PX
       \/ oam[n].y \notin 2 * TILE_LENGTH_PX .. SCANLINES_PER_FRAME + TILE_LENGTH_PX

\* ppu.cc:286-325: with no sprite across the border the frame handed out is
\* what the scanlines painted, but for the boxes of the sprites, where the last
\* in OAM's order shows its tile.
SpritesInTheirBoxes ==
    [][frame_parity' # frame_parity /\ ~(\E n \in DOMAIN oam : Straddles(n)) =>
         \A x \in Column, y \in Row :
            LET over == {n \in DOMAIN oam : "obj_enable" \in lcd_control /\ InBox(n, x, y)}
            IN  \/ over = {} /\ shown'[y * FRAME_WIDTH_PX + x] = pixels[y * FRAME_WIDTH_PX + x]
                \/ \E n \in over :
                      /\ \A other \in over : other <= n
                      /\ shown'[y * FRAME_WIDTH_PX + x] =
                           SpritePixel(n, x + TILE_LENGTH_PX - oam[n].x,
                                          y + 2 * TILE_LENGTH_PX - oam[n].y)
      ]_screenVars

\* The rows that a sprite reaches: a box across the left or the right border
\* goes on in the next row, one above the frame wraps to its bottom.
LeavesFrame(n) ==
    /\ OnScreen(n)
    /\ \/ oam[n].y < 2 * TILE_LENGTH_PX
       \/ oam[n].y - TILE_LENGTH_PX - 1
          + (IF oam[n].x \in TILE_LENGTH_PX .. FRAME_WIDTH_PX THEN 0 ELSE 1) >= SCANLINES_PER_FRAME

\* ppu.cc:161-325: while the background is drawn from the first tile set
\* the program is ended by drawing in two cases and no other: LINE is set beyond
\* the frame, or a sprite reaches over the top or the bottom of the frame (by
\* the sides only in the last row).
ThrowsExactly ==
    [][\A c \in TickCycles :
         ScreenTick(c) /\ (mode_ = "HBLANK" => "bg_window_tile_set" \in lcd_control) =>
         (thrown' <=>
            /\ cycles_elapsed_ + c >= Limit
            /\ \/ mode_ = "HBLANK" /\ Rendering /\ line >= SCANLINES_PER_FRAME
               \/ /\ mode_ = "VBLANK" /\ NextLine = SCANLINES
                  /\ "obj_enable" \in lcd_control
                  /\ \E n \in DOMAIN oam : LeavesFrame(n))]_screenVars
===============================================================================
