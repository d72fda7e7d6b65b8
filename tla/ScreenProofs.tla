----------------------------- MODULE ScreenProofs -----------------------------
(***************************************************************************)
(* Theorems about Screen for every size of the frame, the tiles and the    *)
(* byte in the code's proportions, and whatever the program stores: when   *)
(* drawing throws, and what a row and a frame show.                        *)
(***************************************************************************)
EXTENDS Screen, PpuProofs, FiniteSetTheorems, WellFoundedInduction

-------------------------------------------------------------------------------
(* Division and the sizes of vram.                                         *)

\* A larger factor gives a larger product.
LEMMA TimesGrows ==
    ASSUME NEW a \in Int, NEW b \in Int, NEW d \in Nat, a <= b
    PROVE  a * d <= b * d
<1>1. (b - a) * d >= 0
  OBVIOUS
<1> QED
  BY <1>1

\* Quotient and remainder.
LEMMA Division ==
    ASSUME NEW n \in Int, NEW d \in Nat \ {0}
    PROVE  /\ n \div d \in Int
           /\ n % d \in 0 .. d - 1
           /\ n = (n \div d) * d + (n % d)
OBVIOUS

\* Bounds of a quotient from bounds of the dividend.
LEMMA QuotientBounds ==
    ASSUME NEW n \in Int, NEW d \in Nat \ {0}, NEW q \in Int
    PROVE  /\ n < q * d => n \div d < q
           /\ q * d <= n => q <= n \div d
<1> DEFINE p == n \div d
<1>1. p \in Int /\ p * d <= n /\ n < p * d + d
  BY Division
<1> HIDE DEF p
<1>2. ASSUME n < q * d PROVE p < q
  <2> SUFFICES ASSUME q <= p PROVE FALSE
    BY <1>1
  <2>1. q * d <= p * d
    BY <1>1, TimesGrows
  <2>2. q * d \in Int /\ p * d \in Int
    BY <1>1
  <2> QED
    BY <1>1, <1>2, <2>1, <2>2
<1>3. ASSUME q * d <= n PROVE q <= p
  <2> SUFFICES ASSUME p + 1 <= q PROVE FALSE
    BY <1>1
  <2>1. (p + 1) * d <= q * d
    BY <1>1, TimesGrows
  <2>2. (p + 1) * d = p * d + d
    BY <1>1
  <2>3. q * d \in Int /\ p * d \in Int
    BY <1>1
  <2> QED
    BY <1>1, <1>3, <2>1, <2>2, <2>3
<1> QED
  BY <1>2, <1>3 DEF p

\* The tile a pixel is in, from bounds in pixels.
LEMMA TileBounds ==
    ASSUME NEW n \in Int, NEW first \in Int, NEW end \in Int,
           first * TILE_LENGTH_PX <= n, n < end * TILE_LENGTH_PX
    PROVE  /\ n \div TILE_LENGTH_PX \in Int
           /\ first <= n \div TILE_LENGTH_PX
           /\ n \div TILE_LENGTH_PX < end
<1>1. TILE_LENGTH_PX \in Nat \ {0}
  BY TilesAssumption
<1>2. n \div TILE_LENGTH_PX \in Int
  BY <1>1
<1>3. first <= n \div TILE_LENGTH_PX
  BY <1>1, QuotientBounds
<1>4. n \div TILE_LENGTH_PX < end
  BY <1>1, QuotientBounds
<1> QED
  BY <1>2, <1>3, <1>4

\* Dividing a multiple.
LEMMA ExactQuotient ==
    ASSUME NEW d \in Nat \ {0}, NEW q \in Int
    PROVE  (q * d) \div d = q
<1> DEFINE n == q * d
<1>1. n \in Int /\ n < (q + 1) * d /\ q * d <= n
  OBVIOUS
<1> HIDE DEF n
<1> DEFINE next == q + 1
<1>2. next \in Int /\ n < next * d
  BY <1>1
<1> HIDE DEF next
<1>3. n \div d < next /\ q <= n \div d /\ n \div d \in Int
  BY <1>1, <1>2, QuotientBounds, Division
<1>4. n \div d = q
  BY <1>3 DEF next
<1> QED
  BY <1>4 DEF n

\* The tiles of a set, and the bytes of a map.
Half == ByteSize \div 2
MapSize == TILES_PER_LINE * TILES_PER_LINE

\* A map's side is a byte's worth of pixels, a tile set half a byte's worth of
\* tiles, and vram three half sets and two maps.
LEMMA Sizes ==
    /\ TILE_LENGTH_PX \in Nat \ {0}
    /\ ByteSize \in Nat \ {0}
    /\ Half \in Nat \ {0}
    /\ ByteSize = 2 * Half
    /\ TILES_PER_LINE \in Nat \ {0}
    /\ TILES_PER_LINE * TILE_LENGTH_PX = ByteSize
    /\ BYTES_PER_TILE \in Nat \ {0}
    /\ BYTES_PER_TILE = 2 * TILE_LENGTH_PX
    /\ TILESET_1_START \in Nat \ {0}
    /\ TILESET_1_START = Half * BYTES_PER_TILE
    /\ MapSize \in Nat
    /\ BG_MAP_0_START = 3 * TILESET_1_START
    /\ BG_MAP_1_START = 3 * TILESET_1_START + MapSize
    /\ VramIndex = 0 .. 3 * TILESET_1_START + 2 * MapSize - 1
    /\ WordSize \in Nat
    /\ 4 * TILESET_1_START + 2 * MapSize <= WordSize
<1> DEFINE t == TILE_LENGTH_PX
           q == ByteSize \div (2 * t)
<1>1. t \in Nat \ {0} /\ ByteSize \in Nat \ {0} /\ ByteSize % (2 * t) = 0
  BY TilesAssumption, LinesAssumption DEF SCANLINES
<1>2. 2 * t \in Nat \ {0}
  BY <1>1
<1>3. q \in Int /\ ByteSize = q * (2 * t)
  <2> DEFINE d == 2 * t
  <2>1. d \in Nat \ {0} /\ ByteSize \in Int /\ ByteSize % d = 0
    BY <1>1, <1>2
  <2> HIDE DEF d
  <2>2. ByteSize \div d \in Int /\ ByteSize = (ByteSize \div d) * d + 0
    BY <2>1, Division
  <2>3. (ByteSize \div d) * d \in Int
    BY <2>1, <2>2
  <2> QED
    BY <2>2, <2>3 DEF d
<1> HIDE DEF t, q
<1>4. q \in Nat \ {0}
  <2>1. ASSUME q <= 0 PROVE FALSE
    <3>1. q * (2 * t) <= 0 * (2 * t)
      BY <1>2, <1>3, <2>1, TimesGrows
    <3> QED
      BY <1>1, <1>2, <1>3, <3>1
  <2> QED
    BY <1>3, <2>1
<1>5. q * t \in Nat \ {0} /\ ByteSize = (q * t) * 2 /\ ByteSize = (2 * q) * t
  BY <1>1, <1>3, <1>4
<1>6. Half = q * t
  <2>1. ((q * t) * 2) \div 2 = q * t
    BY <1>5, ExactQuotient
  <2> QED
    BY <1>5, <2>1 DEF Half
<1>7. TILES_PER_LINE = 2 * q
  <2>1. ((2 * q) * t) \div t = 2 * q
    BY <1>1, <1>4, ExactQuotient
  <2> QED
    BY <1>5, <2>1 DEF TILES_PER_LINE, t
<1>8. BYTES_PER_TILE = 2 * t /\ BYTES_PER_TILE \in Nat \ {0}
  BY <1>1 DEF BYTES_PER_TILE, t
<1>9. TILESET_1_START = Half * BYTES_PER_TILE
  BY DEF TILESET_1_START, Half
<1>10. TILESET_1_START \in Nat \ {0}
  BY <1>5, <1>6, <1>8, <1>9
<1>11. MapSize \in Nat
  BY <1>4, <1>7 DEF MapSize
<1>12. /\ BG_MAP_0_START = 3 * TILESET_1_START
       /\ BG_MAP_1_START = 3 * TILESET_1_START + MapSize
       /\ VramIndex = 0 .. 3 * TILESET_1_START + 2 * MapSize - 1
  <2>1. BG_MAP_0_START = 3 * TILESET_1_START /\ BG_MAP_1_START = BG_MAP_0_START + MapSize
    BY DEF BG_MAP_0_START, BG_MAP_1_START, MapSize
  <2>2. VramIndex = 0 .. BG_MAP_1_START + MapSize - 1
    BY DEF VramIndex, MapSize
  <2> QED
    BY <1>10, <1>11, <2>1, <2>2
<1>13. WordSize \in Nat /\ BG_MAP_1_START + MapSize + TILESET_1_START <= WordSize
  BY TilesAssumption DEF MapSize
<1> QED
  BY <1>1, <1>4, <1>5, <1>6, <1>7, <1>8, <1>9, <1>10, <1>11, <1>12, <1>13 DEF t

-------------------------------------------------------------------------------
(* Addresses in vram.                                                      *)

\* Numbers below a positive bound are not changed by the modulus.
LEMMA ModuloBelow ==
    ASSUME NEW d \in Nat \ {0}, NEW n \in Int, -d <= n, n < d
    PROVE  n % d = IF n < 0 THEN n + d ELSE n
<1>1. n \div d \in Int /\ n % d \in 0 .. d - 1 /\ n = (n \div d) * d + (n % d)
  BY Division
<1>2. n < 0 => n \div d = -1
  <2>1. (n < 0 * d /\ (-1) * d <= n) \/ n >= 0
    OBVIOUS
  <2>2. n < 0 => n \div d < 0 /\ -1 <= n \div d
    BY <2>1, QuotientBounds
  <2> QED
    BY <1>1, <2>2
<1>3. n >= 0 => n \div d = 0
  <2>1. (n < 1 * d /\ 0 * d <= n) \/ n < 0
    OBVIOUS
  <2>2. n >= 0 => n \div d < 1 /\ 0 <= n \div d
    BY <2>1, QuotientBounds
  <2> QED
    BY <1>1, <2>2
<1> QED
  BY <1>1, <1>2, <1>3

\* The tiles of the first set are in vram under their own numbers, whichever
\* set is selected; those from Half on are not, if it is the second.
LEMMA TileAddress ==
    ASSUME NEW id \in Byte, NEW y \in Int
    PROVE  IF "bg_window_tile_set" \in lcd_control \/ id < Half
           THEN /\ TileSetAddr(id, y) = id * BYTES_PER_TILE + 2 * (y % TILE_LENGTH_PX)
                /\ InVram(TileSetAddr(id, y))
           ELSE ~InVram(TileSetAddr(id, y))
<1> DEFINE start == id * BYTES_PER_TILE
           row   == 2 * (y % TILE_LENGTH_PX)
<1>1. /\ row \in 0 .. BYTES_PER_TILE - 2
      /\ id \in Int /\ 0 <= id /\ id <= 2 * Half - 1
  BY Sizes, Division DEF Byte
<1>2. /\ start \in Int
      /\ 0 <= start
      /\ start <= 2 * TILESET_1_START - BYTES_PER_TILE
      /\ id < Half => start <= TILESET_1_START - BYTES_PER_TILE
      /\ Half <= id => TILESET_1_START <= start
  <2>1. /\ 0 * BYTES_PER_TILE <= start
        /\ start <= (2 * Half - 1) * BYTES_PER_TILE
    BY <1>1, Sizes, TimesGrows
  <2>2. id < Half => start <= (Half - 1) * BYTES_PER_TILE
    BY <1>1, Sizes, TimesGrows
  <2>3. Half <= id => Half * BYTES_PER_TILE <= start
    BY <1>1, Sizes, TimesGrows
  <2>4. /\ (2 * Half - 1) * BYTES_PER_TILE = 2 * (Half * BYTES_PER_TILE) - BYTES_PER_TILE
        /\ (Half - 1) * BYTES_PER_TILE = Half * BYTES_PER_TILE - BYTES_PER_TILE
    BY Sizes
  <2>5. start \in Int
    BY <1>1, Sizes
  <2> QED
    BY <2>1, <2>2, <2>3, <2>4, <2>5, Sizes
<1>3. (SignedByte(id) - Half) * BYTES_PER_TILE + TILESET_1_START =
        IF id < Half THEN start ELSE start - 2 * TILESET_1_START
  <2>1. SignedByte(id) - Half = IF id < Half THEN id - Half ELSE id - 3 * Half
    BY <1>1, Sizes DEF SignedByte, Half
  <2>2. /\ (id - Half) * BYTES_PER_TILE = start - TILESET_1_START
        /\ (id - 3 * Half) * BYTES_PER_TILE = start - 3 * TILESET_1_START
    BY <1>1, Sizes
  <2> QED
    BY <1>2, <2>1, <2>2, Sizes
<1>4. TileSetAddr(id, y) =
        (IF "bg_window_tile_set" \in lcd_control \/ id < Half
         THEN start + row ELSE start - 2 * TILESET_1_START + row) % WordSize
  <2>1. CASE "bg_window_tile_set" \in lcd_control
    BY <2>1 DEF TileSetAddr
  <2>2. CASE "bg_window_tile_set" \notin lcd_control
    <3> DEFINE number == (SignedByte(id) - Half) * BYTES_PER_TILE
    <3>1. number \in Int
      <4>1. SignedByte(id) \in Int
        BY <1>1, Sizes DEF SignedByte
      <4> QED
        BY <4>1, Sizes
    <3>2. TileSetAddr(id, y) = (TILESET_1_START + number + row) % WordSize
      BY <2>2 DEF TileSetAddr, Half
    <3>3. number + TILESET_1_START = IF id < Half THEN start ELSE start - 2 * TILESET_1_START
      BY <1>3
    <3> HIDE DEF number
    <3>4. TILESET_1_START + number = number + TILESET_1_START
      BY <3>1, Sizes
    <3> QED
      BY <2>2, <3>2, <3>3, <3>4
  <2> QED
    BY <2>1, <2>2
<1> HIDE DEF start, row
<1>5. CASE "bg_window_tile_set" \in lcd_control \/ id < Half
  <2> DEFINE addr == start + row
  <2>1. addr \in 0 .. 2 * TILESET_1_START - 2
    BY <1>1, <1>2, Sizes
  <2>2. WordSize \in Nat \ {0} /\ addr \in Int /\ -WordSize <= addr /\ addr < WordSize /\ 0 <= addr
    BY <2>1, Sizes
  <2> HIDE DEF addr
  <2>3. addr % WordSize = addr
    BY <2>2, ModuloBelow
  <2>4. TileSetAddr(id, y) = addr
    BY <1>4, <1>5, <2>3 DEF addr
  <2>5. InVram(addr)
    BY <2>1, Sizes DEF InVram
  <2> QED
    BY <1>5, <2>4, <2>5 DEF addr, start, row
<1>6. CASE "bg_window_tile_set" \notin lcd_control /\ id >= Half
  <2> DEFINE addr == start - 2 * TILESET_1_START + row
  <2>0. ~(id < Half)
    BY <1>1, <1>6, Sizes
  <2>1. addr \in Int /\ -TILESET_1_START <= addr /\ addr <= -2
    BY <1>1, <1>2, <1>6, Sizes
  <2>2. WordSize \in Nat \ {0} /\ -WordSize <= addr /\ addr < WordSize /\ addr < 0
    BY <2>1, Sizes
  <2> HIDE DEF addr
  <2>3. addr % WordSize = addr + WordSize
    BY <2>1, <2>2, ModuloBelow
  <2>4. TileSetAddr(id, y) = addr + WordSize
    BY <1>4, <1>6, <2>0, <2>3 DEF addr
  <2>5. ~InVram(addr + WordSize)
    BY <2>1, Sizes DEF InVram
  <2> QED
    BY <1>6, <2>0, <2>4, <2>5
<1>7. id < Half \/ id >= Half
  BY <1>1, Sizes
<1> QED
  BY <1>5, <1>6, <1>7

\* Every column of the background and of the window finds its tile in vram: the
\* window's row is above the last two of its map, so that a column beyond the
\* map, or the one left of it, is still an index of vram.
LEMMA MapIndex ==
    ASSUME NEW start \in {BG_MAP_0_START, BG_MAP_1_START}, NEW a \in Nat, NEW b \in Int,
           -1 <= b,
           \/ a <= TILES_PER_LINE - 1 /\ b <= TILES_PER_LINE - 1
           \/ a <= TILES_PER_LINE - 3 /\ b <= 2 * TILES_PER_LINE - 1
    PROVE  start + a * TILES_PER_LINE + b \in VramIndex
<1> DEFINE row == a * TILES_PER_LINE
<1>1. row \in Int /\ 0 * TILES_PER_LINE <= row
  BY Sizes, TimesGrows
<1>2. a <= TILES_PER_LINE - 1 => row <= MapSize - TILES_PER_LINE
  <2>1. a <= TILES_PER_LINE - 1 => row <= (TILES_PER_LINE - 1) * TILES_PER_LINE
    BY Sizes, TimesGrows
  <2>2. (TILES_PER_LINE - 1) * TILES_PER_LINE = MapSize - TILES_PER_LINE
    BY Sizes DEF MapSize
  <2> QED
    BY <2>1, <2>2
<1>3. a <= TILES_PER_LINE - 3 => row <= MapSize - 3 * TILES_PER_LINE
  <2>1. a <= TILES_PER_LINE - 3 => row <= (TILES_PER_LINE - 3) * TILES_PER_LINE
    BY Sizes, TimesGrows
  <2>2. (TILES_PER_LINE - 3) * TILES_PER_LINE = MapSize - 3 * TILES_PER_LINE
    BY Sizes DEF MapSize
  <2> QED
    BY <2>1, <2>2
<1> HIDE DEF row
<1>4. start + row + b \in VramIndex
  BY <1>1, <1>2, <1>3, Sizes
<1> QED
  BY <1>4 DEF row

\* What the address of a column is made of, for the background, ...
LEMMA BgTile ==
    ASSUME TypeOK, ScreenTypeOK, NEW x \in Column
    PROVE  /\ BgPlace(x).x \in Byte /\ BgPlace(x).y \in Byte
           /\ TileId(BgMap, BgPlace(x).x, BgPlace(x).y) \in Byte
<1> DEFINE px == (x + scroll.x) % ByteSize
           py == (line + scroll.y) % ByteSize
<1>1. x + scroll.x \in Int /\ line + scroll.y \in Int
  BY FrameAssumption DEF TypeOK, ScreenTypeOK, Point, Byte, Column
<1>2. px \in Byte /\ py \in Byte
  BY <1>1, Sizes, Division DEF Byte
<1>3. BgPlace(x).x = px /\ BgPlace(x).y = py
  BY DEF BgPlace
<1> HIDE DEF px, py
<1>4. \A n \in Byte : n \div TILE_LENGTH_PX \in 0 .. TILES_PER_LINE - 1
  <2> SUFFICES ASSUME NEW n \in Byte
               PROVE  n \div TILE_LENGTH_PX \in 0 .. TILES_PER_LINE - 1
    OBVIOUS
  <2>1. /\ n \in Int /\ TILES_PER_LINE \in Int
        /\ 0 * TILE_LENGTH_PX <= n /\ n < TILES_PER_LINE * TILE_LENGTH_PX
    BY Sizes DEF Byte
  <2> DEFINE m == n \div TILE_LENGTH_PX
  <2>2. m \in Int /\ 0 <= m /\ m < TILES_PER_LINE
    BY <2>1, TileBounds
  <2> HIDE DEF m
  <2>3. m \in 0 .. TILES_PER_LINE - 1
    BY <2>1, <2>2
  <2> QED
    BY <2>3 DEF m
<1>5. BgMap \in {BG_MAP_0_START, BG_MAP_1_START}
  BY DEF BgMap
<1>6. py \div TILE_LENGTH_PX \in Nat /\ px \div TILE_LENGTH_PX \in Nat
  BY <1>2, <1>4
<1>7. BgMap + (py \div TILE_LENGTH_PX) * TILES_PER_LINE + (px \div TILE_LENGTH_PX) \in VramIndex
  <2> DEFINE a == py \div TILE_LENGTH_PX
             b == px \div TILE_LENGTH_PX
  <2>1. a \in 0 .. TILES_PER_LINE - 1 /\ b \in 0 .. TILES_PER_LINE - 1
    BY <1>2, <1>4
  <2> HIDE DEF a, b
  <2>2. BgMap + a * TILES_PER_LINE + b \in VramIndex
    BY <1>5, <2>1, Sizes, MapIndex
  <2> QED
    BY <2>2 DEF a, b
<1>8. TileId(BgMap, px, py) \in Byte
  BY <1>7 DEF TileId, ScreenTypeOK
<1> QED
  BY <1>2, <1>3, <1>8

\* ... and for the window, where there is one on the line.
LEMMA WindowTile ==
    ASSUME TypeOK, ScreenTypeOK, OverWindow, NEW x \in Column
    PROVE  /\ WindowPlace(x).x \in Int /\ WindowPlace(x).y \in Nat
           /\ TileId(WindowMap, WindowPlace(x).x, WindowPlace(x).y) \in Byte
<1> DEFINE px == x + window.x - (TILE_LENGTH_PX - 1)
           py == line - window.y
           a  == py \div TILE_LENGTH_PX
           b  == px \div TILE_LENGTH_PX
<1>1. /\ px \in Int
      /\ -TILE_LENGTH_PX <= px
      /\ px < 2 * ByteSize
  BY Sizes, FrameAssumption DEF ScreenTypeOK, Point, Byte, Column
<1>2. /\ py \in Nat
      /\ py < ByteSize - 2 * TILE_LENGTH_PX
  BY Sizes, FrameAssumption, LinesAssumption DEF OverWindow, Row
<1>3. WindowPlace(x).x = px /\ WindowPlace(x).y = py
  BY DEF WindowPlace
<1> HIDE DEF px, py
<1>4. b \in Int /\ -1 <= b /\ b <= 2 * TILES_PER_LINE - 1
  <2> DEFINE q == 2 * TILES_PER_LINE
  <2>1. q \in Int /\ px < q * TILE_LENGTH_PX
    <3>1. q * TILE_LENGTH_PX = 2 * (TILES_PER_LINE * TILE_LENGTH_PX)
      BY Sizes
    <3> QED
      BY <1>1, <3>1, Sizes
  <2>2. -1 \in Int /\ (-1) * TILE_LENGTH_PX <= px
    BY <1>1, Sizes
  <2> HIDE DEF q
  <2>3. b \in Int /\ b < q /\ -1 <= b
    BY <1>1, <2>1, <2>2, TileBounds
  <2> QED
    BY <2>3, Sizes DEF q
<1>5. a \in Nat /\ a <= TILES_PER_LINE - 3
  <2> DEFINE q == TILES_PER_LINE - 2
  <2>1. q \in Int /\ py < q * TILE_LENGTH_PX
    <3>1. q * TILE_LENGTH_PX = TILES_PER_LINE * TILE_LENGTH_PX - 2 * TILE_LENGTH_PX
      BY Sizes
    <3> QED
      BY <1>2, <3>1, Sizes
  <2>2. 0 * TILE_LENGTH_PX <= py
    BY <1>2, Sizes
  <2> HIDE DEF q
  <2>3. a \in Int /\ a < q /\ 0 <= a
    BY <1>2, <2>1, <2>2, TileBounds
  <2> QED
    BY <2>3, Sizes DEF q
<1>6. WindowMap \in {BG_MAP_0_START, BG_MAP_1_START}
  BY DEF WindowMap
<1> HIDE DEF a, b
<1>7. WindowMap + a * TILES_PER_LINE + b \in VramIndex
  BY <1>4, <1>5, <1>6, MapIndex
<1>8. TileId(WindowMap, px, py) \in Byte
  BY <1>7 DEF TileId, ScreenTypeOK, a, b
<1> QED
  BY <1>1, <1>2, <1>3, <1>8

\* A tile of the second half, anywhere on the line or under the window on it.
\* (Beyond the window's map the code reads on in vram, and so does TileId.)
SecondHalfShown ==
    \E x \in Column :
        \/ vram[BgMap + (((line + scroll.y) % ByteSize) \div TILE_LENGTH_PX) * TILES_PER_LINE
                      + ((x + scroll.x) % ByteSize) \div TILE_LENGTH_PX] >= ByteSize \div 2
        \/ /\ OverWindow
           /\ TileId(WindowMap, WindowPlace(x).x, WindowPlace(x).y) >= ByteSize \div 2

\* A line cannot be drawn exactly if a tile of the second half is to be taken
\* from the second set.
LEMMA LineFaultsExactly ==
    ASSUME TypeOK, ScreenTypeOK
    PROVE  LineFaults <=> "bg_window_tile_set" \notin lcd_control /\ SecondHalfShown
<1> DEFINE second == "bg_window_tile_set" \notin lcd_control
           bg(x)  == TileId(BgMap, BgPlace(x).x, BgPlace(x).y)
           win(x) == TileId(WindowMap, WindowPlace(x).x, WindowPlace(x).y)
<1>1. \A x \in Column : ~InVram(BgAddr(x)) <=> second /\ bg(x) >= Half
  <2> SUFFICES ASSUME NEW x \in Column
               PROVE  ~InVram(BgAddr(x)) <=> second /\ bg(x) >= Half
    OBVIOUS
  <2>1. bg(x) \in Byte /\ BgPlace(x).y \in Int
    BY BgTile DEF Byte
  <2>2. BgAddr(x) = TileSetAddr(bg(x), BgPlace(x).y)
    BY DEF BgAddr
  <2>3. bg(x) >= Half <=> ~(bg(x) < Half)
    BY <2>1, Sizes DEF Byte
  <2> HIDE DEF bg
  <2> QED
    BY <2>1, <2>2, <2>3, TileAddress
<1>2. ASSUME OverWindow
      PROVE  \A x \in Column : ~InVram(WindowAddr(x)) <=> second /\ win(x) >= Half
  <2> SUFFICES ASSUME NEW x \in Column
               PROVE  ~InVram(WindowAddr(x)) <=> second /\ win(x) >= Half
    OBVIOUS
  <2>1. win(x) \in Byte /\ WindowPlace(x).y \in Int
    BY <1>2, WindowTile
  <2>2. WindowAddr(x) = TileSetAddr(win(x), WindowPlace(x).y)
    BY DEF WindowAddr
  <2>3. win(x) >= Half <=> ~(win(x) < Half)
    BY <2>1, Sizes DEF Byte
  <2> HIDE DEF win
  <2> QED
    BY <2>1, <2>2, <2>3, TileAddress
<1>3. SecondHalfShown <=> \E x \in Column : bg(x) >= Half \/ (OverWindow /\ win(x) >= Half)
  BY DEF SecondHalfShown, TileId, BgPlace, Half
<1> HIDE DEF bg, win, second
<1>4. LineFaults <=> second /\ \E x \in Column : bg(x) >= Half \/ (OverWindow /\ win(x) >= Half)
  BY <1>1, <1>2 DEF LineFaults
<1> QED
  BY <1>3, <1>4 DEF second

-------------------------------------------------------------------------------
(* Indices of the frame.                                                   *)

\* The proportions of the frame, the tiles and the byte.
LEMMA FrameSizes ==
    /\ FRAME_WIDTH_PX \in Nat \ {0}
    /\ SCANLINES_PER_FRAME \in Nat \ {0}
    /\ TILE_LENGTH_PX \in Nat \ {0}
    /\ ByteSize \in Nat
    /\ TILE_LENGTH_PX <= FRAME_WIDTH_PX
    /\ FRAME_WIDTH_PX < ByteSize
    /\ ByteSize + TILE_LENGTH_PX - 2 < 2 * FRAME_WIDTH_PX
    /\ SCANLINES_PER_FRAME + 2 * TILE_LENGTH_PX <= ByteSize
BY FrameAssumption, TilesAssumption, LinesAssumption

\* A place in a row of the frame is an index of the frame if the row is in it.
LEMMA PixelInFrame ==
    ASSUME NEW y \in Nat, NEW x \in Column
    PROVE  y * FRAME_WIDTH_PX + x \in Pixel <=> y < SCANLINES_PER_FRAME
<1> DEFINE start == y * FRAME_WIDTH_PX
           end   == FRAME_WIDTH_PX * SCANLINES_PER_FRAME
<1>1. /\ start \in Int /\ end \in Int /\ 0 <= start
      /\ x \in Int /\ 0 <= x /\ x < FRAME_WIDTH_PX
      /\ end = SCANLINES_PER_FRAME * FRAME_WIDTH_PX
      /\ (y + 1) * FRAME_WIDTH_PX = start + FRAME_WIDTH_PX
  BY FrameSizes DEF Column
<1>2. y < SCANLINES_PER_FRAME => start + FRAME_WIDTH_PX <= end
  <2>1. y < SCANLINES_PER_FRAME =>
          (y + 1) * FRAME_WIDTH_PX <= SCANLINES_PER_FRAME * FRAME_WIDTH_PX
    BY FrameSizes, TimesGrows
  <2> QED
    BY <1>1, <2>1
<1>3. SCANLINES_PER_FRAME <= y => end <= start
  BY <1>1, FrameSizes, TimesGrows
<1>4. start + x \in Pixel <=> start + x < end
  BY <1>1 DEF Pixel
<1>5. y < SCANLINES_PER_FRAME \/ SCANLINES_PER_FRAME <= y
  BY FrameSizes
<1> QED
  BY <1>1, <1>2, <1>3, <1>4, <1>5, FrameSizes

\* Row and column make up an index in one way only.
LEMMA PixelUnique ==
    ASSUME NEW y1 \in Int, NEW y2 \in Int, NEW x1 \in Column, NEW x2 \in Column,
           y1 * FRAME_WIDTH_PX + x1 = y2 * FRAME_WIDTH_PX + x2
    PROVE  y1 = y2 /\ x1 = x2
<1>1. /\ y1 * FRAME_WIDTH_PX \in Int /\ y2 * FRAME_WIDTH_PX \in Int
      /\ x1 \in Int /\ 0 <= x1 /\ x1 < FRAME_WIDTH_PX
      /\ x2 \in Int /\ 0 <= x2 /\ x2 < FRAME_WIDTH_PX
      /\ (y1 + 1) * FRAME_WIDTH_PX = y1 * FRAME_WIDTH_PX + FRAME_WIDTH_PX
      /\ (y2 + 1) * FRAME_WIDTH_PX = y2 * FRAME_WIDTH_PX + FRAME_WIDTH_PX
  BY FrameSizes DEF Column
<1>2. ~(y1 + 1 <= y2)
  <2>1. y1 + 1 <= y2 => (y1 + 1) * FRAME_WIDTH_PX <= y2 * FRAME_WIDTH_PX
    BY FrameSizes, TimesGrows
  <2> QED
    BY <1>1, <2>1, FrameSizes
<1>3. ~(y2 + 1 <= y1)
  <2>1. y2 + 1 <= y1 => (y2 + 1) * FRAME_WIDTH_PX <= y1 * FRAME_WIDTH_PX
    BY FrameSizes, TimesGrows
  <2> QED
    BY <1>1, <2>1, FrameSizes
<1>4. y1 = y2
  BY <1>2, <1>3
<1>5. y1 * FRAME_WIDTH_PX = y2 * FRAME_WIDTH_PX
  BY <1>4
<1>6. x1 = x2
  BY <1>1, <1>5
<1> QED
  BY <1>4, <1>6

\* An index names its row and its column.
LEMMA RowAndColumn ==
    ASSUME NEW y \in Int, NEW x \in Column
    PROVE  /\ (y * FRAME_WIDTH_PX + x) \div FRAME_WIDTH_PX = y
           /\ (y * FRAME_WIDTH_PX + x) % FRAME_WIDTH_PX = x
<1> DEFINE p == y * FRAME_WIDTH_PX + x
           q == p \div FRAME_WIDTH_PX
           r == p % FRAME_WIDTH_PX
<1>1. p \in Int
  BY FrameSizes DEF Column
<1>2. q \in Int /\ r \in 0 .. FRAME_WIDTH_PX - 1 /\ p = q * FRAME_WIDTH_PX + r
  <2> HIDE DEF p
  <2> QED
    BY <1>1, FrameSizes, Division
<1> HIDE DEF q, r
<1>3. r \in Column /\ q * FRAME_WIDTH_PX + r = y * FRAME_WIDTH_PX + x
  BY <1>2 DEF Column
<1>4. q = y /\ r = x
  BY <1>2, <1>3, PixelUnique
<1> QED
  BY <1>4 DEF q, r

\* The corner of a sprite, after it has wrapped.
LEMMA SpriteCorner ==
    ASSUME ScreenTypeOK, NEW n \in DOMAIN oam, OnScreen(n)
    PROVE  /\ oam[n].x \in 1 .. FRAME_WIDTH_PX + TILE_LENGTH_PX - 1
           /\ oam[n].y \in 1 .. SCANLINES_PER_FRAME + 2 * TILE_LENGTH_PX - 1
           /\ (oam[n].x - TILE_LENGTH_PX) % ByteSize =
                IF oam[n].x < TILE_LENGTH_PX THEN oam[n].x - TILE_LENGTH_PX + ByteSize
                                             ELSE oam[n].x - TILE_LENGTH_PX
           /\ (oam[n].y - 2 * TILE_LENGTH_PX) % ByteSize =
                IF oam[n].y < 2 * TILE_LENGTH_PX THEN oam[n].y - 2 * TILE_LENGTH_PX + ByteSize
                                                 ELSE oam[n].y - 2 * TILE_LENGTH_PX
<1>1. oam[n].x \in Int /\ oam[n].y \in Int
  BY DEF ScreenTypeOK, Entry, Byte
<1>2. /\ oam[n].x \in 1 .. FRAME_WIDTH_PX + TILE_LENGTH_PX - 1
      /\ oam[n].y \in 1 .. SCANLINES_PER_FRAME + 2 * TILE_LENGTH_PX - 1
  BY <1>1, FrameSizes DEF OnScreen
<1> DEFINE cx == oam[n].x - TILE_LENGTH_PX
           cy == oam[n].y - 2 * TILE_LENGTH_PX
<1>3. /\ ByteSize \in Nat \ {0}
      /\ cx \in Int /\ -ByteSize <= cx /\ cx < ByteSize
      /\ cy \in Int /\ -ByteSize <= cy /\ cy < ByteSize
      /\ oam[n].x < TILE_LENGTH_PX <=> cx < 0
      /\ oam[n].y < 2 * TILE_LENGTH_PX <=> cy < 0
  BY <1>1, <1>2, FrameSizes
<1> HIDE DEF cx, cy
<1>4. /\ cx % ByteSize = IF cx < 0 THEN cx + ByteSize ELSE cx
      /\ cy % ByteSize = IF cy < 0 THEN cy + ByteSize ELSE cy
  BY <1>3, ModuloBelow
<1> QED
  BY <1>2, <1>3, <1>4 DEF cx, cy

\* A pixel of a sprite is copied to one row further down if it is beyond the
\* right border, or left of the left.
LEMMA SpriteRow ==
    ASSUME ScreenTypeOK, NEW n \in DOMAIN oam, OnScreen(n), NEW tx \in InTile, NEW ty \in InTile
    PROVE  LET r     == ((oam[n].y - 2 * TILE_LENGTH_PX) % ByteSize) + ty
               c     == ((oam[n].x - TILE_LENGTH_PX) % ByteSize) + tx
               carry == IF c >= FRAME_WIDTH_PX THEN 1 ELSE 0
           IN  /\ r \in Nat /\ c \in 0 .. 2 * FRAME_WIDTH_PX - 1
               /\ SpriteTarget(n, tx, ty) = r * FRAME_WIDTH_PX + c
               /\ SpriteTarget(n, tx, ty) \in Pixel <=> r + carry < SCANLINES_PER_FRAME
<1> DEFINE cr == (oam[n].y - 2 * TILE_LENGTH_PX) % ByteSize
           cc == (oam[n].x - TILE_LENGTH_PX) % ByteSize
           r  == cr + ty
           c  == cc + tx
           carry == IF c >= FRAME_WIDTH_PX THEN 1 ELSE 0
<1>1. cr \in Nat /\ cc \in Nat /\ cc + TILE_LENGTH_PX - 1 < 2 * FRAME_WIDTH_PX
  BY SpriteCorner, FrameSizes
<1>2. SpriteTarget(n, tx, ty) = r * FRAME_WIDTH_PX + cc + tx
  BY DEF SpriteTarget
<1> HIDE DEF cr, cc
<1>3. r \in Nat /\ c \in 0 .. 2 * FRAME_WIDTH_PX - 1
  BY <1>1, FrameSizes DEF InTile
<1>4. SpriteTarget(n, tx, ty) = r * FRAME_WIDTH_PX + c
  <2>1. r * FRAME_WIDTH_PX \in Int /\ tx \in Int
    BY <1>3, FrameSizes DEF InTile
  <2> QED
    BY <1>1, <1>2, <2>1
<1> HIDE DEF r, c
<1>5. r * FRAME_WIDTH_PX + c \in Pixel <=> r + carry < SCANLINES_PER_FRAME
  <2> DEFINE x == c - carry * FRAME_WIDTH_PX
             y == r + carry
  <2>1. y \in Nat /\ x \in Column
    BY <1>3, FrameSizes DEF Column
  <2>2. y * FRAME_WIDTH_PX + x = r * FRAME_WIDTH_PX + c
    BY <1>3, FrameSizes
  <2> HIDE DEF x, y
  <2>3. y * FRAME_WIDTH_PX + x \in Pixel <=> y < SCANLINES_PER_FRAME
    BY <2>1, PixelInFrame
  <2> QED
    BY <2>2, <2>3 DEF y
<1> QED
  BY <1>3, <1>4, <1>5 DEF r, c, cr, cc

\* The sprites cannot be drawn exactly if one of them leaves the frame.
LEMMA SpriteFaultsExactly ==
    ASSUME ScreenTypeOK
    PROVE  SpriteFaults <=> \E n \in DOMAIN oam : LeavesFrame(n)
<1> SUFFICES ASSUME NEW n \in DOMAIN oam, OnScreen(n)
             PROVE  (\E tx, ty \in InTile : SpriteTarget(n, tx, ty) \notin Pixel) <=> LeavesFrame(n)
  BY DEF SpriteFaults, LeavesFrame
<1> DEFINE cr == (oam[n].y - 2 * TILE_LENGTH_PX) % ByteSize
           cc == (oam[n].x - TILE_LENGTH_PX) % ByteSize
           last == TILE_LENGTH_PX - 1
           spill(tx) == IF cc + tx >= FRAME_WIDTH_PX THEN 1 ELSE 0
<1>1. \A tx, ty \in InTile :
        SpriteTarget(n, tx, ty) \in Pixel <=> cr + ty + spill(tx) < SCANLINES_PER_FRAME
  <2> SUFFICES ASSUME NEW tx \in InTile, NEW ty \in InTile
               PROVE  SpriteTarget(n, tx, ty) \in Pixel
                        <=> cr + ty + spill(tx) < SCANLINES_PER_FRAME
    OBVIOUS
  <2> QED
    BY SpriteRow
<1>2. cr \in Nat /\ cc \in Nat
  BY SpriteCorner, FrameSizes
<1>3. LeavesFrame(n) <=> cr + last + spill(last) >= SCANLINES_PER_FRAME
  <2>1. CASE oam[n].y < 2 * TILE_LENGTH_PX
    <3>1. cr >= SCANLINES_PER_FRAME
      BY <2>1, SpriteCorner, FrameSizes
    <3>2. LeavesFrame(n)
      BY <2>1 DEF LeavesFrame
    <3> HIDE DEF cr, cc
    <3> QED
      BY <1>2, <3>1, <3>2, FrameSizes
  <2>2. CASE oam[n].y >= 2 * TILE_LENGTH_PX
    <3>1. /\ oam[n].x \in 1 .. FRAME_WIDTH_PX + TILE_LENGTH_PX - 1
          /\ oam[n].y \in 1 .. SCANLINES_PER_FRAME + 2 * TILE_LENGTH_PX - 1
      BY SpriteCorner
    <3>2. cr = oam[n].y - 2 * TILE_LENGTH_PX
      BY <2>2, <3>1, SpriteCorner, FrameSizes
    <3>3. cc = IF oam[n].x < TILE_LENGTH_PX THEN oam[n].x - TILE_LENGTH_PX + ByteSize
                                            ELSE oam[n].x - TILE_LENGTH_PX
      BY SpriteCorner
    <3> HIDE DEF cr, cc
    <3>4. spill(last) = IF oam[n].x \in TILE_LENGTH_PX .. FRAME_WIDTH_PX THEN 0 ELSE 1
      BY <3>1, <3>3, FrameSizes
    <3>5. LeavesFrame(n) <=>
            oam[n].y - TILE_LENGTH_PX - 1
            + (IF oam[n].x \in TILE_LENGTH_PX .. FRAME_WIDTH_PX THEN 0 ELSE 1)
              >= SCANLINES_PER_FRAME
      BY <2>2, <3>1, FrameSizes DEF LeavesFrame
    <3> QED
      BY <3>1, <3>2, <3>4, <3>5, FrameSizes
  <2> QED
    BY <2>1, <2>2, SpriteCorner, FrameSizes
<1> HIDE DEF cr, cc
<1>4. last \in InTile
  BY FrameSizes DEF InTile
<1>5. ASSUME NEW tx \in InTile, NEW ty \in InTile
      PROVE  cr + ty + spill(tx) <= cr + last + spill(last)
  BY <1>2, FrameSizes DEF InTile
<1>6. \A tx \in InTile : spill(tx) \in 0 .. 1
  OBVIOUS
<1>7. \A tx, ty \in InTile : cr + ty + spill(tx) \in Int
  BY <1>2, <1>6 DEF InTile
<1> HIDE DEF spill, last
<1> QED
  BY <1>1, <1>3, <1>4, <1>5, <1>7, FrameSizes

-------------------------------------------------------------------------------
(* The type of the picture.                                                *)

\* A set of numbers below a bound has a greatest element.
LEMMA GreatestBelow ==
    ASSUME NEW n \in Nat, NEW S \in SUBSET (0 .. n - 1), S # {}
    PROVE  \E m \in S : \A k \in S : m >= k
<1> DEFINE Above(m) == {k \in S : m < k}
           Sets     == {Above(m) : m \in S}
           R        == StrictSubsetOrdering(S)
<1>1. S \subseteq Int
  OBVIOUS
<1>2. IsFiniteSet(S)
  <2>1. IsFiniteSet(0 .. n - 1)
    BY FS_Interval
  <2> QED
    BY <2>1, FS_Subset
<1>3. \A m \in S : Above(m) \in FiniteSubsetsOf(S)
  <2>1. FiniteSubsetsOf(S) = SUBSET S
    BY <1>2, FS_FiniteSubsetsOfFinite
  <2> QED
    BY <2>1
<1>4. PICK X \in Sets : \A Y \in Sets : ~(<<Y, X>> \in R)
  <2>1. IsWellFoundedOn(R, FiniteSubsetsOf(S))
    BY FS_StrictSubsetOrderingWellFounded
  <2>2. Sets \subseteq FiniteSubsetsOf(S) /\ Sets # {}
    BY <1>3
  <2> HIDE DEF Sets, R
  <2> QED
    BY <2>1, <2>2, WFMin
<1>5. PICK m \in S : X = Above(m)
  OBVIOUS
<1>6. ASSUME NEW k \in S, m < k PROVE FALSE
  <2>1. Above(k) \in Sets
    OBVIOUS
  <2>2. Above(k) \subseteq Above(m) /\ k \in Above(m) /\ k \notin Above(k)
    <3>1. \A i \in S : k < i => m < i
      BY <1>1, <1>6
    <3>2. ~(k < k)
      BY <1>1
    <3> QED
      BY <1>6, <3>1, <3>2
  <2>3. <<Above(k), Above(m)>> \in R
    BY <2>2 DEF StrictSubsetOrdering
  <2> QED
    BY <1>4, <1>5, <2>1, <2>3
<1> QED
  BY <1>1, <1>6
\* Where a sprite's pixel is copied to, one is copied last.
LEMMA LastCopiedExists ==
    ASSUME ScreenTypeOK, NEW p, CopiedTo(p) # {}
    PROVE  /\ LastCopied(p) \in CopiedTo(p)
           /\ \A other \in CopiedTo(p) : LastCopied(p).sprite >= other.sprite
<1> DEFINE S == {s.sprite : s \in CopiedTo(p)}
<1>1. S \in SUBSET (0 .. Sprites - 1) /\ S # {} /\ Sprites \in Nat
  BY ScreenWritesAssumption DEF CopiedTo, ScreenTypeOK
<1>2. PICK m \in S : \A k \in S : m >= k
  <2> HIDE DEF S
  <2> QED
    BY <1>1, GreatestBelow
<1>3. PICK s \in CopiedTo(p) : s.sprite = m
  OBVIOUS
<1>4. \A other \in CopiedTo(p) : s.sprite >= other.sprite
  BY <1>2, <1>3
<1> HIDE DEF S
<1> QED
  BY <1>3, <1>4 DEF LastCopied

\* Two bits number a colour, and a palette gives it a shade.
LEMMA ColorType ==
    ASSUME ScreenTypeOK
    PROVE  \A addr, x, which : which \in {"bg", "sprite_0", "sprite_1"} =>
               GetColor(ColorNumber(addr, x), which) \in Shade
<1> TAKE addr, x, which
<1> HAVE which \in {"bg", "sprite_0", "sprite_1"}
<1>1. ColorNumber(addr, x) \in 0 .. 3
  BY DEF ColorNumber
<1> DEFINE color == ColorNumber(addr, x)
<1> HIDE DEF color
<1>2. palette[which][color] \in 0 .. 3
  BY <1>1 DEF ScreenTypeOK, Palettes, color
<1>3. GetColor(color, which) \in Shade
  BY <1>2 DEF GetColor, Shade
<1> QED
  BY <1>3 DEF color

\* A painted line and painted sprites make a picture.
LEMMA PaintedType ==
    ASSUME ScreenTypeOK
    PROVE  WithLine \in [Pixel -> Shade] /\ WithSprites \in [Pixel -> Shade]
<1>1. \A x : LinePixel(x) \in Shade
  BY ColorType DEF LinePixel
<1>2. WithLine \in [Pixel -> Shade]
  BY <1>1 DEF WithLine, ScreenTypeOK
<1>3. \A p \in Pixel : CopiedTo(p) # {} =>
         SpritePixel(LastCopied(p).sprite, LastCopied(p).x, LastCopied(p).y) \in Shade
  <2> SUFFICES ASSUME NEW p \in Pixel, CopiedTo(p) # {}
               PROVE  SpritePixel(LastCopied(p).sprite, LastCopied(p).x, LastCopied(p).y) \in Shade
    OBVIOUS
  <2>1. LastCopied(p).sprite \in DOMAIN oam
    BY LastCopiedExists DEF CopiedTo
  <2>2. oam[LastCopied(p).sprite].palette \in {"bg", "sprite_0", "sprite_1"}
    BY <2>1 DEF ScreenTypeOK, Entry
  <2> QED
    BY <2>2, ColorType DEF SpritePixel
<1>4. WithSprites \in [Pixel -> Shade]
  BY <1>3 DEF WithSprites, ScreenTypeOK
<1> QED
  BY <1>2, <1>4

\* Whether drawing throws is a matter of yes or no.
LEMMA FaultsType == Faults \in RenderFaults
BY ScreenWritesAssumption DEF Faults, Rendering, LineFaults, SpriteFaults

\* A tick with pixels is a tick of the clockwork, and every other step is one
\* of its or leaves it alone.
THEOREM ScreenIsPpu == ScreenSpec => Spec
<1>1. ScreenInit => Init
  BY DEF ScreenInit
<1>2. [ScreenNext]_screenVars => [Next]_vars
  <2> SUFFICES ASSUME [ScreenNext]_screenVars PROVE [Next]_vars
    OBVIOUS
  <2>1. ASSUME NEW c \in TickCycles, ScreenTick(c) PROVE Next
    BY <2>1, FaultsType DEF ScreenTick, Next
  <2>2. CASE WriteClockwork
    BY <2>2 DEF WriteClockwork, Next
  <2>3. CASE WriteMemory
    BY <2>3 DEF WriteMemory
  <2>4. CASE UNCHANGED screenVars
    BY <2>4 DEF screenVars
  <2> QED
    BY <2>1, <2>2, <2>3, <2>4 DEF ScreenNext
<1> QED
  BY <1>1, <1>2, PTL DEF ScreenSpec, Spec

\* ppu.cc: whatever the program stores in the registers, in vram and in oam, a
\* pixel of either frame has one of the four shades.
THEOREM ScreenTypeCorrect == ScreenSpec => [](TypeOK /\ ScreenTypeOK)
<1>1. ScreenInit => ScreenTypeOK
  <2> SUFFICES ASSUME ScreenInit PROVE ScreenTypeOK
    OBVIOUS
  <2>1. 0 \in Byte
    BY LinesAssumption DEF Byte, SCANLINES
  <2> QED
    BY <2>1 DEF ScreenInit, ScreenTypeOK, Point, Palettes, Entry, White, Shade
<1>2. ScreenTypeOK /\ [ScreenNext]_screenVars => ScreenTypeOK'
  <2> SUFFICES ASSUME ScreenTypeOK, [ScreenNext]_screenVars PROVE ScreenTypeOK'
    OBVIOUS
  <2>1. ASSUME NEW c \in TickCycles, ScreenTick(c) PROVE ScreenTypeOK'
    <3>1. White \in [Pixel -> Shade]
      BY DEF White, Shade
    <3>2. pixels' \in [Pixel -> Shade] /\ shown' \in [Pixel -> Shade]
      BY <2>1, <3>1, PaintedType DEF ScreenTick, ScreenTypeOK
    <3> QED
      BY <2>1, <3>2 DEF ScreenTick, ScreenTypeOK, memory
  <2>2. CASE WriteClockwork
    BY <2>2 DEF WriteClockwork, ScreenTypeOK, memory
  <2>3. CASE WriteMemory
    <3>1. pixels' \in [Pixel -> Shade] /\ shown' \in [Pixel -> Shade]
      BY <2>3 DEF WriteMemory, ScreenTypeOK
    <3>2. scroll' \in Point /\ window' \in Point /\ palette' \in Palettes
      BY <2>3, ScreenWritesAssumption DEF WriteMemory, ScreenTypeOK
    <3>3. vram' \in [VramIndex -> Byte]
      BY <2>3, ScreenWritesAssumption DEF WriteMemory, ScreenTypeOK
    <3>4. oam' \in [0 .. Sprites - 1 -> Entry]
      BY <2>3, ScreenWritesAssumption DEF WriteMemory, ScreenTypeOK
    <3> QED
      BY <3>1, <3>2, <3>3, <3>4 DEF ScreenTypeOK
  <2>4. CASE UNCHANGED screenVars
    BY <2>4 DEF screenVars, memory, ScreenTypeOK
  <2> QED
    BY <2>1, <2>2, <2>3, <2>4 DEF ScreenNext
<1>3. ScreenSpec => []TypeOK
  BY ScreenIsPpu, TypeCorrect, PTL
<1> QED
  BY <1>1, <1>2, <1>3, PTL DEF ScreenSpec

-------------------------------------------------------------------------------
(* What is thrown and what is painted.                                     *)

\* A tick ends the program in the cases that ThrowsExactly lists, or for a tile
\* of the second half that the second set does not find in vram.
LEMMA TickThrows ==
    ASSUME TypeOK, ScreenTypeOK, NEW c \in TickCycles, Tick(c, Faults)
    PROVE  thrown' <=>
             /\ cycles_elapsed_ + c >= Limit
             /\ \/ /\ mode_ = "HBLANK" /\ Rendering
                   /\ \/ line >= SCANLINES_PER_FRAME
                      \/ "bg_window_tile_set" \notin lcd_control /\ SecondHalfShown
                \/ /\ mode_ = "VBLANK" /\ NextLine = SCANLINES
                   /\ "obj_enable" \in lcd_control
                   /\ \E n \in DOMAIN oam : LeavesFrame(n)
<1>1. ~thrown
  BY DEF Tick
<1>2. CASE ~(cycles_elapsed_ + c >= Limit)
  BY <1>1, <1>2 DEF Tick
<1>3. CASE cycles_elapsed_ + c >= Limit
  <2>1. EndOfMode(Faults)
    BY <1>3 DEF Tick
  <2>2. CASE mode_ = "READ_OAM" \/ mode_ = "READ_VRAM"
    BY <1>1, <2>1, <2>2 DEF EndOfMode, EndOfOam, EndOfVram
  <2>3. CASE mode_ = "HBLANK"
    <3>1. EndOfHblank(Faults)
      BY <2>1, <2>3 DEF EndOfMode
    <3>2. line \notin Row <=> line >= SCANLINES_PER_FRAME
      BY FrameSizes DEF TypeOK, Byte, Row
    <3>3. ScanlineThrows(Faults) <=>
            Rendering /\ (line >= SCANLINES_PER_FRAME \/ LineFaults)
      BY <2>3, <3>2 DEF ScanlineThrows, Faults
    <3>4. thrown' <=> ScanlineThrows(Faults)
      BY <1>1, <3>1 DEF EndOfHblank
    <3> QED
      BY <1>3, <2>3, <3>3, <3>4, LineFaultsExactly
  <2>4. CASE mode_ = "VBLANK"
    <3>1. EndOfVblankLine(Faults)
      BY <2>1, <2>4 DEF EndOfMode
    <3>2. thrown' <=> NextLine = SCANLINES /\ "obj_enable" \in lcd_control /\ SpriteFaults
      BY <1>1, <2>4, <3>1 DEF EndOfVblankLine, DrawFrame, Faults
    <3> QED
      BY <1>3, <2>4, <3>2, SpriteFaultsExactly
  <2> QED
    BY <2>2, <2>3, <2>4 DEF TypeOK, Mode
<1> QED
  BY <1>2, <1>3

\* ppu.cc:161-325: for every frame and whatever is stored, drawing from the first
\* tile set ends the program in the two cases and no other.
THEOREM ThrowsCorrect == ScreenSpec => ThrowsExactly
<1>1. TypeOK /\ ScreenTypeOK =>
        [\A c \in TickCycles :
           ScreenTick(c) /\ (mode_ = "HBLANK" => "bg_window_tile_set" \in lcd_control) =>
           (thrown' <=>
              /\ cycles_elapsed_ + c >= Limit
              /\ \/ mode_ = "HBLANK" /\ Rendering /\ line >= SCANLINES_PER_FRAME
                 \/ /\ mode_ = "VBLANK" /\ NextLine = SCANLINES
                    /\ "obj_enable" \in lcd_control
                    /\ \E n \in DOMAIN oam : LeavesFrame(n))]_screenVars
  BY TickThrows DEF ScreenTick
<1> QED
  BY <1>1, ScreenTypeCorrect, PTL DEF ThrowsExactly

\* The end of an hblank leaves the other rows alone, and with rendering on it
\* paints the line, which throws no exception.
LEMMA HblankPaints ==
    ASSUME TypeOK, ScreenTypeOK, [ScreenNext]_screenVars, mode_ = "HBLANK", mode_' # mode_
    PROVE  /\ pixels' = IF Rendering THEN WithLine ELSE pixels
           /\ Rendering => line \in Row /\ ~LineFaults
<1>1. PICK c \in TickCycles : ScreenTick(c)
  BY DEF ScreenNext, WriteClockwork, WriteControl, WriteLine, WriteMemory, screenVars, vars
<1>2. EndOfHblank(Faults)
  BY <1>1 DEF ScreenTick, Tick, EndOfMode
<1>3. ~ScanlineThrows(Faults) /\ frame_parity' = frame_parity
  BY <1>2 DEF EndOfHblank
<1>4. pixels' = IF Rendering THEN WithLine ELSE pixels
  BY <1>1, <1>3 DEF ScreenTick
<1>5. Rendering => line \in Row /\ ~LineFaults
  BY <1>3 DEF ScanlineThrows, Faults
<1> QED
  BY <1>4, <1>5

\* An address in vram is where the first set has the tile of that number.
LEMMA AddressOfTile ==
    ASSUME NEW id \in Byte, NEW y \in Int, InVram(TileSetAddr(id, y))
    PROVE  TileSetAddr(id, y) = id * BYTES_PER_TILE + 2 * (y % TILE_LENGTH_PX)
BY TileAddress

\* A column of a line that can be drawn shows the map's tile.
LEMMA ColumnShowsTile ==
    ASSUME TypeOK, ScreenTypeOK, ~LineFaults, NEW x \in Column
    PROVE  LinePixel(x) =
             IF OverWindow THEN MapPixel(WindowMap, WindowPlace(x).x, WindowPlace(x).y)
                           ELSE MapPixel(BgMap, BgPlace(x).x, BgPlace(x).y)
<1>1. CASE OverWindow
  <2> DEFINE id == TileId(WindowMap, WindowPlace(x).x, WindowPlace(x).y)
             wy == WindowPlace(x).y
  <2>1. id \in Byte /\ wy \in Int
    BY <1>1, WindowTile
  <2>2. WindowAddr(x) = TileSetAddr(id, wy) /\ InVram(WindowAddr(x))
    BY <1>1 DEF WindowAddr, LineFaults
  <2> HIDE DEF id, wy
  <2>3. WindowAddr(x) = id * BYTES_PER_TILE + 2 * (wy % TILE_LENGTH_PX)
    BY <2>1, <2>2, AddressOfTile
  <2> QED
    BY <1>1, <2>3 DEF LinePixel, MapPixel, id, wy
<1>2. CASE ~OverWindow
  <2> DEFINE id == TileId(BgMap, BgPlace(x).x, BgPlace(x).y)
             by == BgPlace(x).y
  <2>1. id \in Byte /\ by \in Int
    BY BgTile DEF Byte
  <2>2. BgAddr(x) = TileSetAddr(id, by) /\ InVram(BgAddr(x))
    BY DEF BgAddr, LineFaults
  <2> HIDE DEF id, by
  <2>3. BgAddr(x) = id * BYTES_PER_TILE + 2 * (by % TILE_LENGTH_PX)
    BY <2>1, <2>2, AddressOfTile
  <2> QED
    BY <1>2, <2>3 DEF LinePixel, MapPixel, id, by
<1> QED
  BY <1>1, <1>2

\* ppu.cc:161-284: for every frame and whatever is stored, a scanline shows its
\* row of the background or of the window in the tiles of the first set, and
\* leaves the other rows alone.
THEOREM RowsCorrect == ScreenSpec => RowShowsTiles
<1> DEFINE Shows ==
      mode_ = "HBLANK" /\ mode_' # mode_ =>
        /\ \A p \in Pixel :
              ~Rendering \/ p \div FRAME_WIDTH_PX # line => pixels'[p] = pixels[p]
        /\ \A x \in Column :
              LET wx == x + window.x - (TILE_LENGTH_PX - 1)
                  wy == line - window.y
                  windowed == "window_enable" \in lcd_control /\ wy >= 0
              IN  Rendering /\ "bg_window_tile_set" \in lcd_control =>
                    /\ windowed /\ wx \in Byte =>
                         pixels'[line * FRAME_WIDTH_PX + x] = MapPixel(WindowMap, wx, wy)
                    /\ ~windowed =>
                         pixels'[line * FRAME_WIDTH_PX + x] =
                            MapPixel(BgMap, (x + scroll.x) % ByteSize, (line + scroll.y) % ByteSize)
<1>1. TypeOK /\ ScreenTypeOK /\ [ScreenNext]_screenVars => Shows
  <2> SUFFICES ASSUME TypeOK, ScreenTypeOK, [ScreenNext]_screenVars,
                      mode_ = "HBLANK", mode_' # mode_
               PROVE  Shows
    OBVIOUS
  <2>1. /\ pixels' = IF Rendering THEN WithLine ELSE pixels
        /\ Rendering => line \in Row /\ ~LineFaults
    BY HblankPaints
  <2>2. ASSUME NEW p \in Pixel, ~Rendering \/ p \div FRAME_WIDTH_PX # line
        PROVE  pixels'[p] = pixels[p]
    BY <2>1, <2>2 DEF WithLine
  <2>3. ASSUME NEW x \in Column, Rendering
        PROVE  pixels'[line * FRAME_WIDTH_PX + x] =
                 IF OverWindow THEN MapPixel(WindowMap, WindowPlace(x).x, WindowPlace(x).y)
                               ELSE MapPixel(BgMap, BgPlace(x).x, BgPlace(x).y)
    <3> DEFINE p == line * FRAME_WIDTH_PX + x
    <3>1. line \in Nat /\ line < SCANLINES_PER_FRAME
      BY <2>1, <2>3, FrameSizes DEF Row
    <3>2. p \in Pixel /\ p \div FRAME_WIDTH_PX = line /\ p % FRAME_WIDTH_PX = x
      BY <3>1, PixelInFrame, RowAndColumn
    <3> HIDE DEF p
    <3>3. pixels'[p] = LinePixel(x)
      BY <2>1, <2>3, <3>2 DEF WithLine
    <3> QED
      BY <2>1, <2>3, <3>3, ColumnShowsTile DEF p
  <2>4. Rendering => (OverWindow <=> "window_enable" \in lcd_control /\ line - window.y >= 0)
    BY <2>1, FrameSizes DEF OverWindow, Row, ScreenTypeOK, Point, Byte
  <2> QED
    BY <2>2, <2>3, <2>4 DEF WindowPlace, BgPlace
<1>2. TypeOK /\ ScreenTypeOK /\ [ScreenNext]_screenVars => [Shows]_screenVars
  BY <1>1
<1> QED
  BY <1>2, ScreenTypeCorrect, PTL DEF ScreenSpec, RowShowsTiles

\* A tile that is found in vram lies in the set that LCDC selects exactly if that
\* is the first.
LEMMA SetOfTile ==
    ASSUME NEW id \in Byte, NEW y \in Int, NEW addr, addr = TileSetAddr(id, y), InVram(addr)
    PROVE  addr \in TileSet /\ addr + 1 \in TileSet <=> "bg_window_tile_set" \in lcd_control
<1> DEFINE start == id * BYTES_PER_TILE
           row   == 2 * (y % TILE_LENGTH_PX)
<1>1. /\ row \in 0 .. BYTES_PER_TILE - 2
      /\ id \in Int /\ 0 <= id /\ id <= 2 * Half - 1
  BY Sizes, Division DEF Byte
<1>2. addr = start + row
  BY AddressOfTile
<1>3. /\ start \in Int
      /\ 0 <= start
      /\ start <= 2 * TILESET_1_START - BYTES_PER_TILE
      /\ id < Half => start <= TILESET_1_START - BYTES_PER_TILE
  <2>1. 0 * BYTES_PER_TILE <= start /\ start <= (2 * Half - 1) * BYTES_PER_TILE
    BY <1>1, Sizes, TimesGrows
  <2>2. id < Half => start <= (Half - 1) * BYTES_PER_TILE
    BY <1>1, Sizes, TimesGrows
  <2>3. /\ (2 * Half - 1) * BYTES_PER_TILE = 2 * (Half * BYTES_PER_TILE) - BYTES_PER_TILE
        /\ (Half - 1) * BYTES_PER_TILE = Half * BYTES_PER_TILE - BYTES_PER_TILE
    BY Sizes
  <2>4. start \in Int
    BY <1>1, Sizes
  <2> QED
    BY <2>1, <2>2, <2>3, <2>4, Sizes
<1>4. "bg_window_tile_set" \in lcd_control \/ id < Half
  BY TileAddress
<1> HIDE DEF start, row
<1>5. CASE "bg_window_tile_set" \in lcd_control
  BY <1>1, <1>2, <1>3, <1>5, Sizes DEF TileSet
<1>6. CASE "bg_window_tile_set" \notin lcd_control
  <2>1. addr \in Int /\ addr < TILESET_1_START
    BY <1>1, <1>2, <1>3, <1>4, <1>6, Sizes
  <2> QED
    BY <1>6, <2>1, Sizes DEF TileSet
<1> QED
  BY <1>5, <1>6

\* ppu.cc:205-206, 254-255: the extent of what tile_set refutes.  Every column
\* of a line that is drawn is read from the set that LCDC selects if that is the
\* first, and none is if it is the second.
THEOREM SecondSetMisread ==
    ScreenSpec =>
      [][mode_ = "HBLANK" /\ mode_' # mode_ /\ Rendering =>
           \A x \in Column : ReadFromSet(x) <=> "bg_window_tile_set" \in lcd_control]_screenVars
<1>1. ASSUME TypeOK, ScreenTypeOK, [ScreenNext]_screenVars,
             mode_ = "HBLANK", mode_' # mode_, Rendering, NEW x \in Column
      PROVE  ReadFromSet(x) <=> "bg_window_tile_set" \in lcd_control
  <2>1. ~LineFaults
    BY <1>1, HblankPaints
  <2>2. CASE OverWindow
    <3> DEFINE id == TileId(WindowMap, WindowPlace(x).x, WindowPlace(x).y)
    <3>1. id \in Byte /\ WindowPlace(x).y \in Int
      BY <1>1, <2>2, WindowTile
    <3>2. WindowAddr(x) = TileSetAddr(id, WindowPlace(x).y) /\ InVram(WindowAddr(x))
      BY <2>1, <2>2 DEF WindowAddr, LineFaults
    <3> HIDE DEF id
    <3> QED
      BY <2>2, <3>1, <3>2, SetOfTile DEF ReadFromSet
  <2>3. CASE ~OverWindow
    <3> DEFINE id == TileId(BgMap, BgPlace(x).x, BgPlace(x).y)
    <3>1. id \in Byte /\ BgPlace(x).y \in Int
      BY <1>1, BgTile DEF Byte
    <3>2. BgAddr(x) = TileSetAddr(id, BgPlace(x).y) /\ InVram(BgAddr(x))
      BY <2>1 DEF BgAddr, LineFaults
    <3> HIDE DEF id
    <3> QED
      BY <2>3, <3>1, <3>2, SetOfTile DEF ReadFromSet
  <2> QED
    BY <2>2, <2>3
<1>2. TypeOK /\ ScreenTypeOK /\ [ScreenNext]_screenVars =>
        [mode_ = "HBLANK" /\ mode_' # mode_ /\ Rendering =>
           \A x \in Column : ReadFromSet(x) <=> "bg_window_tile_set" \in lcd_control]_screenVars
  BY <1>1
<1> QED
  BY <1>2, ScreenTypeCorrect, PTL DEF ScreenSpec

\* A frame is handed out with its sprites.
LEMMA FrameShown ==
    ASSUME [ScreenNext]_screenVars, frame_parity' # frame_parity
    PROVE  shown' = WithSprites
BY DEF ScreenNext, ScreenTick, WriteClockwork, WriteControl, WriteLine, WriteMemory, screenVars, vars

\* A sprite inside the frame is copied to its box, each pixel to its place in it.
LEMMA CopiedToBox ==
    ASSUME ScreenTypeOK, NEW n \in DOMAIN oam, ~Straddles(n), NEW x \in Column, NEW y \in Row
    PROVE  \A sx, sy \in InTile :
             OnScreen(n) /\ SpriteTarget(n, sx, sy) = y * FRAME_WIDTH_PX + x
             <=> /\ InBox(n, x, y)
                 /\ sx = x + TILE_LENGTH_PX - oam[n].x
                 /\ sy = y + 2 * TILE_LENGTH_PX - oam[n].y
<1>1. TAKE sx, sy \in InTile
<1>2. oam[n].x \in Nat /\ oam[n].y \in Nat
  BY DEF ScreenTypeOK, Entry, Byte
<1>3. InBox(n, x, y) => OnScreen(n)
  BY <1>2, FrameSizes DEF InBox, InTile, OnScreen, Column, Row
<1>4. ASSUME OnScreen(n)
      PROVE  /\ oam[n].x - TILE_LENGTH_PX + sx \in Column
             /\ oam[n].y - 2 * TILE_LENGTH_PX + sy \in Int
             /\ SpriteTarget(n, sx, sy) =
                  (oam[n].y - 2 * TILE_LENGTH_PX + sy) * FRAME_WIDTH_PX
                  + (oam[n].x - TILE_LENGTH_PX + sx)
  <2> DEFINE cx == oam[n].x - TILE_LENGTH_PX
             cy == oam[n].y - 2 * TILE_LENGTH_PX
  <2>1. /\ oam[n].x \in TILE_LENGTH_PX .. FRAME_WIDTH_PX
        /\ oam[n].y \in 2 * TILE_LENGTH_PX .. SCANLINES_PER_FRAME + TILE_LENGTH_PX
    BY <1>4 DEF Straddles
  <2>2. cx \in Nat /\ cy \in Nat /\ cx + sx \in Column
    BY <1>2, <2>1, FrameSizes DEF InTile, Column
  <2>3. cx % ByteSize = cx /\ cy % ByteSize = cy
    BY <1>4, <2>1, <1>2, FrameSizes, SpriteCorner
  <2>4. SpriteTarget(n, sx, sy) = (cy + sy) * FRAME_WIDTH_PX + cx + sx
    BY <2>3 DEF SpriteTarget
  <2>5. (cy + sy) * FRAME_WIDTH_PX \in Int /\ sx \in Int
    BY <2>2, FrameSizes DEF InTile
  <2> HIDE DEF cx, cy
  <2>6. SpriteTarget(n, sx, sy) = (cy + sy) * FRAME_WIDTH_PX + (cx + sx)
    BY <2>2, <2>4, <2>5
  <2> QED
    BY <2>2, <2>5, <2>6 DEF cx, cy, InTile
<1>5. ASSUME OnScreen(n), SpriteTarget(n, sx, sy) = y * FRAME_WIDTH_PX + x
      PROVE  /\ InBox(n, x, y)
             /\ sx = x + TILE_LENGTH_PX - oam[n].x
             /\ sy = y + 2 * TILE_LENGTH_PX - oam[n].y
  <2> DEFINE tx == oam[n].x - TILE_LENGTH_PX + sx
             ty == oam[n].y - 2 * TILE_LENGTH_PX + sy
  <2>1. /\ tx \in Column /\ ty \in Int /\ y \in Int
        /\ ty * FRAME_WIDTH_PX + tx = y * FRAME_WIDTH_PX + x
    BY <1>4, <1>5 DEF Row
  <2> HIDE DEF tx, ty
  <2>2. ty = y /\ tx = x
    BY <2>1, PixelUnique
  <2>3. /\ sx = x + TILE_LENGTH_PX - oam[n].x
        /\ sy = y + 2 * TILE_LENGTH_PX - oam[n].y
    BY <1>2, <2>2, FrameSizes DEF tx, ty, InTile
  <2> QED
    BY <2>3 DEF InBox
<1>6. ASSUME InBox(n, x, y),
             sx = x + TILE_LENGTH_PX - oam[n].x, sy = y + 2 * TILE_LENGTH_PX - oam[n].y
      PROVE  OnScreen(n) /\ SpriteTarget(n, sx, sy) = y * FRAME_WIDTH_PX + x
  <2>1. OnScreen(n)
    BY <1>3, <1>6
  <2>2. /\ oam[n].x - TILE_LENGTH_PX + sx = x
        /\ oam[n].y - 2 * TILE_LENGTH_PX + sy = y
    BY <1>2, <1>6, FrameSizes DEF Column, Row
  <2> QED
    BY <1>4, <2>1, <2>2
<1> QED
  BY <1>5, <1>6

\* ppu.cc:286-325: for every frame and every OAM in which no sprite is across
\* the border, the frame shows each sprite in its box and elsewhere what the
\* scanlines painted.
THEOREM SpritesCorrect == ScreenSpec => SpritesInTheirBoxes
<1> DEFINE Over(x, y) == {n \in DOMAIN oam : "obj_enable" \in lcd_control /\ InBox(n, x, y)}
           Boxed(x, y) ==
             \/ Over(x, y) = {} /\ shown'[y * FRAME_WIDTH_PX + x] = pixels[y * FRAME_WIDTH_PX + x]
             \/ \E n \in Over(x, y) :
                   /\ \A other \in Over(x, y) : other <= n
                   /\ shown'[y * FRAME_WIDTH_PX + x] =
                        SpritePixel(n, x + TILE_LENGTH_PX - oam[n].x,
                                       y + 2 * TILE_LENGTH_PX - oam[n].y)
<1>1. ASSUME ScreenTypeOK, [ScreenNext]_screenVars, frame_parity' # frame_parity,
             ~(\E n \in DOMAIN oam : Straddles(n)), NEW x \in Column, NEW y \in Row
      PROVE  Boxed(x, y)
  <2> DEFINE p == y * FRAME_WIDTH_PX + x
  <2>1. p \in Pixel
    <3>1. y \in Nat /\ y < SCANLINES_PER_FRAME
      BY FrameSizes DEF Row
    <3> QED
      BY <3>1, PixelInFrame
  <2>2. \A n \in DOMAIN oam : \A sx, sy \in InTile :
          OnScreen(n) /\ SpriteTarget(n, sx, sy) = p
          <=> /\ InBox(n, x, y)
              /\ sx = x + TILE_LENGTH_PX - oam[n].x
              /\ sy = y + 2 * TILE_LENGTH_PX - oam[n].y
    BY <1>1, CopiedToBox
  <2>3. shown'[p] = IF "obj_enable" \in lcd_control /\ CopiedTo(p) # {}
                    THEN SpritePixel(LastCopied(p).sprite, LastCopied(p).x, LastCopied(p).y)
                    ELSE pixels[p]
    BY <1>1, <2>1, FrameShown DEF WithSprites
  <2> HIDE DEF p
  <2>4. ASSUME NEW n \in DOMAIN oam, InBox(n, x, y)
        PROVE  \E s \in CopiedTo(p) : s.sprite = n
    <3> DEFINE sx == x + TILE_LENGTH_PX - oam[n].x
               sy == y + 2 * TILE_LENGTH_PX - oam[n].y
               s  == [sprite |-> n, x |-> sx, y |-> sy]
    <3>1. sx \in InTile /\ sy \in InTile
      BY <2>4 DEF InBox
    <3>2. OnScreen(n) /\ SpriteTarget(n, sx, sy) = p
      BY <2>2, <2>4, <3>1
    <3>3. s \in CopiedTo(p)
      BY <3>1, <3>2 DEF CopiedTo
    <3> QED
      BY <3>3
  <2>5. ASSUME NEW s \in CopiedTo(p)
        PROVE  /\ s.sprite \in DOMAIN oam /\ InBox(s.sprite, x, y)
               /\ s.x = x + TILE_LENGTH_PX - oam[s.sprite].x
               /\ s.y = y + 2 * TILE_LENGTH_PX - oam[s.sprite].y
    BY <2>2, <2>5 DEF CopiedTo
  <2>6. CASE "obj_enable" \in lcd_control /\ CopiedTo(p) # {}
    <3> DEFINE s == LastCopied(p)
    <3>1. s \in CopiedTo(p) /\ \A other \in CopiedTo(p) : s.sprite >= other.sprite
      BY <1>1, <2>6, LastCopiedExists
    <3>2. shown'[p] = SpritePixel(s.sprite, s.x, s.y)
      BY <2>3, <2>6
    <3> HIDE DEF s
    <3>3. s.sprite \in Over(x, y)
      BY <2>5, <2>6, <3>1
    <3>4. ASSUME NEW other \in Over(x, y) PROVE other <= s.sprite
      <4>1. PICK o \in CopiedTo(p) : o.sprite = other
        BY <2>4
      <4>2. s.sprite >= other
        BY <3>1, <4>1
      <4>3. s.sprite \in Int /\ other \in Int
        BY <1>1, <3>3 DEF ScreenTypeOK
      <4> QED
        BY <4>2, <4>3
    <3>5. shown'[p] = SpritePixel(s.sprite, x + TILE_LENGTH_PX - oam[s.sprite].x,
                                            y + 2 * TILE_LENGTH_PX - oam[s.sprite].y)
      BY <2>5, <3>1, <3>2
    <3> QED
      BY <3>3, <3>4, <3>5 DEF p
  <2>7. CASE ~("obj_enable" \in lcd_control /\ CopiedTo(p) # {})
    <3>1. Over(x, y) = {}
      BY <2>4, <2>7
    <3> QED
      BY <2>3, <2>7, <3>1 DEF p
  <2> QED
    BY <2>6, <2>7
<1> HIDE DEF Boxed
<1>2. ScreenTypeOK /\ [ScreenNext]_screenVars =>
        [frame_parity' # frame_parity /\ ~(\E n \in DOMAIN oam : Straddles(n)) =>
           \A x \in Column, y \in Row : Boxed(x, y)]_screenVars
  BY <1>1
<1> QED
  BY <1>2, ScreenTypeCorrect, PTL DEF ScreenSpec, SpritesInTheirBoxes, Boxed
-------------------------------------------------------------------------------
(* Programs that cannot be ended by drawing, though tiles and sprites may  *)
(* hold anything that the code could fault on.                             *)

\* An entry of OAM whose sprite is off the screen, or whose box is within it.
StaysInside(entry) ==
    \/ entry.y = 0 \/ entry.y >= SCANLINES_PER_FRAME + 2 * TILE_LENGTH_PX
    \/ entry.x = 0 \/ entry.x >= FRAME_WIDTH_PX + TILE_LENGTH_PX
    \/ /\ entry.x \in TILE_LENGTH_PX .. FRAME_WIDTH_PX
       /\ entry.y \in 2 * TILE_LENGTH_PX .. SCANLINES_PER_FRAME + TILE_LENGTH_PX

\* A program that leaves LINE alone, turns the background on with the first
\* tile set only, and moves no sprite across the border.
TameProgram ==
    /\ LineWrites = {}
    /\ \A v \in ControlWrites :
          {"lcd_enable", "bg_window_enable"} \subseteq v => "bg_window_tile_set" \in v
    /\ \A w \in OamWrites : StaysInside(w[2])

\* What its stores keep true.
TameInv ==
    /\ Rendering => "bg_window_tile_set" \in lcd_control
    /\ \A n \in 0 .. Sprites - 1 : StaysInside(oam[n])

\* A sprite inside the frame, or off the screen, does not leave the frame.
LEMMA InsideStays ==
    ASSUME ScreenTypeOK, NEW n \in 0 .. Sprites - 1, StaysInside(oam[n])
    PROVE  ~LeavesFrame(n)
<1>1. oam[n].x \in Byte /\ oam[n].y \in Byte
  BY DEF ScreenTypeOK, Entry
<1>2. /\ SCANLINES_PER_FRAME \in Nat /\ FRAME_WIDTH_PX \in Nat
      /\ TILE_LENGTH_PX \in Nat \ {0}
  BY LinesAssumption, FrameAssumption, TilesAssumption
<1> QED
  BY <1>1, <1>2 DEF StaysInside, LeavesFrame, OnScreen, Byte

\* A tick that does not throw is one in which nothing is out of range.
LEMMA TickWithoutFault ==
    ASSUME TypeOK, NEW c, NEW fault \in BOOLEAN, Tick(c, fault), ~thrown'
    PROVE  Tick(c, FALSE)
<1>1. CASE cycles_elapsed_ + c >= Limit
  <2>1. EndOfMode(fault)
    BY <1>1 DEF Tick
  <2>2. EndOfHblank(fault) => EndOfHblank(FALSE)
    BY DEF EndOfHblank, ScanlineThrows
  <2>3. EndOfVblankLine(fault) => EndOfVblankLine(FALSE)
    BY DEF EndOfVblankLine
  <2>4. EndOfMode(FALSE)
    <3>1. CASE mode_ = "HBLANK"
      BY <2>1, <2>2, <3>1 DEF EndOfMode
    <3>2. CASE mode_ = "VBLANK"
      BY <2>1, <2>3, <3>2 DEF EndOfMode
    <3>3. CASE mode_ = "READ_OAM" \/ mode_ = "READ_VRAM"
      BY <2>1, <3>3 DEF EndOfMode
    <3> QED
      BY <3>1, <3>2, <3>3 DEF TypeOK, Mode
  <2> QED
    BY <1>1, <2>4 DEF Tick
<1>2. CASE ~(cycles_elapsed_ + c >= Limit)
  BY <1>2 DEF Tick
<1> QED
  BY <1>1, <1>2

\* Under a tame program every tick is one in which nothing is out of range.
LEMMA TameTick ==
    ASSUME TypeOK, ScreenTypeOK, FrameInv, TameInv, NEW c \in TickCycles, ScreenTick(c)
    PROVE  Tick(c, FALSE)
<1>1. Tick(c, Faults)
  BY DEF ScreenTick
<1>2. mode_ = "HBLANK" => ~(line >= SCANLINES_PER_FRAME)
  BY LinesAssumption DEF FrameInv, LineFitsMode, Row
<1>3. \A n \in DOMAIN oam : ~LeavesFrame(n)
  BY InsideStays DEF TameInv, ScreenTypeOK
<1>4. ~thrown'
  BY <1>1, <1>2, <1>3, TickThrows DEF TameInv
<1>5. Faults \in BOOLEAN
  BY FaultsType, ScreenWritesAssumption
<1> QED
  BY <1>1, <1>4, <1>5, TickWithoutFault

\* A tame program stays within what its stores keep true.
LEMMA TameStores ==
    ASSUME TameProgram, ScreenTypeOK, TameInv, [ScreenNext]_screenVars
    PROVE  TameInv'
<1>1. ASSUME NEW c \in TickCycles, ScreenTick(c) PROVE TameInv'
  BY <1>1 DEF ScreenTick, Tick, TameInv, Rendering, memory, StaysInside
<1>2. CASE WriteClockwork
  <2>1. lcd_control' \in ControlWrites \/ UNCHANGED lcd_control
    BY <1>2 DEF WriteClockwork, WriteControl, WriteLine
  <2>2. UNCHANGED oam
    BY <1>2 DEF WriteClockwork, memory
  <2> QED
    BY <2>1, <2>2 DEF TameProgram, TameInv, Rendering
<1>3. CASE WriteMemory
  <2>1. UNCHANGED lcd_control
    BY <1>3 DEF WriteMemory, vars
  <2>2. \A n \in 0 .. Sprites - 1 : StaysInside(oam'[n])
    <3>1. CASE UNCHANGED oam
      BY <3>1 DEF TameInv
    <3>2. ASSUME NEW w \in OamWrites, oam' = [oam EXCEPT ![w[1]] = w[2]]
          PROVE  \A n \in 0 .. Sprites - 1 : StaysInside(oam'[n])
      <4>1. \A n \in 0 .. Sprites - 1 : oam'[n] = oam[n] \/ oam'[n] = w[2]
        BY <3>2 DEF ScreenTypeOK
      <4> QED
        BY <4>1 DEF TameInv, TameProgram
    <3> QED
      BY <1>3, <3>1, <3>2 DEF WriteMemory
  <2> QED
    BY <2>1, <2>2 DEF TameInv, Rendering
<1>4. CASE UNCHANGED screenVars
  BY <1>4 DEF screenVars, vars, memory, TameInv, Rendering
<1> QED
  BY <1>1, <1>2, <1>3, <1>4 DEF ScreenNext

\* Under a tame program the frame's invariant holds, whatever vram holds.
LEMMA TameFrame ==
    ASSUME TameProgram
    PROVE  ScreenSpec => [](FrameInv /\ TameInv)
<1>1. ScreenInit => FrameInv /\ TameInv
  <2> SUFFICES ASSUME ScreenInit PROVE FrameInv /\ TameInv
    OBVIOUS
  <2>1. LineFitsMode
    BY ClocksAssumption, LinesAssumption DEF ScreenInit, Init, LineFitsMode, Limit, Clocks, Row
  <2>2. FrameInv
    BY <2>1 DEF ScreenInit, Init, FrameInv, NoStaleRow, NeverThrows, Blank
  <2>3. TameInv
    BY DEF ScreenInit, Init, TameInv, Rendering, StaysInside
  <2> QED
    BY <2>2, <2>3
<1>2. TypeOK /\ ScreenTypeOK /\ FrameInv /\ TameInv /\ [ScreenNext]_screenVars
      => FrameInv' /\ TameInv'
  <2> SUFFICES ASSUME TypeOK, ScreenTypeOK, FrameInv, TameInv, [ScreenNext]_screenVars
               PROVE  FrameInv'
    BY TameStores
  <2> USE DEF FrameInv, LineFitsMode, NoStaleRow, NeverThrows
  <2>1. ASSUME NEW c \in TickCycles, ScreenTick(c) PROVE FrameInv'
    BY <2>1, TameTick, TickKeepsFrameInv
  <2>2. CASE WriteClockwork
    BY <2>2 DEF WriteClockwork, WriteControl, Limit, TameProgram
  <2>3. CASE WriteMemory
    BY <2>3 DEF WriteMemory, vars, Limit
  <2>4. CASE UNCHANGED screenVars
    BY <2>4 DEF screenVars, vars, Limit
  <2> QED
    BY <2>1, <2>2, <2>3, <2>4 DEF ScreenNext
<1> QED
  BY <1>1, <1>2, ScreenTypeCorrect, PTL DEF ScreenSpec

\* ppu.cc:161-325: a program that leaves LINE alone, shows the background from
\* the first tile set and moves no sprite across the border is never ended by
\* drawing, for every frame and whatever it stores in vram.
THEOREM TameNeverThrows ==
    ASSUME TameProgram
    PROVE  ScreenSpec => []NeverThrows
<1>1. FrameInv => NeverThrows
  BY DEF FrameInv
<1> QED
  BY <1>1, TameFrame, PTL

\* ppu.cc tick(): for such a program, painting included, the display is one
\* steady beam with its requests and frames at its marks.
THEOREM TameScreenIsLcdClock ==
    ASSUME TameProgram
    PROVE  ScreenSpec => RefinesLcdClock
<1>1. ScreenInit => Lcd!Init
  <2> SUFFICES ASSUME ScreenInit PROVE Lcd!Init
    OBVIOUS
  <2>1. Beam = 0
    BY ScanlineClocks DEF ScreenInit, Init, Offset, Beam
  <2> QED
    BY <2>1 DEF ScreenInit, Init, Lcd!Init
<1>2. TypeOK /\ TypeOK' /\ ScreenTypeOK /\ FrameInv /\ TameInv /\ [ScreenNext]_screenVars
      => [Lcd!Next]_Lcd!lvars
  <2> SUFFICES ASSUME TypeOK, TypeOK', ScreenTypeOK, FrameInv, TameInv,
                      [ScreenNext]_screenVars
               PROVE  [Lcd!Next]_Lcd!lvars
    OBVIOUS
  <2>1. ASSUME NEW c \in TickCycles, ScreenTick(c) PROVE Lcd!Next
    BY <2>1, TameTick, TickIsBeamStep DEF Lcd!Next
  <2>2. CASE WriteClockwork
    BY <2>2 DEF WriteClockwork, WriteControl, TameProgram, Lcd!lvars, Beam
  <2>3. CASE WriteMemory
    BY <2>3 DEF WriteMemory, vars, Lcd!lvars, Beam
  <2>4. CASE UNCHANGED screenVars
    BY <2>4 DEF screenVars, vars, Lcd!lvars, Beam
  <2> QED
    BY <2>1, <2>2, <2>3, <2>4 DEF ScreenNext
<1> QED
  BY <1>1, <1>2, TameFrame, ScreenTypeCorrect, PTL DEF ScreenSpec, Lcd!Spec, RefinesLcdClock
===============================================================================
