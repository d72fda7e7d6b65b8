SPECIFICATION MCSpec
CONSTANTS
    ByteSize = 8
    WordSize = 128
    CLOCKS_PER_SCANLINE_OAM = 1
    CLOCKS_PER_SCANLINE_VRAM = 1
    CLOCKS_PER_HBLANK = 1
    SCANLINES_PER_FRAME = 2
    SCANLINES_PER_VBLANK = 1
    FRAME_WIDTH_PX = 5
    TILE_LENGTH_PX = 2
    Sprites = 2
    TickCycles = {1}
    ControlWrites <- MCControlWrites
    StatusWrites = {}
    LineWrites = {0, 2, 7}
    CompareWrites = {}
    RenderFaults = {FALSE, TRUE}
    ScrollWrites <- MCScrollWrites
    WindowWrites <- MCWindowWrites
    PaletteWrites <- MCPaletteWrites
    VramWrites <- MCVramWrites
    OamWrites <- MCOamWrites
    MaxWrites = 1
INVARIANT ScreenTypeOK
PROPERTIES
    RowShowsTiles
    SpritesInTheirBoxes
    ThrowsExactly
    KeepsDrawing
\* An uncaught exception ends the program.
CHECK_DEADLOCK FALSE
