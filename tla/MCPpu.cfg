SPECIFICATION Spec
CONSTANTS
    ByteSize = 6
    CLOCKS_PER_SCANLINE_OAM = 2
    CLOCKS_PER_SCANLINE_VRAM = 3
    CLOCKS_PER_HBLANK = 2
    SCANLINES_PER_FRAME = 2
    SCANLINES_PER_VBLANK = 2
    TickCycles = {0, 1, 2}
    ControlWrites <- MCControlWrites
    StatusWrites <- MCStatusWrites
    LineWrites = {}
    CompareWrites = {0, 1, 5}
    RenderFaults = {FALSE}
INVARIANTS
    TypeOK
    LineFitsMode
    NoStaleRow
    NeverThrows
PROPERTIES
    RefinesLcdClock
    SteadyBeam
