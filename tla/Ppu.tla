--------------------------------- MODULE Ppu ----------------------------------
(***************************************************************************)
(* The picture processing unit's clockwork: src/src/ppu.hh, and tick(),    *)
(* set_mode_() and write_scanline_() of src/src/ppu/ppu.cc, with the       *)
(* writes Cpu::write_ makes to its registers.                              *)
(*                                                                         *)
(* A row of the frame buffer is either white or painted; what is painted   *)
(* there is pixel arithmetic and has no effect on the clockwork but one:   *)
(* an index out of vram or of the frame throws std::out_of_range, which    *)
(* nothing catches.                                                        *)
(***************************************************************************)
EXTENDS Integers, FiniteSets, Interrupts

CONSTANTS
    ByteSize,                    \* values of a ByteRegister; 256
    CLOCKS_PER_SCANLINE_OAM,     \* 80
    CLOCKS_PER_SCANLINE_VRAM,    \* 172
    CLOCKS_PER_HBLANK,           \* 204
    SCANLINES_PER_FRAME,         \* 144
    SCANLINES_PER_VBLANK,        \* 10
    TickCycles,      \* what tick() may be given: 4 * the cycles of an instruction
    ControlWrites,   \* the values the program stores in lcd_control
    StatusWrites,    \* ... in lcd_status
    LineWrites,      \* ... in line
    CompareWrites,   \* ... in ly_compare
    RenderFaults     \* {FALSE}, or BOOLEAN if vram and oam may hold tiles or
                     \* sprites whose pixels are out of range

CLOCKS_PER_SCANLINE ==
    CLOCKS_PER_SCANLINE_OAM + CLOCKS_PER_SCANLINE_VRAM + CLOCKS_PER_HBLANK
SCANLINES == SCANLINES_PER_FRAME + SCANLINES_PER_VBLANK

Mode        == {"READ_OAM", "READ_VRAM", "HBLANK", "VBLANK"}
Byte        == 0 .. ByteSize - 1
Row         == 0 .. SCANLINES_PER_FRAME - 1
LcdControl  == SUBSET {"lcd_enable", "window_tile_map", "window_enable", "bg_window_tile_set",
                       "bg_tile_map", "obj_enable", "bg_window_enable"}
LcdStatus   == [interrupt_on : SUBSET {"ly_lyc_coincide", "oam_read", "vblank", "hblank"},
                ly_lyc_coincide : BOOLEAN,
                mode : 0 .. 3]

ASSUME ClocksAssumption ==
    /\ CLOCKS_PER_SCANLINE_OAM \in Nat \ {0}
    /\ CLOCKS_PER_SCANLINE_VRAM \in Nat \ {0}
    /\ CLOCKS_PER_HBLANK \in Nat \ {0}
ASSUME LinesAssumption ==
    /\ SCANLINES_PER_FRAME \in Nat \ {0}
    /\ SCANLINES_PER_VBLANK \in Nat \ {0}
    /\ ByteSize \in Nat
    /\ SCANLINES < ByteSize
\* The longest instruction, 24 clocks, is shorter than every mode.
ASSUME TickAssumption ==
    \A c \in TickCycles :
        /\ c \in Nat
        /\ c <= CLOCKS_PER_SCANLINE_OAM
        /\ c <= CLOCKS_PER_SCANLINE_VRAM
        /\ c <= CLOCKS_PER_HBLANK
ASSUME WritesAssumption ==
    /\ ControlWrites \subseteq LcdControl
    /\ StatusWrites \subseteq LcdStatus
    /\ LineWrites \subseteq Byte
    /\ CompareWrites \subseteq Byte
    /\ RenderFaults \subseteq BOOLEAN

VARIABLES
    mode_,
    cycles_elapsed_,
    line,             \* 0xFF44
    ly_compare,       \* 0xFF45
    lcd_control,      \* 0xFF40, the flags that are 1
    lcd_status,       \* 0xFF41
    frame_buffer_,
    frame_parity,     \* calls of draw_fn_ so far, modulo 2
    thrown,           \* an uncaught exception has ended the program
    interrupt_flag    \* Cpu::interrupt_flag, which the callbacks reach

vars == <<mode_, cycles_elapsed_, line, ly_compare, lcd_control, lcd_status,
          frame_buffer_, frame_parity, thrown, interrupt_flag>>

TypeOK ==
    /\ mode_ \in Mode
    /\ cycles_elapsed_ \in Nat
    /\ line \in Byte
    /\ ly_compare \in Byte
    /\ lcd_control \in LcdControl
    /\ lcd_status \in LcdStatus
    /\ frame_buffer_ \in [Row -> {"white", "painted"}]
    /\ frame_parity \in 0 .. 1
    /\ thrown \in BOOLEAN
    /\ interrupt_flag \subseteq RegisterBit

Blank == [y \in Row |-> "white"]

Init ==
    /\ mode_ = "READ_OAM"
    /\ cycles_elapsed_ = 0
    /\ line = 0
    /\ ly_compare = 0
    /\ lcd_control = {}
    /\ lcd_status = [interrupt_on |-> {}, ly_lyc_coincide |-> FALSE, mode |-> 0]
    /\ frame_buffer_ = Blank
    /\ frame_parity = 0
    /\ thrown = FALSE
    /\ interrupt_flag = {}

-------------------------------------------------------------------------------
(* tick()                                                                  *)

\* The clocks a mode lasts.
Clocks(mode) ==
    CASE mode = "READ_OAM"  -> CLOCKS_PER_SCANLINE_OAM
      [] mode = "READ_VRAM" -> CLOCKS_PER_SCANLINE_VRAM
      [] mode = "HBLANK"    -> CLOCKS_PER_HBLANK
      [] mode = "VBLANK"    -> CLOCKS_PER_SCANLINE

Limit == Clocks(mode_)

\* The mode bits of lcd_status that set_mode_() writes.
ModeBits(mode) ==
    CASE mode = "HBLANK"    -> 0
      [] mode = "VBLANK"    -> 1
      [] mode = "READ_OAM"  -> 2
      [] mode = "READ_VRAM" -> 3

\* set_mode_(), on top of what the handler has just made of lcd_status.
SetMode(mode, status) ==
    /\ mode_' = mode
    /\ lcd_status' = [status EXCEPT !.mode = ModeBits(mode)]

EndOfOam ==
    /\ SetMode("READ_VRAM", lcd_status)
    /\ UNCHANGED <<line, frame_buffer_, frame_parity, thrown, interrupt_flag>>

\* The interrupt tests the compare registers, then the flag records the match.
EndOfVram ==
    /\ interrupt_flag' =
         IF \/ "hblank" \in lcd_status.interrupt_on
            \/ "ly_lyc_coincide" \in lcd_status.interrupt_on /\ ly_compare = line
         THEN interrupt_flag \cup {LCD_STAT}
         ELSE interrupt_flag
    /\ SetMode("HBLANK", [lcd_status EXCEPT !.ly_lyc_coincide = (ly_compare = line)])
    /\ UNCHANGED <<line, frame_buffer_, frame_parity, thrown>>

Rendering == {"lcd_enable", "bg_window_enable"} \subseteq lcd_control

\* write_scanline_(): nothing, a painted row, or an exception from .at().
ScanlineThrows(fault) == Rendering /\ (line >= SCANLINES_PER_FRAME \/ fault)

WrittenScanline ==
    IF Rendering THEN [frame_buffer_ EXCEPT ![line] = "painted"] ELSE frame_buffer_

\* A plausible slip: a line counter that sticks at its end.
Bug_StickyLine == IF line = ByteSize - 1 THEN line ELSE line + 1

NextLine == (line + 1) % ByteSize

\* A plausible slip: the line is compared before it is incremented.
Bug_VblankLate(fault) ==
    IF ScanlineThrows(fault)
    THEN /\ thrown' = TRUE
         /\ UNCHANGED <<mode_, line, lcd_status, frame_buffer_, frame_parity, interrupt_flag>>
    ELSE /\ frame_buffer_' = WrittenScanline
         /\ line' = NextLine
         /\ IF line = SCANLINES_PER_FRAME
            THEN /\ interrupt_flag' = interrupt_flag \cup {VBLANK}
                 /\ SetMode("VBLANK", lcd_status)
            ELSE /\ SetMode("READ_OAM", lcd_status)
                 /\ UNCHANGED interrupt_flag
         /\ UNCHANGED <<frame_parity, thrown>>

\* The scanline is written, and the last visible one begins the vblank.
EndOfHblank(fault) ==
    IF ScanlineThrows(fault)
    THEN /\ thrown' = TRUE
         /\ UNCHANGED <<mode_, line, lcd_status, frame_buffer_, frame_parity, interrupt_flag>>
    ELSE /\ frame_buffer_' = WrittenScanline
         /\ line' = NextLine
         /\ IF NextLine = SCANLINES_PER_FRAME
            THEN /\ interrupt_flag' = interrupt_flag \cup {VBLANK}
                 /\ SetMode("VBLANK", lcd_status)
            ELSE /\ SetMode("READ_OAM", lcd_status)
                 /\ UNCHANGED interrupt_flag
         /\ UNCHANGED <<frame_parity, thrown>>

\* A plausible slip: the frame buffer is not wiped.
Bug_NoWipe ==
    /\ frame_parity' = 1 - frame_parity
    /\ line' = 0
    /\ SetMode("READ_OAM", lcd_status)
    /\ UNCHANGED <<frame_buffer_, thrown, interrupt_flag>>

\* The sprites are over; hand the frame to draw_fn_ and start the next one.
DrawFrame ==
    /\ frame_parity' = 1 - frame_parity
    /\ line' = 0
    /\ SetMode("READ_OAM", lcd_status)
    /\ frame_buffer_' = Blank
    /\ UNCHANGED <<thrown, interrupt_flag>>

\* A line of the vblank ends; after the last, draw_sprites_() may throw.
EndOfVblankLine(fault) ==
    IF NextLine # SCANLINES
    THEN /\ line' = NextLine
         /\ UNCHANGED <<mode_, lcd_status, frame_buffer_, frame_parity, thrown, interrupt_flag>>
    ELSE IF "obj_enable" \in lcd_control /\ fault
         THEN /\ thrown' = TRUE
              /\ line' = NextLine
              /\ UNCHANGED <<mode_, lcd_status, frame_buffer_, frame_parity, interrupt_flag>>
         ELSE DrawFrame

EndOfMode(fault) ==
    CASE mode_ = "READ_OAM"  -> EndOfOam
      [] mode_ = "READ_VRAM" -> EndOfVram
      [] mode_ = "HBLANK"    -> EndOfHblank(fault)
      [] mode_ = "VBLANK"    -> EndOfVblankLine(fault)

\* Plausible slips: the clocks beyond the mode's end are dropped, or kept whole,
\* or the mode's length is subtracted without a test.
Bug_DropLeftover(c) == IF cycles_elapsed_ + c >= Limit THEN 0 ELSE cycles_elapsed_ + c

Bug_KeepWhole(c) == cycles_elapsed_ + c

Bug_Underflow(c) == cycles_elapsed_ + c - Limit

Elapse(c) == (cycles_elapsed_ + c) % Limit

\* At most one mode ends in a tick: TickAssumption.
Tick(c, fault) ==
    /\ ~thrown
    /\ cycles_elapsed_' = Elapse(c)
    /\ IF cycles_elapsed_ + c >= Limit
       THEN EndOfMode(fault)
       ELSE UNCHANGED <<mode_, line, lcd_status, frame_buffer_, frame_parity,
                        thrown, interrupt_flag>>
    /\ UNCHANGED <<ly_compare, lcd_control>>

-------------------------------------------------------------------------------
(* The registers as the CPU writes them, and its acknowledgements.         *)

WriteControl(v) ==
    /\ ~thrown
    /\ lcd_control' = v
    /\ UNCHANGED <<mode_, cycles_elapsed_, line, ly_compare, lcd_status,
                   frame_buffer_, frame_parity, thrown, interrupt_flag>>

\* A whole byte: LcdStatus::set does not protect the mode bits.
WriteStatus(v) ==
    /\ ~thrown
    /\ lcd_status' = v
    /\ UNCHANGED <<mode_, cycles_elapsed_, line, ly_compare, lcd_control,
                   frame_buffer_, frame_parity, thrown, interrupt_flag>>

WriteLine(v) ==
    /\ ~thrown
    /\ line' = v
    /\ UNCHANGED <<mode_, cycles_elapsed_, ly_compare, lcd_control, lcd_status,
                   frame_buffer_, frame_parity, thrown, interrupt_flag>>

WriteCompare(v) ==
    /\ ~thrown
    /\ ly_compare' = v
    /\ UNCHANGED <<mode_, cycles_elapsed_, line, lcd_control, lcd_status,
                   frame_buffer_, frame_parity, thrown, interrupt_flag>>

Ack(source) ==
    /\ ~thrown
    /\ source \in interrupt_flag
    /\ interrupt_flag' = interrupt_flag \ {source}
    /\ UNCHANGED <<mode_, cycles_elapsed_, line, ly_compare, lcd_control,
                   lcd_status, frame_buffer_, frame_parity, thrown>>

Next ==
    \/ \E c \in TickCycles, fault \in RenderFaults : Tick(c, fault)
    \/ \E v \in ControlWrites : WriteControl(v)
    \/ \E v \in StatusWrites : WriteStatus(v)
    \/ \E v \in LineWrites : WriteLine(v)
    \/ \E v \in CompareWrites : WriteCompare(v)
    \/ \E source \in {VBLANK, LCD_STAT} : Ack(source)

Spec == Init /\ [][Next]_vars

\* Gbc::run() calls tick() after every instruction, for ever.
FairSpec ==
    Spec /\ WF_vars(\E c \in TickCycles \ {0}, fault \in RenderFaults : Tick(c, fault))

-------------------------------------------------------------------------------
(* What the clockwork promises.                                            *)

\* The clocks of a scanline before a mode begins.
Offset(mode) ==
    CASE mode = "READ_OAM"  -> 0
      [] mode = "READ_VRAM" -> CLOCKS_PER_SCANLINE_OAM
      [] mode = "HBLANK"    -> CLOCKS_PER_SCANLINE_OAM + CLOCKS_PER_SCANLINE_VRAM
      [] mode = "VBLANK"    -> 0

\* Where the beam is, in clocks since the frame began.
Beam == line * CLOCKS_PER_SCANLINE + Offset(mode_) + cycles_elapsed_

Lcd == INSTANCE LcdClock WITH
    VisibleClocks <- SCANLINES_PER_FRAME * CLOCKS_PER_SCANLINE,
    FrameClocks   <- SCANLINES * CLOCKS_PER_SCANLINE,
    beam          <- Beam,
    vblank        <- VBLANK \in interrupt_flag,
    shown         <- frame_parity

\* ppu.cc tick(): while the program does not write LINE, the modes, the line
\* counter and the leftover clocks of every tick add up to one steady beam;
\* vblank is requested and the frame drawn at its marks and nowhere else.
RefinesLcdClock == Lcd!Spec

\* ppu.cc:59-64: while the program does not write LINE, no clock a tick is given
\* is lost or counted twice, whatever modes, lines and frames it ends.
SteadyBeam ==
    [][\A c \in TickCycles, fault \in RenderFaults :
         Tick(c, fault) => Beam' = (Beam + c) % (SCANLINES * CLOCKS_PER_SCANLINE)]_vars

\* ppu.cc:57-129: the counter is below the end of its mode, and the mode fits
\* the line: what the two branches of `line.value() == ...` rely on when they
\* test for equality and not for having passed the line.
LineFitsMode ==
    /\ cycles_elapsed_ < Limit
    /\ IF mode_ = "VBLANK" THEN line \in SCANLINES_PER_FRAME .. SCANLINES - 1
                           ELSE line \in Row

\* ppu.cc:86-124: a row the beam has not reached yet is white: neither a row
\* written early nor one left over from the frame before.
NoStaleRow == mode_ # "VBLANK" => \A y \in Row : y >= line => frame_buffer_[y] = "white"

\* ppu.cc:161-166, 319-321: while tiles and sprites are in range, drawing
\* never indexes beyond the frame.
NeverThrows == ~thrown

\* gbc.cc:78-83, ppu.cc:102-124: whatever was written to the registers, a
\* program that stops writing LINE sees frame after frame, unless drawing threw.
KeepsDrawing ==
    <>[][~\E v \in LineWrites : WriteLine(v) /\ v # line]_vars
    => (<>thrown \/ ([]<>(frame_parity = 0) /\ []<>(frame_parity = 1)))

===============================================================================
