------------------------------ MODULE PpuProofs -------------------------------
(***************************************************************************)
(* Theorems about Ppu for every frame size and every length of the modes.  *)
(* Types hold whatever the program writes; the timing and the contents of  *)
(* the frame buffer hold for programs that do not write LINE, with tiles   *)
(* and sprites in range.                                                   *)
(***************************************************************************)
EXTENDS Ppu, TLAPS

\* Adding at most one period to a value below it, as line and clocks do.
LEMMA FoldSum ==
    ASSUME NEW p \in Nat \ {0}, NEW a \in 0 .. p - 1, NEW c \in 0 .. p
    PROVE  (a + c) % p = IF a + c >= p THEN a + c - p ELSE a + c
BY SMT

\* SetMode keeps the status register a status register.
LEMMA SetModeType ==
    ASSUME NEW mode \in Mode, NEW status \in LcdStatus, SetMode(mode, status)
    PROVE  mode_' \in Mode /\ lcd_status' \in LcdStatus
BY DEF Mode, LcdStatus, SetMode, ModeBits

\* The next line is a byte: the next number, or 0 after the last value.
LEMMA NextLineType ==
    ASSUME TypeOK
    PROVE  /\ NextLine \in Byte
           /\ NextLine = IF line = ByteSize - 1 THEN 0 ELSE line + 1
<1>1. ByteSize \in Nat \ {0}
  BY LinesAssumption DEF SCANLINES
<1>2. line \in 0 .. ByteSize - 1 /\ 1 \in 0 .. ByteSize
  BY <1>1 DEF TypeOK, Byte
<1>3. NextLine = IF line + 1 >= ByteSize THEN line + 1 - ByteSize ELSE line + 1
  BY <1>1, <1>2, FoldSum DEF NextLine
<1> QED
  BY <1>1, <1>2, <1>3 DEF Byte

\* Every mode lasts some clocks, and no tick is longer than a mode.
LEMMA LimitType ==
    ASSUME TypeOK
    PROVE  /\ Limit \in Nat \ {0}
           /\ \A c \in TickCycles : c \in Nat /\ c <= Limit
BY ClocksAssumption, TickAssumption DEF TypeOK, Mode, Limit, Clocks, CLOCKS_PER_SCANLINE

\* A scanline that does not throw leaves a frame buffer.
LEMMA ScanlineType ==
    ASSUME TypeOK, NEW fault \in BOOLEAN, ~ScanlineThrows(fault)
    PROVE  WrittenScanline \in [Row -> {"white", "painted"}]
BY LinesAssumption DEF TypeOK, ScanlineThrows, WrittenScanline, Row, Byte

\* The end of a mode keeps every variable in its type.
LEMMA EndOfModeType ==
    ASSUME TypeOK, NEW fault \in BOOLEAN, EndOfMode(fault)
    PROVE  /\ mode_' \in Mode
           /\ line' \in Byte
           /\ lcd_status' \in LcdStatus
           /\ frame_buffer_' \in [Row -> {"white", "painted"}]
           /\ frame_parity' \in 0 .. 1
           /\ thrown' \in BOOLEAN
           /\ interrupt_flag' \subseteq RegisterBit
<1>0. VBLANK \in RegisterBit /\ LCD_STAT \in RegisterBit
  BY DEF RegisterBit, VBLANK, LCD_STAT
<1>1. CASE mode_ = "READ_OAM"
  BY <1>1, SetModeType DEF EndOfMode, EndOfOam, TypeOK, Mode
<1>2. CASE mode_ = "READ_VRAM"
  <2>1. [lcd_status EXCEPT !.ly_lyc_coincide = (ly_compare = line)] \in LcdStatus
    BY DEF TypeOK, LcdStatus
  <2>2. mode_' \in Mode /\ lcd_status' \in LcdStatus
    BY <1>2, <2>1, SetModeType DEF EndOfMode, EndOfVram, Mode
  <2> QED
    BY <1>0, <1>2, <2>2 DEF EndOfMode, EndOfVram, TypeOK
<1>3. CASE mode_ = "HBLANK"
  <2>1. EndOfHblank(fault)
    BY <1>3 DEF EndOfMode
  <2>2. CASE ScanlineThrows(fault)
    BY <2>1, <2>2 DEF EndOfHblank, TypeOK
  <2>3. CASE ~ScanlineThrows(fault)
    <3>1. mode_' \in Mode /\ lcd_status' \in LcdStatus
      BY <2>1, <2>3, SetModeType DEF EndOfHblank, TypeOK, Mode
    <3>2. frame_buffer_' \in [Row -> {"white", "painted"}]
      BY <2>1, <2>3, ScanlineType DEF EndOfHblank
    <3>3. interrupt_flag' \subseteq RegisterBit
      BY <1>0, <2>1, <2>3 DEF EndOfHblank, TypeOK
    <3>4. line' \in Byte
      BY <2>1, <2>3, NextLineType DEF EndOfHblank
    <3> QED
      BY <2>1, <2>3, <3>1, <3>2, <3>3, <3>4 DEF EndOfHblank, TypeOK
  <2> QED
    BY <2>2, <2>3
<1>4. CASE mode_ = "VBLANK"
  <2>1. EndOfVblankLine(fault)
    BY <1>4 DEF EndOfMode
  <2>2. CASE DrawFrame
    <3>1. mode_' \in Mode /\ lcd_status' \in LcdStatus
      BY <2>2, SetModeType DEF DrawFrame, TypeOK, Mode
    <3>2. line' \in Byte
      BY <2>2, LinesAssumption DEF DrawFrame, Byte, SCANLINES
    <3>3. frame_buffer_' \in [Row -> {"white", "painted"}]
      BY <2>2 DEF DrawFrame, Blank
    <3> QED
      BY <2>2, <3>1, <3>2, <3>3 DEF DrawFrame, TypeOK
  <2>3. CASE ~DrawFrame
    BY <2>1, <2>3, NextLineType DEF EndOfVblankLine, TypeOK
  <2> QED
    BY <2>2, <2>3
<1> QED
  BY <1>1, <1>2, <1>3, <1>4 DEF TypeOK, Mode

\* A tick leaves every variable in its type.
LEMMA TickType ==
    ASSUME TypeOK, NEW c \in TickCycles, NEW fault \in BOOLEAN, Tick(c, fault)
    PROVE  TypeOK'
<1>1. cycles_elapsed_' \in Nat
  <2>1. cycles_elapsed_ + c \in Nat
    BY LimitType DEF TypeOK
  <2> QED
    BY <2>1, LimitType DEF Tick, Elapse
<1>2. CASE cycles_elapsed_ + c >= Limit
  BY <1>1, <1>2, EndOfModeType DEF Tick, TypeOK
<1>3. CASE ~(cycles_elapsed_ + c >= Limit)
  BY <1>1, <1>3 DEF Tick, TypeOK
<1> QED
  BY <1>2, <1>3

\* ppu.cc, cpu.cc:229-265: every register and the frame buffer stay what they
\* are, whatever the program writes and whatever the tiles hold.
THEOREM TypeCorrect == Spec => []TypeOK
<1>1. Init => TypeOK
  <2> SUFFICES ASSUME Init PROVE TypeOK
    OBVIOUS
  <2>1. 0 \in Byte
    BY LinesAssumption DEF Byte, SCANLINES
  <2>2. lcd_status \in LcdStatus
    BY DEF Init, LcdStatus
  <2>3. lcd_control \in LcdControl
    BY DEF Init, LcdControl
  <2>4. frame_buffer_ \in [Row -> {"white", "painted"}]
    BY DEF Init, Blank
  <2>5. mode_ \in Mode /\ frame_parity \in 0 .. 1 /\ cycles_elapsed_ \in Nat
    BY DEF Init, Mode
  <2>6. thrown \in BOOLEAN /\ interrupt_flag \subseteq RegisterBit
    BY DEF Init
  <2>7. line \in Byte /\ ly_compare \in Byte
    BY <2>1 DEF Init
  <2> QED
    BY <2>2, <2>3, <2>4, <2>5, <2>6, <2>7 DEF TypeOK
<1>2. TypeOK /\ [Next]_vars => TypeOK'
  <2> SUFFICES ASSUME TypeOK, [Next]_vars
               PROVE  TypeOK'
    OBVIOUS
  <2>1. CASE \E c \in TickCycles, fault \in RenderFaults : Tick(c, fault)
    BY <2>1, TickType, WritesAssumption
  <2>2. CASE \E v \in ControlWrites : WriteControl(v)
    BY <2>2, WritesAssumption DEF WriteControl, TypeOK
  <2>3. CASE \E v \in StatusWrites : WriteStatus(v)
    BY <2>3, WritesAssumption DEF WriteStatus, TypeOK
  <2>4. CASE \E v \in LineWrites : WriteLine(v)
    BY <2>4, WritesAssumption DEF WriteLine, TypeOK
  <2>5. CASE \E v \in CompareWrites : WriteCompare(v)
    BY <2>5, WritesAssumption DEF WriteCompare, TypeOK
  <2>6. CASE \E source \in {VBLANK, LCD_STAT} : Ack(source)
    BY <2>6 DEF Ack, TypeOK
  <2>7. CASE UNCHANGED vars
    BY <2>7 DEF vars, TypeOK
  <2> QED
    BY <2>1, <2>2, <2>3, <2>4, <2>5, <2>6, <2>7 DEF Next
<1> QED
  BY <1>1, <1>2, PTL DEF Spec

\* ppu.cc:64-129, cpu.cc:229-246: whatever the program writes, LINE included,
\* and whether or not drawing throws, the counter stays below the end of its
\* mode: no mode is ever jumped over, and none is left late.
THEOREM ClocksStayInMode == Spec => [](cycles_elapsed_ < Limit)
<1> DEFINE InMode == cycles_elapsed_ < Limit
<1>1. Init => InMode
  BY ClocksAssumption DEF Init, Limit, Clocks
<1>2. TypeOK /\ InMode /\ [Next]_vars => InMode'
  <2> SUFFICES ASSUME TypeOK, InMode, [Next]_vars PROVE InMode'
    OBVIOUS
  <2>1. ASSUME NEW c \in TickCycles, NEW fault \in BOOLEAN, Tick(c, fault)
        PROVE  InMode'
    <3>1. /\ Limit \in Nat \ {0} /\ c \in 0 .. Limit
          /\ cycles_elapsed_ \in 0 .. Limit - 1
      BY LimitType DEF TypeOK
    <3>2. cycles_elapsed_' = IF cycles_elapsed_ + c >= Limit
                             THEN cycles_elapsed_ + c - Limit
                             ELSE cycles_elapsed_ + c
      BY <2>1, <3>1, FoldSum DEF Tick, Elapse
    <3>3. CASE cycles_elapsed_ + c >= Limit
      <4>1. mode_' \in Mode
        BY <2>1, <3>3, EndOfModeType DEF Tick
      <4>2. \A mode \in Mode : c <= Clocks(mode)
        BY TickAssumption, ClocksAssumption DEF Mode, Clocks, CLOCKS_PER_SCANLINE
      <4>3. \A mode \in Mode : Clocks(mode) \in Nat
        BY ClocksAssumption DEF Mode, Clocks, CLOCKS_PER_SCANLINE
      <4>4. Limit' = Clocks(mode_')
        BY DEF Limit
      <4> QED
        BY <3>1, <3>2, <3>3, <4>1, <4>2, <4>3, <4>4
    <3>4. CASE ~(cycles_elapsed_ + c >= Limit)
      BY <2>1, <3>1, <3>2, <3>4 DEF Tick, Limit
    <3> QED
      BY <3>3, <3>4
  <2>2. CASE \E c \in TickCycles, fault \in RenderFaults : Tick(c, fault)
    BY <2>1, <2>2, WritesAssumption
  <2>3. CASE \E v \in ControlWrites : WriteControl(v)
    BY <2>3 DEF WriteControl, Limit
  <2>4. CASE \E v \in StatusWrites : WriteStatus(v)
    BY <2>4 DEF WriteStatus, Limit
  <2>5. CASE \E v \in LineWrites : WriteLine(v)
    BY <2>5 DEF WriteLine, Limit
  <2>6. CASE \E v \in CompareWrites : WriteCompare(v)
    BY <2>6 DEF WriteCompare, Limit
  <2>7. CASE \E source \in {VBLANK, LCD_STAT} : Ack(source)
    BY <2>7 DEF Ack, Limit
  <2>8. CASE UNCHANGED vars
    BY <2>8 DEF vars, Limit
  <2> QED
    BY <2>2, <2>3, <2>4, <2>5, <2>6, <2>7, <2>8 DEF Next
<1> QED
  BY <1>1, <1>2, TypeCorrect, PTL DEF Spec

-------------------------------------------------------------------------------
(* For a program that does not write LINE, with tiles and sprites in range. *)

\* The inductive invariant.  LineFitsMode carries it: without the leftover
\* clocks below the end of the mode a tick could jump over a mode, and with a
\* line beyond its mode the equality tests would miss.
FrameInv == LineFitsMode /\ NoStaleRow /\ NeverThrows

\* The clocks left over in the present or the next mode.
LEMMA ElapseFolds ==
    ASSUME TypeOK, LineFitsMode, NEW c \in TickCycles
    PROVE  /\ Elapse(c) = IF cycles_elapsed_ + c >= Limit
                          THEN cycles_elapsed_ + c - Limit
                          ELSE cycles_elapsed_ + c
           /\ Elapse(c) \in Nat
<1>1. /\ Limit \in Nat \ {0} /\ c \in 0 .. Limit
      /\ cycles_elapsed_ \in 0 .. Limit - 1
  BY LimitType DEF TypeOK, LineFitsMode
<1>2. Elapse(c) = IF cycles_elapsed_ + c >= Limit
                  THEN cycles_elapsed_ + c - Limit
                  ELSE cycles_elapsed_ + c
  BY <1>1, FoldSum DEF Elapse
<1> QED
  BY <1>1, <1>2

\* No tick leaves more clocks than the shortest mode.
LEMMA LeftoverFits ==
    ASSUME TypeOK, LineFitsMode, NEW c \in TickCycles, cycles_elapsed_ + c >= Limit
    PROVE  /\ cycles_elapsed_ + c - Limit < CLOCKS_PER_SCANLINE_OAM
           /\ cycles_elapsed_ + c - Limit < CLOCKS_PER_SCANLINE_VRAM
           /\ cycles_elapsed_ + c - Limit < CLOCKS_PER_HBLANK
           /\ cycles_elapsed_ + c - Limit < CLOCKS_PER_SCANLINE
BY LimitType, TickAssumption, ClocksAssumption DEF TypeOK, LineFitsMode, CLOCKS_PER_SCANLINE

\* What a tick that ends a mode does to the mode and the line.
LEMMA ModeEnds ==
    ASSUME TypeOK, FrameInv, NEW c \in TickCycles, Tick(c, FALSE),
           cycles_elapsed_ + c >= Limit
    PROVE  \/ /\ mode_ = "READ_OAM" /\ mode_' = "READ_VRAM"
              /\ UNCHANGED <<line, frame_parity, frame_buffer_>>
              /\ (VBLANK \in interrupt_flag' <=> VBLANK \in interrupt_flag)
           \/ /\ mode_ = "READ_VRAM" /\ mode_' = "HBLANK"
              /\ UNCHANGED <<line, frame_parity, frame_buffer_>>
              /\ (VBLANK \in interrupt_flag' <=> VBLANK \in interrupt_flag)
           \/ /\ mode_ = "HBLANK" /\ mode_' = "READ_OAM"
              /\ line + 1 < SCANLINES_PER_FRAME /\ line' = line + 1
              /\ frame_buffer_' = WrittenScanline
              /\ UNCHANGED <<frame_parity, interrupt_flag>>
           \/ /\ mode_ = "HBLANK" /\ mode_' = "VBLANK"
              /\ line + 1 = SCANLINES_PER_FRAME /\ line' = line + 1
              /\ VBLANK \in interrupt_flag' /\ UNCHANGED frame_parity
           \/ /\ mode_ = "VBLANK" /\ mode_' = "VBLANK"
              /\ line + 1 < SCANLINES /\ line' = line + 1
              /\ UNCHANGED <<frame_parity, interrupt_flag>>
           \/ /\ mode_ = "VBLANK" /\ mode_' = "READ_OAM"
              /\ line + 1 = SCANLINES /\ line' = 0
              /\ frame_buffer_' = Blank
              /\ frame_parity' = 1 - frame_parity /\ UNCHANGED interrupt_flag
<1>1. EndOfMode(FALSE)
  BY DEF Tick
<1>2. CASE mode_ = "READ_OAM"
  BY <1>1, <1>2 DEF EndOfMode, EndOfOam, SetMode
<1>3. CASE mode_ = "READ_VRAM"
  BY <1>1, <1>3 DEF EndOfMode, EndOfVram, SetMode, VBLANK, LCD_STAT
<1>4. CASE mode_ = "HBLANK"
  <2>1. EndOfHblank(FALSE)
    BY <1>1, <1>4 DEF EndOfMode
  <2>3. ~ScanlineThrows(FALSE)
    BY <1>4, LinesAssumption DEF ScanlineThrows, FrameInv, LineFitsMode, Row
  <2>2. NextLine = line + 1 /\ line + 1 <= SCANLINES_PER_FRAME /\ line \in Nat
    BY <1>4, NextLineType, LinesAssumption DEF FrameInv, LineFitsMode, Row, SCANLINES
  <2> QED
    BY <1>4, <2>1, <2>2, <2>3, LinesAssumption DEF EndOfHblank, SetMode
<1>5. CASE mode_ = "VBLANK"
  <2>1. EndOfVblankLine(FALSE)
    BY <1>1, <1>5 DEF EndOfMode
  <2>2. NextLine = line + 1 /\ line + 1 <= SCANLINES /\ line \in Nat
    BY <1>5, NextLineType, LinesAssumption DEF FrameInv, LineFitsMode, SCANLINES
  <2>3. CASE NextLine # SCANLINES
    BY <1>5, <2>1, <2>2, <2>3, LinesAssumption DEF EndOfVblankLine, SCANLINES
  <2>4. CASE NextLine = SCANLINES
    BY <1>5, <2>1, <2>2, <2>4 DEF EndOfVblankLine, DrawFrame, SetMode
  <2> QED
    BY <2>3, <2>4
<1> QED
  BY <1>2, <1>3, <1>4, <1>5 DEF TypeOK, Mode

\* A tick keeps the invariant.
LEMMA TickKeepsFrameInv ==
    ASSUME TypeOK, FrameInv, NEW c \in TickCycles, Tick(c, FALSE)
    PROVE  FrameInv'
<1>1. ~thrown'
  <2>1. CASE cycles_elapsed_ + c >= Limit
    <3>1. EndOfMode(FALSE)
      BY <2>1 DEF Tick
    <3>2. mode_ = "HBLANK" => ~ScanlineThrows(FALSE)
      BY LinesAssumption DEF ScanlineThrows, FrameInv, LineFitsMode, Row
    <3> QED
      BY <3>1, <3>2 DEF EndOfMode, EndOfOam, EndOfVram, EndOfHblank, EndOfVblankLine,
                        DrawFrame, FrameInv, NeverThrows, TypeOK, Mode
  <2>2. CASE ~(cycles_elapsed_ + c >= Limit)
    BY <2>2 DEF Tick, FrameInv, NeverThrows
  <2> QED
    BY <2>1, <2>2
<1>2. CASE ~(cycles_elapsed_ + c >= Limit)
  <2>1. cycles_elapsed_' < Limit /\ UNCHANGED <<mode_, line, frame_buffer_, Limit>>
    BY <1>2, ElapseFolds, LimitType DEF Tick, FrameInv, TypeOK, Limit
  <2> QED
    BY <1>1, <2>1 DEF FrameInv, LineFitsMode, NoStaleRow, NeverThrows
<1>3. CASE cycles_elapsed_ + c >= Limit
  <2>1. cycles_elapsed_' = cycles_elapsed_ + c - Limit
    BY <1>3, ElapseFolds DEF Tick, FrameInv
  <2>2. cycles_elapsed_' < Limit'
    <3>1. mode_' \in Mode
      BY <1>3, ModeEnds DEF Mode
    <3> QED
      BY <1>3, <2>1, <3>1, LeftoverFits DEF FrameInv, Limit, Clocks, Mode
  <2>3. IF mode_' = "VBLANK" THEN line' \in SCANLINES_PER_FRAME .. SCANLINES - 1
                             ELSE line' \in Row
    <3> USE LinesAssumption DEF FrameInv, LineFitsMode, Row, SCANLINES
    <3>1. CASE mode_ \in {"READ_OAM", "READ_VRAM"}
      BY <1>3, <3>1, ModeEnds
    <3>2. CASE mode_ = "HBLANK"
      <4>1. /\ line' = line + 1
            /\ \/ mode_' = "READ_OAM" /\ line + 1 < SCANLINES_PER_FRAME
               \/ mode_' = "VBLANK" /\ line + 1 = SCANLINES_PER_FRAME
        BY <1>3, <3>2, ModeEnds
      <4> QED
        BY <3>2, <4>1
    <3>3. CASE mode_ = "VBLANK"
      <4>1. \/ mode_' = "VBLANK" /\ line' = line + 1 /\ line + 1 < SCANLINES
            \/ mode_' = "READ_OAM" /\ line' = 0
        BY <1>3, <3>3, ModeEnds
      <4> QED
        BY <3>3, <4>1
    <3> QED
      BY <3>1, <3>2, <3>3 DEF TypeOK, Mode
  <2>4. NoStaleRow'
    <3>1. CASE mode_ \in {"READ_OAM", "READ_VRAM"}
      BY <1>3, <3>1, ModeEnds DEF FrameInv, NoStaleRow
    <3>2. CASE mode_ = "HBLANK" /\ mode_' = "READ_OAM"
      <4>1. line' = line + 1 /\ frame_buffer_' = WrittenScanline /\ line \in Row
        BY <1>3, <3>2, ModeEnds DEF FrameInv, LineFitsMode
      <4>2. ASSUME NEW y \in Row, y >= line' PROVE frame_buffer_'[y] = "white"
        <5>1. y # line /\ y >= line
          BY <4>1, <4>2 DEF Row
        <5>2. frame_buffer_[y] = "white"
          BY <3>2, <5>1 DEF FrameInv, NoStaleRow
        <5> QED
          BY <4>1, <5>1, <5>2 DEF WrittenScanline, TypeOK
      <4> QED
        BY <4>2 DEF NoStaleRow
    <3>3. CASE mode_ = "VBLANK" /\ mode_' = "READ_OAM"
      BY <1>3, <3>3, ModeEnds DEF NoStaleRow, Blank
    <3>4. CASE mode_' = "VBLANK"
      BY <3>4 DEF NoStaleRow
    <3> QED
      BY <1>3, <3>1, <3>2, <3>3, <3>4, ModeEnds
  <2> QED
    BY <1>1, <2>2, <2>3, <2>4 DEF FrameInv, LineFitsMode, NeverThrows
<1> QED
  BY <1>2, <1>3

\* The invariant holds for every frame size.
LEMMA FrameInvariant ==
    ASSUME LineWrites = {}, RenderFaults = {FALSE}
    PROVE  Spec => []FrameInv
<1>1. Init => FrameInv
  <2> SUFFICES ASSUME Init PROVE FrameInv
    OBVIOUS
  <2>1. LineFitsMode
    BY ClocksAssumption, LinesAssumption DEF Init, LineFitsMode, Limit, Clocks, Row
  <2> QED
    BY <2>1 DEF Init, FrameInv, NoStaleRow, NeverThrows, Blank
<1>2. TypeOK /\ FrameInv /\ [Next]_vars => FrameInv'
  <2> SUFFICES ASSUME TypeOK, FrameInv, [Next]_vars
               PROVE  FrameInv'
    OBVIOUS
  <2> USE DEF FrameInv, LineFitsMode, NoStaleRow, NeverThrows
  <2>1. CASE \E c \in TickCycles, fault \in RenderFaults : Tick(c, fault)
    BY <2>1, TickKeepsFrameInv
  <2>2. CASE \E v \in ControlWrites : WriteControl(v)
    BY <2>2 DEF WriteControl, Limit
  <2>3. CASE \E v \in StatusWrites : WriteStatus(v)
    BY <2>3 DEF WriteStatus, Limit
  <2>4. CASE \E v \in CompareWrites : WriteCompare(v)
    BY <2>4 DEF WriteCompare, Limit
  <2>5. CASE \E source \in {VBLANK, LCD_STAT} : Ack(source)
    BY <2>5 DEF Ack, Limit
  <2>6. CASE UNCHANGED vars
    BY <2>6 DEF vars, Limit
  <2> QED
    BY <2>1, <2>2, <2>3, <2>4, <2>5, <2>6 DEF Next
<1> QED
  BY <1>1, <1>2, TypeCorrect, PTL DEF Spec

\* ppu.cc:57-129: for every frame size, as long as the program does not write
\* LINE, the counter is below the end of its mode and the line fits the mode.
THEOREM LineFits ==
    ASSUME LineWrites = {}, RenderFaults = {FALSE}
    PROVE  Spec => []LineFitsMode
<1>1. FrameInv => LineFitsMode
  BY DEF FrameInv
<1> QED
  BY <1>1, FrameInvariant, PTL

\* ppu.cc:86-124: for every frame size, as long as the program does not write
\* LINE, no row is shown that was left over or written early.
THEOREM NoRowIsStale ==
    ASSUME LineWrites = {}, RenderFaults = {FALSE}
    PROVE  Spec => []NoStaleRow
<1>1. FrameInv => NoStaleRow
  BY DEF FrameInv
<1> QED
  BY <1>1, FrameInvariant, PTL

\* ppu.cc:161-166: for every frame size, as long as the program does not write
\* LINE and tiles and sprites are in range, the row written is one of the frame.
THEOREM NothingThrows ==
    ASSUME LineWrites = {}, RenderFaults = {FALSE}
    PROVE  Spec => []NeverThrows
<1>1. FrameInv => NeverThrows
  BY DEF FrameInv
<1> QED
  BY <1>1, FrameInvariant, PTL

-------------------------------------------------------------------------------
(* The clockwork implements LcdClock.                                      *)

\* The clocks of n scanlines.
LEMMA ScanlineClocks ==
    ASSUME NEW n \in Nat
    PROVE  /\ CLOCKS_PER_SCANLINE \in Nat
           /\ n * CLOCKS_PER_SCANLINE \in Nat
           /\ (n + 1) * CLOCKS_PER_SCANLINE = n * CLOCKS_PER_SCANLINE + CLOCKS_PER_SCANLINE
           /\ \A m \in Nat : n <= m => n * CLOCKS_PER_SCANLINE <= m * CLOCKS_PER_SCANLINE
<1>1. CLOCKS_PER_SCANLINE \in Nat
  BY ClocksAssumption DEF CLOCKS_PER_SCANLINE
<1>2. ASSUME NEW m \in Nat, n <= m
      PROVE  n * CLOCKS_PER_SCANLINE <= m * CLOCKS_PER_SCANLINE
  <2>1. /\ (m - n) * CLOCKS_PER_SCANLINE \in Nat
        /\ m * CLOCKS_PER_SCANLINE = n * CLOCKS_PER_SCANLINE + (m - n) * CLOCKS_PER_SCANLINE
    BY <1>1, <1>2
  <2> QED
    BY <1>1, <2>1
<1> QED
  BY <1>1, <1>2

\* Within its line the beam has not reached the next line.
LEMMA BeamInLine ==
    ASSUME TypeOK, LineFitsMode
    PROVE  /\ line \in Nat /\ Beam \in Nat
           /\ line * CLOCKS_PER_SCANLINE <= Beam
           /\ Beam < (line + 1) * CLOCKS_PER_SCANLINE
<1>1. line \in Nat
  BY LinesAssumption DEF TypeOK, Byte
<1>2. Offset(mode_) \in Nat /\ Offset(mode_) + cycles_elapsed_ < CLOCKS_PER_SCANLINE
  BY ClocksAssumption DEF TypeOK, LineFitsMode, Mode, Offset, Limit, Clocks,
                          CLOCKS_PER_SCANLINE
<1>3. /\ CLOCKS_PER_SCANLINE \in Nat /\ line * CLOCKS_PER_SCANLINE \in Nat
      /\ (line + 1) * CLOCKS_PER_SCANLINE = line * CLOCKS_PER_SCANLINE + CLOCKS_PER_SCANLINE
  BY <1>1, ScanlineClocks
<1>4. cycles_elapsed_ \in Nat
  BY DEF TypeOK
<1> QED
  BY <1>1, <1>2, <1>3, <1>4 DEF Beam

\* The beam moves with the clock, and starts over at the end of the frame.
LEMMA BeamMoves ==
    ASSUME TypeOK, FrameInv, NEW c \in TickCycles, Tick(c, FALSE)
    PROVE  Beam' = IF mode_ = "VBLANK" /\ mode_' = "READ_OAM"
                   THEN Beam + c - SCANLINES * CLOCKS_PER_SCANLINE
                   ELSE Beam + c
<1>1. /\ c \in Nat /\ cycles_elapsed_ \in Nat /\ line \in Nat
      /\ Limit \in Nat /\ CLOCKS_PER_SCANLINE \in Nat
  BY LimitType, ScanlineClocks, BeamInLine DEF TypeOK, FrameInv
<1>2. CASE ~(cycles_elapsed_ + c >= Limit)
  <2>1. cycles_elapsed_' = cycles_elapsed_ + c /\ UNCHANGED <<mode_, line>>
    BY <1>2, ElapseFolds DEF Tick, FrameInv
  <2>2. Offset(mode_) \in Nat /\ line * CLOCKS_PER_SCANLINE \in Nat
    BY <1>1, ScanlineClocks, ClocksAssumption DEF Offset, TypeOK, Mode
  <2>3. mode_ = "VBLANK" => mode_' # "READ_OAM"
    BY <2>1
  <2> QED
    BY <1>1, <2>1, <2>2, <2>3 DEF Beam
<1>3. CASE cycles_elapsed_ + c >= Limit
  <2>1. cycles_elapsed_' = cycles_elapsed_ + c - Limit
    BY <1>3, ElapseFolds DEF Tick, FrameInv
  <2>2. CASE mode_ = "READ_OAM" \/ mode_ = "READ_VRAM"
    <3>1. /\ line' = line
          /\ \/ mode_ = "READ_OAM" /\ mode_' = "READ_VRAM"
             \/ mode_ = "READ_VRAM" /\ mode_' = "HBLANK"
      BY <1>3, <2>2, ModeEnds
    <3>2. line * CLOCKS_PER_SCANLINE \in Nat
      BY <1>1, ScanlineClocks
    <3>3. Offset(mode_') = Offset(mode_) + Limit /\ Offset(mode_) \in Nat
      BY <3>1, ClocksAssumption DEF Offset, Limit, Clocks
    <3> QED
      BY <1>1, <2>1, <2>2, <3>1, <3>2, <3>3 DEF Beam
  <2>3. CASE mode_ = "HBLANK"
    <3>1. line' = line + 1 /\ (mode_' = "READ_OAM" \/ mode_' = "VBLANK")
      BY <1>3, <2>3, ModeEnds
    <3>2. /\ line * CLOCKS_PER_SCANLINE \in Nat
          /\ line' * CLOCKS_PER_SCANLINE = line * CLOCKS_PER_SCANLINE + CLOCKS_PER_SCANLINE
      BY <1>1, <3>1, ScanlineClocks
    <3>3. /\ Offset(mode_') = 0
          /\ Offset(mode_) + Limit = CLOCKS_PER_SCANLINE
          /\ Offset(mode_) \in Nat
      BY <2>3, <3>1, ClocksAssumption DEF Offset, Limit, Clocks, CLOCKS_PER_SCANLINE
    <3> QED
      BY <1>1, <2>1, <2>3, <3>2, <3>3 DEF Beam
  <2>4. CASE mode_ = "VBLANK" /\ mode_' = "VBLANK"
    <3>1. line' = line + 1
      BY <1>3, <2>4, ModeEnds
    <3>2. /\ line * CLOCKS_PER_SCANLINE \in Nat
          /\ line' * CLOCKS_PER_SCANLINE = line * CLOCKS_PER_SCANLINE + CLOCKS_PER_SCANLINE
      BY <1>1, <3>1, ScanlineClocks
    <3>3. Offset(mode_) = 0 /\ Limit = CLOCKS_PER_SCANLINE
      BY <2>4 DEF Offset, Limit, Clocks
    <3> QED
      BY <1>1, <2>1, <2>4, <3>2, <3>3 DEF Beam
  <2>5. CASE mode_ = "VBLANK" /\ mode_' = "READ_OAM"
    <3>1. line + 1 = SCANLINES /\ line' = 0
      BY <1>3, <2>5, ModeEnds
    <3>2. /\ line * CLOCKS_PER_SCANLINE \in Nat
          /\ SCANLINES * CLOCKS_PER_SCANLINE = line * CLOCKS_PER_SCANLINE + CLOCKS_PER_SCANLINE
          /\ line' * CLOCKS_PER_SCANLINE = 0
      BY <1>1, <3>1, ScanlineClocks
    <3>3. Offset(mode_) = 0 /\ Offset(mode_') = 0 /\ Limit = CLOCKS_PER_SCANLINE
      BY <2>5 DEF Offset, Limit, Clocks
    <3> QED
      BY <1>1, <2>1, <2>5, <3>2, <3>3 DEF Beam
  <2> QED
    BY <1>3, <2>2, <2>3, <2>4, <2>5, ModeEnds
<1> QED
  BY <1>2, <1>3

\* The marks the beam passes are those of the mode and the line.
LEMMA BeamMarks ==
    ASSUME TypeOK, LineFitsMode
    PROVE  /\ mode_ = "VBLANK" <=> Beam >= SCANLINES_PER_FRAME * CLOCKS_PER_SCANLINE
           /\ Beam < SCANLINES * CLOCKS_PER_SCANLINE
<1>1. /\ SCANLINES_PER_FRAME \in Nat /\ SCANLINES \in Nat
      /\ SCANLINES_PER_FRAME <= SCANLINES
  BY LinesAssumption DEF SCANLINES
<1>2. CASE mode_ = "VBLANK"
  <2>1. SCANLINES_PER_FRAME <= line /\ line + 1 <= SCANLINES
    BY <1>2, <1>1 DEF LineFitsMode
  <2>2. /\ SCANLINES_PER_FRAME * CLOCKS_PER_SCANLINE <= line * CLOCKS_PER_SCANLINE
        /\ (line + 1) * CLOCKS_PER_SCANLINE <= SCANLINES * CLOCKS_PER_SCANLINE
        /\ line * CLOCKS_PER_SCANLINE \in Nat
        /\ (line + 1) * CLOCKS_PER_SCANLINE \in Nat
        /\ SCANLINES * CLOCKS_PER_SCANLINE \in Nat
        /\ SCANLINES_PER_FRAME * CLOCKS_PER_SCANLINE \in Nat
    BY <1>1, <2>1, BeamInLine, ScanlineClocks
  <2> QED
    BY <1>2, <2>2, BeamInLine
<1>3. CASE mode_ # "VBLANK"
  <2>1. line + 1 <= SCANLINES_PER_FRAME /\ line + 1 \in Nat
    BY <1>3, <1>1 DEF LineFitsMode, Row
  <2>2. /\ (line + 1) * CLOCKS_PER_SCANLINE <= SCANLINES_PER_FRAME * CLOCKS_PER_SCANLINE
        /\ SCANLINES_PER_FRAME * CLOCKS_PER_SCANLINE <= SCANLINES * CLOCKS_PER_SCANLINE
        /\ (line + 1) * CLOCKS_PER_SCANLINE \in Nat
        /\ SCANLINES * CLOCKS_PER_SCANLINE \in Nat
        /\ SCANLINES_PER_FRAME * CLOCKS_PER_SCANLINE \in Nat
    BY <1>1, <2>1, ScanlineClocks
  <2> QED
    BY <1>3, <2>2, BeamInLine
<1> QED
  BY <1>2, <1>3

\* Where the beam is in the frame, told by the mode.
BeamWithin ==
    /\ Beam \in Nat
    /\ mode_ = "VBLANK" <=> Beam >= SCANLINES_PER_FRAME * CLOCKS_PER_SCANLINE
    /\ Beam < SCANLINES * CLOCKS_PER_SCANLINE

\* The two lemmas on the beam as one formula, for the state after a step.
LEMMA BeamFacts == TypeOK /\ LineFitsMode => BeamWithin
BY BeamInLine, BeamMarks DEF BeamWithin

\* Every tick is a step of the beam.
LEMMA TickIsBeamStep ==
    ASSUME TypeOK, TypeOK', FrameInv, NEW c \in TickCycles, Tick(c, FALSE)
    PROVE  Lcd!Move(c) \/ Lcd!EnterVblank(c) \/ Lcd!ShowFrame(c)
<1>1. LineFitsMode /\ LineFitsMode'
  BY TickKeepsFrameInv DEF FrameInv
<1>2. /\ Beam \in Nat /\ Beam' \in Nat
      /\ Beam < SCANLINES * CLOCKS_PER_SCANLINE
      /\ Beam' < SCANLINES * CLOCKS_PER_SCANLINE
      /\ mode_ = "VBLANK" <=> Beam >= SCANLINES_PER_FRAME * CLOCKS_PER_SCANLINE
      /\ mode_' = "VBLANK" <=> Beam' >= SCANLINES_PER_FRAME * CLOCKS_PER_SCANLINE
      /\ SCANLINES_PER_FRAME * CLOCKS_PER_SCANLINE \in Nat
  <2>1. BeamWithin
    BY <1>1, BeamFacts
  <2>2. BeamWithin'
    BY <1>1, BeamFacts, PTL
  <2>3. SCANLINES_PER_FRAME * CLOCKS_PER_SCANLINE \in Nat
    BY ScanlineClocks, LinesAssumption
  <2> QED
    BY <2>1, <2>2, <2>3 DEF BeamWithin
<1>3. CASE mode_ = "VBLANK" /\ mode_' = "READ_OAM"
  <2>1. frame_parity' = 1 - frame_parity /\ UNCHANGED interrupt_flag
    BY <1>3, ModeEnds DEF Tick
  <2>2. Beam' = Beam + c - SCANLINES * CLOCKS_PER_SCANLINE
    BY <1>3, BeamMoves
  <2> QED
    BY <1>2, <2>1, <2>2 DEF Lcd!ShowFrame
<1>4. CASE mode_ = "HBLANK" /\ mode_' = "VBLANK"
  <2>1. VBLANK \in interrupt_flag' /\ UNCHANGED frame_parity
    BY <1>4, ModeEnds DEF Tick
  <2>2. Beam' = Beam + c
    BY <1>4, BeamMoves
  <2> QED
    BY <1>2, <1>4, <2>1, <2>2 DEF Lcd!EnterVblank
<1>5. CASE /\ ~(mode_ = "VBLANK" /\ mode_' = "READ_OAM")
           /\ ~(mode_ = "HBLANK" /\ mode_' = "VBLANK")
  <2>1. /\ UNCHANGED frame_parity
        /\ VBLANK \in interrupt_flag' <=> VBLANK \in interrupt_flag
        /\ mode_ = "VBLANK" <=> mode_' = "VBLANK"
    BY <1>5, ModeEnds DEF Tick
  <2>2. Beam' = Beam + c
    BY <1>5, BeamMoves
  <2> QED
    BY <1>2, <2>1, <2>2 DEF Lcd!Move
<1> QED
  BY <1>3, <1>4, <1>5

\* ppu.cc tick(): for every frame size, the clockwork is one steady beam; the
\* vblank request and the drawn frame come at its marks and nowhere else.
THEOREM PpuImplementsLcdClock ==
    ASSUME LineWrites = {}, RenderFaults = {FALSE}
    PROVE  Spec => RefinesLcdClock
<1>1. Init => Lcd!Init
  <2> SUFFICES ASSUME Init PROVE Lcd!Init
    OBVIOUS
  <2>1. Offset(mode_) = 0
    BY DEF Init, Offset
  <2>2. Beam = 0
    BY <2>1, ScanlineClocks DEF Init, Beam
  <2> QED
    BY <2>2 DEF Init, Lcd!Init
<1>2. TypeOK /\ TypeOK' /\ FrameInv /\ [Next]_vars => [Lcd!Next]_Lcd!lvars
  <2> SUFFICES ASSUME TypeOK, TypeOK', FrameInv, [Next]_vars
               PROVE  [Lcd!Next]_Lcd!lvars
    OBVIOUS
  <2>1. CASE \E c \in TickCycles, fault \in RenderFaults : Tick(c, fault)
    BY <2>1, TickIsBeamStep DEF Lcd!Next
  <2>2. CASE \E v \in ControlWrites : WriteControl(v)
    BY <2>2 DEF WriteControl, Lcd!lvars, Beam
  <2>3. CASE \E v \in StatusWrites : WriteStatus(v)
    BY <2>3 DEF WriteStatus, Lcd!lvars, Beam
  <2>4. CASE \E v \in CompareWrites : WriteCompare(v)
    BY <2>4 DEF WriteCompare, Lcd!lvars, Beam
  <2>5. CASE \E source \in {VBLANK, LCD_STAT} : Ack(source)
    <3>1. UNCHANGED <<Beam, frame_parity>>
      BY <2>5 DEF Ack, Beam
    <3> QED
      BY <2>5, <3>1 DEF Ack, Lcd!Next, Lcd!Acknowledge, Lcd!lvars, VBLANK, LCD_STAT
  <2>6. CASE UNCHANGED vars
    BY <2>6 DEF vars, Lcd!lvars, Beam
  <2> QED
    BY <2>1, <2>2, <2>3, <2>4, <2>5, <2>6 DEF Next
<1> QED
  BY <1>1, <1>2, FrameInvariant, TypeCorrect, PTL DEF Spec, Lcd!Spec, RefinesLcdClock

\* A tick is shorter than a frame.
LEMMA TickWithinFrame ==
    ASSUME NEW c \in TickCycles
    PROVE  /\ c \in 0 .. SCANLINES * CLOCKS_PER_SCANLINE
           /\ SCANLINES * CLOCKS_PER_SCANLINE \in Nat \ {0}
<1>1. c \in Nat /\ c <= CLOCKS_PER_SCANLINE /\ CLOCKS_PER_SCANLINE \in Nat \ {0}
  BY TickAssumption, ClocksAssumption DEF CLOCKS_PER_SCANLINE
<1>2. 1 \in Nat /\ SCANLINES \in Nat /\ 1 <= SCANLINES
  BY LinesAssumption DEF SCANLINES
<1>3. /\ 1 * CLOCKS_PER_SCANLINE <= SCANLINES * CLOCKS_PER_SCANLINE
      /\ SCANLINES * CLOCKS_PER_SCANLINE \in Nat
  BY <1>2, ScanlineClocks
<1> QED
  BY <1>1, <1>3

\* One tick moves the beam by its clocks, modulo the frame.
LEMMA TickIsSteady ==
    ASSUME TypeOK, TypeOK', FrameInv, NEW c \in TickCycles, Tick(c, FALSE)
    PROVE  Beam' = (Beam + c) % (SCANLINES * CLOCKS_PER_SCANLINE)
<1> DEFINE frame == SCANLINES * CLOCKS_PER_SCANLINE
<1>1. c \in 0 .. frame /\ frame \in Nat \ {0}
  BY TickWithinFrame
<1>2. Beam \in 0 .. frame - 1 /\ Beam' \in 0 .. frame - 1
  <2>1. LineFitsMode /\ LineFitsMode'
    BY TickKeepsFrameInv DEF FrameInv
  <2>2. BeamWithin
    BY <2>1, BeamFacts
  <2>3. BeamWithin'
    BY <2>1, BeamFacts, PTL
  <2> QED
    BY <1>1, <2>2, <2>3 DEF BeamWithin
<1>3. Beam' = Beam + c - frame \/ Beam' = Beam + c
  BY BeamMoves
<1> HIDE DEF frame
<1>4. (Beam + c) % frame = IF Beam + c >= frame THEN Beam + c - frame ELSE Beam + c
  BY <1>1, <1>2, FoldSum
<1> QED
  BY <1>1, <1>2, <1>3, <1>4 DEF frame

\* ppu.cc:59-64: for every frame size, a program that does not write LINE sees
\* no clock lost or counted twice.
THEOREM BeamIsSteady ==
    ASSUME LineWrites = {}, RenderFaults = {FALSE}
    PROVE  Spec => SteadyBeam
<1>1. TypeOK /\ TypeOK' /\ FrameInv =>
        [\A c \in TickCycles, fault \in RenderFaults :
           Tick(c, fault) => Beam' = (Beam + c) % (SCANLINES * CLOCKS_PER_SCANLINE)]_vars
  BY TickIsSteady
<1> QED
  BY <1>1, FrameInvariant, TypeCorrect, PTL DEF SteadyBeam
-------------------------------------------------------------------------------
(* For every program again: the next frame is never out of sight.          *)

\* The lines after this one until the line before last, around the byte.
LinesUntil(from, last) == (last - 1 - from) % ByteSize

\* The clocks until a frame is drawn, for a program that leaves LINE alone.
\* Beyond the line it waits for, the counter goes around.
ClocksToFrame ==
    (IF mode_ = "VBLANK"
     THEN LinesUntil(line, SCANLINES) + 1
     ELSE LinesUntil(line, SCANLINES_PER_FRAME) + SCANLINES_PER_VBLANK + 1) * CLOCKS_PER_SCANLINE
    - Offset(mode_) - cycles_elapsed_

\* A tick brings the frame nearer by its clocks, or draws it and is long enough
\* to, or throws; nothing but a write of LINE moves the frame away.
FrameInSight ==
    [][/\ \A c \in TickCycles, fault \in RenderFaults :
             Tick(c, fault) =>
                \/ thrown'
                \/ frame_parity' = frame_parity /\ ClocksToFrame' = ClocksToFrame - c
                \/ frame_parity' # frame_parity /\ ClocksToFrame <= c
       /\ \/ \E c \in TickCycles, fault \in RenderFaults : Tick(c, fault)
          \/ \E v \in LineWrites : WriteLine(v)
          \/ UNCHANGED ClocksToFrame]_vars

\* Taking away less than two periods folds once, as counting lines does.
LEMMA FoldDifference ==
    ASSUME NEW p \in Nat \ {0}, NEW a \in 0 .. p - 1, NEW b \in 0 .. p - 1
    PROVE  (a - b) % p = IF b <= a THEN a - b ELSE a - b + p
BY SMT

\* The lines left are none on the line before the last, and one less after
\* each other line.
LEMMA LinesCountDown ==
    ASSUME TypeOK, NEW last \in 1 .. ByteSize - 1
    PROVE  /\ LinesUntil(line, last) \in 0 .. ByteSize - 1
           /\ NextLine = last => LinesUntil(line, last) = 0
           /\ NextLine # last => LinesUntil(NextLine, last) = LinesUntil(line, last) - 1
<1>1. ByteSize \in Nat \ {0} /\ last - 1 \in 0 .. ByteSize - 1
  BY LinesAssumption DEF SCANLINES
<1>2. line \in 0 .. ByteSize - 1 /\ NextLine \in 0 .. ByteSize - 1
  BY NextLineType DEF TypeOK, Byte
<1>3. /\ LinesUntil(line, last)
           = IF line <= last - 1 THEN last - 1 - line ELSE last - 1 - line + ByteSize
      /\ LinesUntil(NextLine, last)
           = IF NextLine <= last - 1 THEN last - 1 - NextLine ELSE last - 1 - NextLine + ByteSize
  BY <1>1, <1>2, FoldDifference DEF LinesUntil
<1> QED
  BY <1>1, <1>2, <1>3, NextLineType

\* A frame is some clocks away, and not more than a round of the line counter.
LEMMA FrameDistance ==
    ASSUME TypeOK, cycles_elapsed_ < Limit
    PROVE  ClocksToFrame \in 1 .. (ByteSize + SCANLINES_PER_VBLANK) * CLOCKS_PER_SCANLINE
<1> DEFINE lines == IF mode_ = "VBLANK"
                    THEN LinesUntil(line, SCANLINES)
                    ELSE LinesUntil(line, SCANLINES_PER_FRAME) + SCANLINES_PER_VBLANK
<1>1. lines \in Nat /\ lines + 1 <= ByteSize + SCANLINES_PER_VBLANK
  BY LinesCountDown, LinesAssumption DEF SCANLINES
<1>2. ClocksToFrame = (lines + 1) * CLOCKS_PER_SCANLINE - Offset(mode_) - cycles_elapsed_
  <2>1. CASE mode_ = "VBLANK"
    BY <2>1 DEF ClocksToFrame
  <2>2. CASE mode_ # "VBLANK"
    <3>1. LinesUntil(line, SCANLINES_PER_FRAME) + SCANLINES_PER_VBLANK + 1 = lines + 1
      BY <2>2
    <3> QED
      BY <2>2, <3>1 DEF ClocksToFrame
  <2> QED
    BY <2>1, <2>2
<1> HIDE DEF lines
<1>3. /\ Offset(mode_) \in Nat
      /\ Offset(mode_) + cycles_elapsed_ < CLOCKS_PER_SCANLINE
      /\ cycles_elapsed_ \in Nat
  BY ClocksAssumption DEF TypeOK, Mode, Offset, Limit, Clocks, CLOCKS_PER_SCANLINE
<1>4. /\ CLOCKS_PER_SCANLINE \in Nat
      /\ lines * CLOCKS_PER_SCANLINE \in Nat
      /\ (lines + 1) * CLOCKS_PER_SCANLINE = lines * CLOCKS_PER_SCANLINE + CLOCKS_PER_SCANLINE
      /\ (lines + 1) * CLOCKS_PER_SCANLINE
           <= (ByteSize + SCANLINES_PER_VBLANK) * CLOCKS_PER_SCANLINE
      /\ (ByteSize + SCANLINES_PER_VBLANK) * CLOCKS_PER_SCANLINE \in Nat
  <2>1. lines + 1 \in Nat /\ ByteSize + SCANLINES_PER_VBLANK \in Nat
    BY <1>1, LinesAssumption
  <2> QED
    BY <1>1, <2>1, ScanlineClocks
<1> QED
  BY <1>2, <1>3, <1>4

\* The clocks after a tick that ends a mode, for any mode and line it leads to.
LEMMA TickCountsDown ==
    ASSUME TypeOK, cycles_elapsed_ < Limit, NEW c \in TickCycles, NEW fault \in BOOLEAN,
           Tick(c, fault), ~thrown'
    PROVE  \/ frame_parity' = frame_parity /\ ClocksToFrame' = ClocksToFrame - c
           \/ frame_parity' # frame_parity /\ ClocksToFrame <= c
<1> DEFINE visible(l) == LinesUntil(l, SCANLINES_PER_FRAME)
           blank(l) == LinesUntil(l, SCANLINES)
<1>1. /\ SCANLINES_PER_FRAME \in 1 .. ByteSize - 1
      /\ SCANLINES \in 1 .. ByteSize - 1
      /\ SCANLINES_PER_VBLANK \in Nat \ {0}
      /\ SCANLINES = SCANLINES_PER_FRAME + SCANLINES_PER_VBLANK
  BY LinesAssumption DEF SCANLINES
<1>2. /\ Limit \in Nat \ {0} /\ c \in 0 .. Limit
      /\ cycles_elapsed_ \in 0 .. Limit - 1
      /\ Offset(mode_) \in Nat
      /\ CLOCKS_PER_SCANLINE \in Nat
  BY LimitType, ClocksAssumption DEF TypeOK, Mode, Offset, CLOCKS_PER_SCANLINE
<1>3. visible(line) \in Nat /\ blank(line) \in Nat
  BY <1>1, LinesCountDown
<1>4. cycles_elapsed_' = IF cycles_elapsed_ + c >= Limit
                         THEN cycles_elapsed_ + c - Limit
                         ELSE cycles_elapsed_ + c
  BY <1>2, FoldSum DEF Tick, Elapse
<1>5. /\ mode_ = "VBLANK" =>
           ClocksToFrame = (blank(line) + 1) * CLOCKS_PER_SCANLINE
                           - Offset(mode_) - cycles_elapsed_
      /\ mode_ # "VBLANK" =>
           ClocksToFrame = (visible(line) + SCANLINES_PER_VBLANK + 1) * CLOCKS_PER_SCANLINE
                           - Offset(mode_) - cycles_elapsed_
      /\ mode_' = "VBLANK" =>
           ClocksToFrame' = (blank(line') + 1) * CLOCKS_PER_SCANLINE
                            - Offset(mode_') - cycles_elapsed_'
      /\ mode_' # "VBLANK" =>
           ClocksToFrame' = (visible(line') + SCANLINES_PER_VBLANK + 1) * CLOCKS_PER_SCANLINE
                            - Offset(mode_') - cycles_elapsed_'
  BY DEF ClocksToFrame
<1>6. /\ NextLine = SCANLINES_PER_FRAME => visible(line) = 0
      /\ NextLine # SCANLINES_PER_FRAME => visible(NextLine) = visible(line) - 1
      /\ NextLine = SCANLINES => blank(line) = 0
      /\ NextLine # SCANLINES => blank(NextLine) = blank(line) - 1
      /\ blank(SCANLINES_PER_FRAME) = SCANLINES_PER_VBLANK - 1
  <2>1. blank(SCANLINES_PER_FRAME) = SCANLINES_PER_VBLANK - 1
    <3>1. /\ SCANLINES - 1 \in 0 .. ByteSize - 1 /\ SCANLINES_PER_FRAME \in 0 .. ByteSize - 1
          /\ ByteSize \in Nat \ {0} /\ SCANLINES_PER_FRAME <= SCANLINES - 1
      BY <1>1, LinesAssumption
    <3> QED
      BY <1>1, <3>1, FoldDifference DEF LinesUntil
  <2> QED
    BY <1>1, <2>1, LinesCountDown
<1> HIDE DEF visible, blank
<1>7. CASE ~(cycles_elapsed_ + c >= Limit)
  <2>1. UNCHANGED <<mode_, line, frame_parity>> /\ cycles_elapsed_' = cycles_elapsed_ + c
    BY <1>4, <1>7 DEF Tick
  <2>2. /\ (blank(line) + 1) * CLOCKS_PER_SCANLINE \in Int
        /\ (visible(line) + SCANLINES_PER_VBLANK + 1) * CLOCKS_PER_SCANLINE \in Int
    BY <1>1, <1>2, <1>3
  <2> QED
    BY <1>2, <1>5, <2>1, <2>2
<1>8. CASE cycles_elapsed_ + c >= Limit
  <2>0. EndOfMode(fault) /\ cycles_elapsed_' = cycles_elapsed_ + c - Limit
    BY <1>4, <1>8 DEF Tick
  <2>1. CASE mode_ = "READ_OAM" \/ mode_ = "READ_VRAM"
    <3>1. /\ UNCHANGED <<line, frame_parity>>
          /\ \/ mode_ = "READ_OAM" /\ mode_' = "READ_VRAM"
             \/ mode_ = "READ_VRAM" /\ mode_' = "HBLANK"
      BY <2>0, <2>1 DEF EndOfMode, EndOfOam, EndOfVram, SetMode
    <3>2. Offset(mode_') = Offset(mode_) + Limit
      BY <3>1, ClocksAssumption DEF Offset, Limit, Clocks
    <3>3. (visible(line) + SCANLINES_PER_VBLANK + 1) * CLOCKS_PER_SCANLINE \in Int
      BY <1>1, <1>2, <1>3
    <3> QED
      BY <1>2, <1>5, <2>0, <3>1, <3>2, <3>3
  <2>2. CASE mode_ = "HBLANK"
    <3>1. EndOfHblank(fault)
      BY <2>0, <2>2 DEF EndOfMode
    <3>2. /\ line' = NextLine /\ UNCHANGED frame_parity
          /\ mode_' = IF NextLine = SCANLINES_PER_FRAME THEN "VBLANK" ELSE "READ_OAM"
      BY <3>1 DEF EndOfHblank, SetMode
    <3>3. Offset(mode_) + Limit = CLOCKS_PER_SCANLINE /\ Offset(mode_') = 0
      BY <2>2, <3>2, ClocksAssumption DEF Offset, Limit, Clocks, CLOCKS_PER_SCANLINE
    <3>4. CASE NextLine = SCANLINES_PER_FRAME
      <4>1. visible(line) + SCANLINES_PER_VBLANK + 1 = SCANLINES_PER_VBLANK + 1
        BY <1>1, <1>6, <3>4
      <4>2. blank(line') + 1 = SCANLINES_PER_VBLANK
        BY <1>1, <1>6, <3>2, <3>4
      <4>3. /\ SCANLINES_PER_VBLANK * CLOCKS_PER_SCANLINE \in Nat
            /\ (SCANLINES_PER_VBLANK + 1) * CLOCKS_PER_SCANLINE
                 = SCANLINES_PER_VBLANK * CLOCKS_PER_SCANLINE + CLOCKS_PER_SCANLINE
        BY <1>1, ScanlineClocks
      <4> QED
        BY <1>2, <1>5, <2>0, <2>2, <3>2, <3>3, <3>4, <4>1, <4>2, <4>3
    <3>5. CASE NextLine # SCANLINES_PER_FRAME
      <4> DEFINE n == visible(line) + SCANLINES_PER_VBLANK
      <4>1. n \in Nat /\ visible(line') + SCANLINES_PER_VBLANK + 1 = n
        BY <1>1, <1>3, <1>6, <3>2, <3>5
      <4> HIDE DEF n
      <4>2. /\ n * CLOCKS_PER_SCANLINE \in Nat
            /\ (n + 1) * CLOCKS_PER_SCANLINE = n * CLOCKS_PER_SCANLINE + CLOCKS_PER_SCANLINE
        BY <4>1, ScanlineClocks
      <4>3. /\ ClocksToFrame = (n + 1) * CLOCKS_PER_SCANLINE - Offset(mode_) - cycles_elapsed_
            /\ ClocksToFrame' = n * CLOCKS_PER_SCANLINE - Offset(mode_') - cycles_elapsed_'
        BY <1>5, <2>2, <3>2, <3>5, <4>1 DEF n
      <4> QED
        BY <1>2, <2>0, <3>2, <3>3, <4>2, <4>3
    <3> QED
      BY <3>4, <3>5
  <2>3. CASE mode_ = "VBLANK"
    <3>1. EndOfVblankLine(fault)
      BY <2>0, <2>3 DEF EndOfMode
    <3>2. Offset(mode_) = 0 /\ Limit = CLOCKS_PER_SCANLINE
      BY <2>3 DEF Offset, Limit, Clocks
    <3>3. CASE NextLine # SCANLINES
      <4>1. line' = NextLine /\ UNCHANGED <<mode_, frame_parity>>
        BY <3>1, <3>3 DEF EndOfVblankLine
      <4> DEFINE n == blank(line)
      <4>2. n \in Nat /\ blank(line') + 1 = n
        BY <1>3, <1>6, <3>3, <4>1
      <4> HIDE DEF n
      <4>3. /\ n * CLOCKS_PER_SCANLINE \in Nat
            /\ (n + 1) * CLOCKS_PER_SCANLINE = n * CLOCKS_PER_SCANLINE + CLOCKS_PER_SCANLINE
        BY <4>2, ScanlineClocks
      <4>4. /\ ClocksToFrame = (n + 1) * CLOCKS_PER_SCANLINE - Offset(mode_) - cycles_elapsed_
            /\ ClocksToFrame' = n * CLOCKS_PER_SCANLINE - Offset(mode_) - cycles_elapsed_'
        BY <1>5, <2>3, <4>1, <4>2 DEF n
      <4> QED
        BY <1>2, <2>0, <3>2, <4>1, <4>3, <4>4
    <3>4. CASE NextLine = SCANLINES
      <4>1. frame_parity' = 1 - frame_parity
        BY <3>1, <3>4 DEF EndOfVblankLine, DrawFrame
      <4>2. frame_parity' # frame_parity
        BY <4>1 DEF TypeOK
      <4>3. (blank(line) + 1) * CLOCKS_PER_SCANLINE = CLOCKS_PER_SCANLINE
        BY <1>2, <1>6, <3>4
      <4> QED
        BY <1>2, <1>5, <1>8, <2>3, <3>2, <4>2, <4>3
    <3> QED
      BY <3>3, <3>4
  <2> QED
    BY <2>1, <2>2, <2>3 DEF TypeOK, Mode
<1> QED
  BY <1>7, <1>8

\* ppu.cc:57-129, cpu.cc:235-238: whatever the program writes and wherever it
\* has put LINE, a frame is a bounded number of clocks away, and every tick
\* that does not write LINE, or throw, brings it nearer by all its clocks.
THEOREM FrameComes ==
    Spec => /\ [](ClocksToFrame \in 1 .. (ByteSize + SCANLINES_PER_VBLANK) * CLOCKS_PER_SCANLINE)
            /\ FrameInSight
<1> DEFINE InMode == cycles_elapsed_ < Limit
<1>1. TypeOK /\ InMode =>
        ClocksToFrame \in 1 .. (ByteSize + SCANLINES_PER_VBLANK) * CLOCKS_PER_SCANLINE
  BY FrameDistance
<1>2. TypeOK /\ InMode /\ [Next]_vars =>
        [/\ \A c \in TickCycles, fault \in RenderFaults :
              Tick(c, fault) =>
                 \/ thrown'
                 \/ frame_parity' = frame_parity /\ ClocksToFrame' = ClocksToFrame - c
                 \/ frame_parity' # frame_parity /\ ClocksToFrame <= c
         /\ \/ \E c \in TickCycles, fault \in RenderFaults : Tick(c, fault)
            \/ \E v \in LineWrites : WriteLine(v)
            \/ UNCHANGED ClocksToFrame]_vars
  <2> SUFFICES ASSUME TypeOK, InMode, [Next]_vars
               PROVE  /\ \A c \in TickCycles, fault \in RenderFaults :
                            Tick(c, fault) =>
                               \/ thrown'
                               \/ frame_parity' = frame_parity /\ ClocksToFrame' = ClocksToFrame - c
                               \/ frame_parity' # frame_parity /\ ClocksToFrame <= c
                      /\ \/ \E c \in TickCycles, fault \in RenderFaults : Tick(c, fault)
                         \/ \E v \in LineWrites : WriteLine(v)
                         \/ UNCHANGED ClocksToFrame
    OBVIOUS
  <2>1. ASSUME NEW c \in TickCycles, NEW fault \in RenderFaults, Tick(c, fault)
        PROVE  \/ thrown'
               \/ frame_parity' = frame_parity /\ ClocksToFrame' = ClocksToFrame - c
               \/ frame_parity' # frame_parity /\ ClocksToFrame <= c
    BY <2>1, TickCountsDown, WritesAssumption
  <2>2. UNCHANGED <<mode_, cycles_elapsed_, line>> => UNCHANGED ClocksToFrame
    BY DEF ClocksToFrame
  <2>3. \/ \E c \in TickCycles, fault \in RenderFaults : Tick(c, fault)
        \/ \E v \in LineWrites : WriteLine(v)
        \/ UNCHANGED <<mode_, cycles_elapsed_, line>>
    BY DEF Next, WriteControl, WriteStatus, WriteCompare, Ack, vars
  <2> QED
    BY <2>1, <2>2, <2>3
<1> QED
  BY <1>1, <1>2, TypeCorrect, ClocksStayInMode, PTL DEF FrameInSight, Spec
===============================================================================
