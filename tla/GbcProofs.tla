------------------------------ MODULE GbcProofs -------------------------------
(***************************************************************************)
(* Theorems about the machine as a whole, for every pace of instructions,  *)
(* every size of screen and timer, every set of keys and every length of   *)
(* the event queue.  What TimerProofs and PpuProofs show of a part is      *)
(* taken over for the part inside the machine, with the clocks the loop    *)
(* hands it.                                                               *)
(***************************************************************************)
EXTENDS Gbc, TLAPS

tp == INSTANCE TimerProofs WITH
    ByteSize <- TimerByteSize, DivPeriod <- TimerDivPeriod, DIVIDERS <- TimerDIVIDERS,
    TickCycles <- TickClocks, MaxBacklog <- 2 * TimerDivPeriod

pp == INSTANCE PpuProofs WITH
    ByteSize <- PpuByteSize, CLOCKS_PER_SCANLINE_OAM <- ClocksOam,
    CLOCKS_PER_SCANLINE_VRAM <- ClocksVram, CLOCKS_PER_HBLANK <- ClocksHblank,
    SCANLINES_PER_FRAME <- VisibleLines, SCANLINES_PER_VBLANK <- VblankLines,
    TickCycles <- TickClocks, ControlWrites <- {}, StatusWrites <- {},
    LineWrites <- {}, CompareWrites <- {}, RenderFaults <- {FALSE}

-------------------------------------------------------------------------------
(* The parts inside the machine.                                           *)

\* An instruction lasts a number of clocks that no period or mode is below.
LEMMA TickClocksType ==
    ASSUME NEW c \in TickClocks
    PROVE  /\ c \in Nat
           /\ c <= TimerDivPeriod
           /\ c <= ClocksOam
           /\ c <= ClocksVram
           /\ c <= ClocksHblank
<1>1. PICK n \in MCycles : c = n * ClocksPerCycle
  BY DEF TickClocks
<1>2. n \in Nat /\ ClocksPerCycle \in Nat
  BY CyclesAssumption
<1>3. n * ClocksPerCycle \in Nat
  BY <1>2
<1> QED
  BY <1>1, <1>3, InstructionAssumption

\* The clocks handed on after an instruction are those of an instruction.
LEMMA ClocksType ==
    ASSUME cycles \in MCycles
    PROVE  Clocks \in TickClocks
BY DEF Clocks, TickClocks

\* The timer inside the machine is the timer of Timer: its types ...
LEMMA SameTimerType ==
    /\ timer!TypeOK <=> tp!TypeOK
    /\ timer!TypeOK' <=> tp!TypeOK'
BY DEF timer!TypeOK, timer!Byte, timer!Control, timer!RegisterBit,
       tp!TypeOK, tp!Byte, tp!Control, tp!RegisterBit

\* ... its tick ...
LEMMA SameTimerTick ==
    ASSUME NEW c
    PROVE  timer!Tick(c) <=> tp!Tick(c)
BY DEF timer!Tick, timer!CountDivider, timer!CountTima, timer!IncrementCounter,
       timer!Period, timer!TIMER,
       tp!Tick, tp!CountDivider, tp!CountTima, tp!IncrementCounter, tp!Period, tp!TIMER

\* ... its clock, and the steps of its interval timer.
LEMMA SameInterval ==
    ASSUME NEW c
    PROVE  /\ timer!Clock = tp!Clock
           /\ timer!Clock' = tp!Clock'
           /\ timer!Interval!Pass(c) <=> tp!Interval!Pass(c)
           /\ timer!Interval!Expire(c) <=> tp!Interval!Expire(c)
BY DEF timer!Clock, timer!Remaining, timer!Period, timer!TIMER,
       timer!Interval!Pass, timer!Interval!Expire, timer!Interval!Advance,
       tp!Clock, tp!Remaining, tp!Period, tp!TIMER,
       tp!Interval!Pass, tp!Interval!Expire, tp!Interval!Advance

\* The clocks of the divider's round.
Round == TimerByteSize * TimerDivPeriod

\* What a tick of the timer does inside the machine.
LEMMA TimerTicks ==
    ASSUME timer!TypeOK, NEW c \in TickClocks, timer!Tick(c)
    PROVE  /\ timer!TypeOK'
           /\ timer!Clock' = timer!Clock + c \/ timer!Clock' = timer!Clock + c - Round
           /\ timer!Interval!Pass(c) \/ timer!Interval!Expire(c)
<1>1. tp!TypeOK /\ tp!Tick(c)
  BY SameTimerType, SameTimerTick
<1>2. TickClocks \subseteq 0 .. TimerDivPeriod
  BY TickClocksType, TimerAssumption
<1>3. 2 * TimerDivPeriod \in Nat
  BY TimerAssumption
<1>4. tp!TypeOK'
  BY <1>1, <1>2, <1>3, tp!TickType, TimerAssumption
<1>5. tp!Interval!Pass(c) \/ tp!Interval!Expire(c)
  BY <1>1, <1>2, <1>3, tp!CountdownStep, TimerAssumption
<1>6. tp!Clock' = tp!Clock + c \/ tp!Clock' = tp!Clock + c - Round
  BY <1>5 DEF tp!Interval!Pass, tp!Interval!Expire, tp!Interval!Advance, Round
<1> QED
  BY <1>4, <1>5, <1>6, SameTimerType, SameInterval

\* The screen inside the machine is the screen of Ppu: its types ...
LEMMA SamePpuType ==
    /\ ppu!TypeOK <=> pp!TypeOK
    /\ ppu!TypeOK' <=> pp!TypeOK'
BY DEF ppu!TypeOK, ppu!Byte, ppu!Row, ppu!Mode, ppu!LcdControl, ppu!LcdStatus,
       ppu!RegisterBit,
       pp!TypeOK, pp!Byte, pp!Row, pp!Mode, pp!LcdControl, pp!LcdStatus, pp!RegisterBit

\* ... its tick ...
LEMMA SamePpuTick ==
    ASSUME NEW c
    PROVE  ppu!Tick(c, FALSE) <=> pp!Tick(c, FALSE)
BY DEF ppu!Tick, ppu!EndOfMode, ppu!EndOfOam, ppu!EndOfVram, ppu!EndOfHblank,
       ppu!EndOfVblankLine, ppu!DrawFrame, ppu!SetMode, ppu!ModeBits, ppu!Limit,
       ppu!Clocks, ppu!CLOCKS_PER_SCANLINE, ppu!SCANLINES, ppu!Elapse, ppu!NextLine,
       ppu!WrittenScanline, ppu!ScanlineThrows, ppu!Rendering, ppu!Blank, ppu!Row,
       ppu!VBLANK, ppu!LCD_STAT,
       pp!Tick, pp!EndOfMode, pp!EndOfOam, pp!EndOfVram, pp!EndOfHblank,
       pp!EndOfVblankLine, pp!DrawFrame, pp!SetMode, pp!ModeBits, pp!Limit,
       pp!Clocks, pp!CLOCKS_PER_SCANLINE, pp!SCANLINES, pp!Elapse, pp!NextLine,
       pp!WrittenScanline, pp!ScanlineThrows, pp!Rendering, pp!Blank, pp!Row,
       pp!VBLANK, pp!LCD_STAT

\* What PpuProofs shows of the screen, for the screen inside the machine.
FrameInv == ppu!LineFitsMode /\ ppu!NoStaleRow /\ ppu!NeverThrows

\* ... the invariant of its frame ...
LEMMA SameFrameInv ==
    /\ FrameInv <=> pp!FrameInv
    /\ FrameInv' <=> pp!FrameInv'
BY DEF FrameInv, ppu!LineFitsMode, ppu!NoStaleRow, ppu!NeverThrows, ppu!Limit,
       ppu!Clocks, ppu!CLOCKS_PER_SCANLINE, ppu!SCANLINES, ppu!Row,
       pp!FrameInv, pp!LineFitsMode, pp!NoStaleRow, pp!NeverThrows, pp!Limit,
       pp!Clocks, pp!CLOCKS_PER_SCANLINE, pp!SCANLINES, pp!Row

\* ... its beam, and the beam's steps.
LEMMA SameBeam ==
    ASSUME NEW c
    PROVE  /\ ppu!Beam = pp!Beam
           /\ ppu!Beam' = pp!Beam'
           /\ ppu!Lcd!Move(c) <=> pp!Lcd!Move(c)
           /\ ppu!Lcd!EnterVblank(c) <=> pp!Lcd!EnterVblank(c)
           /\ ppu!Lcd!ShowFrame(c) <=> pp!Lcd!ShowFrame(c)
BY DEF ppu!Beam, ppu!Offset, ppu!CLOCKS_PER_SCANLINE, ppu!SCANLINES, ppu!VBLANK,
       ppu!Lcd!Move, ppu!Lcd!EnterVblank, ppu!Lcd!ShowFrame,
       pp!Beam, pp!Offset, pp!CLOCKS_PER_SCANLINE, pp!SCANLINES, pp!VBLANK,
       pp!Lcd!Move, pp!Lcd!EnterVblank, pp!Lcd!ShowFrame

\* The clocks of the beam's round.
Frame == (VisibleLines + VblankLines) * (ClocksOam + ClocksVram + ClocksHblank)

\* What a tick of the screen does inside the machine.
LEMMA PpuTicks ==
    ASSUME ppu!TypeOK, FrameInv, NEW c \in TickClocks, ppu!Tick(c, FALSE)
    PROVE  /\ ppu!TypeOK'
           /\ FrameInv'
           /\ ppu!Beam' = ppu!Beam + c \/ ppu!Beam' = ppu!Beam + c - Frame
           /\ \/ ppu!Lcd!Move(c)
              \/ ppu!Lcd!EnterVblank(c)
              \/ ppu!Lcd!ShowFrame(c)
<1>1. pp!TypeOK /\ pp!FrameInv /\ pp!Tick(c, FALSE)
  BY SamePpuType, SameFrameInv, SamePpuTick
<1>2. \A d \in TickClocks : d \in Nat /\ d <= ClocksOam /\ d <= ClocksVram /\ d <= ClocksHblank
  BY TickClocksType
<1>3. pp!TypeOK'
  BY <1>1, <1>2, pp!TickType, PpuAssumption DEF pp!SCANLINES
<1>4. pp!FrameInv'
  BY <1>1, <1>2, pp!TickKeepsFrameInv, PpuAssumption DEF pp!SCANLINES
<1>5. pp!Lcd!Move(c) \/ pp!Lcd!EnterVblank(c) \/ pp!Lcd!ShowFrame(c)
  BY <1>1, <1>2, <1>3, pp!TickIsBeamStep, PpuAssumption DEF pp!SCANLINES
<1>6. pp!Beam' = pp!Beam + c \/ pp!Beam' = pp!Beam + c - Frame
  BY <1>5 DEF pp!Lcd!Move, pp!Lcd!EnterVblank, pp!Lcd!ShowFrame, Frame,
              pp!SCANLINES, pp!CLOCKS_PER_SCANLINE
<1> QED
  BY <1>3, <1>4, <1>5, <1>6, SamePpuType, SameFrameInv, SameBeam

-------------------------------------------------------------------------------
(* Types.                                                                  *)

\* All three parts see the one interrupt_flag.
LEMMA SharedFlag ==
    /\ timer!TypeOK => interrupt_flag \subseteq RegisterBit
    /\ timer!TypeOK' => interrupt_flag' \subseteq RegisterBit
    /\ ppu!TypeOK' => interrupt_flag' \subseteq RegisterBit
    /\ joypad!TypeOK' => interrupt_flag' \subseteq RegisterBit
BY DEF timer!TypeOK, ppu!TypeOK, joypad!TypeOK, RegisterBit,
       timer!RegisterBit, ppu!RegisterBit, joypad!RegisterBit

\* A part that is left alone keeps its types, whatever the others request.
LEMMA UntouchedParts ==
    ASSUME interrupt_flag' \subseteq RegisterBit
    PROVE  /\ timer!TypeOK /\ UNCHANGED timerVars => timer!TypeOK'
           /\ ppu!TypeOK /\ UNCHANGED ppuVars => ppu!TypeOK'
           /\ joypad!TypeOK /\ UNCHANGED joypadVars => joypad!TypeOK'
BY DEF timer!TypeOK, ppu!TypeOK, joypad!TypeOK, timerVars, ppuVars, joypadVars, RegisterBit,
       timer!RegisterBit, ppu!RegisterBit, joypad!RegisterBit

\* What the program and the user do to the joypad keeps its types.
LEMMA JoypadSteps ==
    ASSUME joypad!TypeOK,
           \/ \E select \in Selections : joypad!WriteJOYP(select)
           \/ \E b \in Keys : joypad!KeyDown(b) \/ joypad!KeyUp(b)
    PROVE  joypad!TypeOK'
<1>1. \A select, buttons : \A old \in SUBSET joypad!Line :
         joypad!Update(select, buttons, old) \subseteq joypad!Line
  BY DEF joypad!Update, joypad!Held
<1>2. CASE \E select \in Selections : joypad!WriteJOYP(select)
  BY <1>1, <1>2, KeysAssumption DEF joypad!WriteJOYP, joypad!TypeOK
<1>3. ASSUME NEW b \in Keys, joypad!KeyDown(b) \/ joypad!KeyUp(b)
      PROVE  joypad!TypeOK'
  <2>1. b \in joypad!Button /\ joypad!JOYPAD \in joypad!RegisterBit
    BY KeysAssumption DEF joypad!JOYPAD, joypad!RegisterBit
  <2> QED
    BY <1>1, <1>3, <2>1 DEF joypad!KeyDown, joypad!KeyUp, joypad!ButtonDown, joypad!ButtonUp,
                            joypad!SetHeld, joypad!TypeOK
<1> QED
  BY <1>2, <1>3

\* An event that arrives is one more in the queue, within its bound.
LEMMA ArrivalType ==
    ASSUME TypeOK, NEW event \in Event, Arrives(event)
    PROVE  queue' \in Seq(Event) /\ Len(queue') <= MaxEvents
<1>1. queue \in Seq(Event) /\ Len(queue) \in Nat
  BY DEF TypeOK
<1>2. queue' = Append(queue, event) /\ Len(queue) < MaxEvents
  BY DEF Arrives
<1>3. queue' \in Seq(Event) /\ Len(queue') = Len(queue) + 1
  BY <1>1, <1>2
<1> QED
  BY <1>1, <1>2, <1>3, EventsAssumption

\* A round of the poll takes one event.
LEMMA TakenType ==
    ASSUME TypeOK, TakeEvent
    PROVE  /\ queue' \in Seq(Event) /\ Len(queue') <= MaxEvents
           /\ should_exit_' \in BOOLEAN
           /\ joypad!TypeOK'
<1>1. queue \in Seq(Event) /\ queue # <<>> /\ queue' = Tail(queue)
  BY DEF TypeOK, TakeEvent
<1>2. queue' \in Seq(Event) /\ Len(queue') <= MaxEvents
  <2>1. Tail(queue) \in Seq(Event) /\ Len(Tail(queue)) = Len(queue) - 1 /\ Len(queue) \in Nat
    BY <1>1
  <2> QED
    BY <1>1, <2>1, EventsAssumption DEF TypeOK
<1>3. Head(queue) \in Event
  BY <1>1
<1>4. CASE Head(queue).kind = "close"
  <2>1. should_exit_' = TRUE /\ UNCHANGED <<joypadVars, interrupt_flag>>
    BY <1>4 DEF TakeEvent
  <2> QED
    BY <1>2, <2>1 DEF TypeOK, joypad!TypeOK, joypadVars
<1>5. CASE Head(queue).kind # "close"
  <2>1. Head(queue).key \in Keys /\ Head(queue).kind \in {"down", "up"}
    BY <1>3, <1>5 DEF Event
  <2>2. joypad!KeyDown(Head(queue).key) \/ joypad!KeyUp(Head(queue).key)
    BY <2>1 DEF TakeEvent
  <2>3. UNCHANGED should_exit_
    BY <2>1 DEF TakeEvent
  <2> QED
    BY <1>2, <2>1, <2>2, <2>3, JoypadSteps DEF TypeOK
<1> QED
  BY <1>4, <1>5

\* An instruction leaves the parts in their types, whatever it acknowledges or
\* writes.
LEMMA InstructionType ==
    ASSUME TypeOK, NEW c \in MCycles, CpuTick(c)
    PROVE  TypeOK'
<1>1. CASE UNCHANGED <<interrupt_flag, joypadVars, timerVars>>
  <2>1. interrupt_flag' \subseteq RegisterBit
    BY <1>1, SharedFlag DEF TypeOK
  <2> QED
    BY <1>1, <2>1, UntouchedParts DEF CpuTick, TypeOK, outside
<1>2. CASE Acknowledge
  <2>1. interrupt_flag' \subseteq RegisterBit
    BY <1>2, SharedFlag DEF TypeOK, Acknowledge
  <2> QED
    BY <1>2, <2>1, UntouchedParts DEF CpuTick, TypeOK, outside, Acknowledge
<1>3. CASE \E select \in Selections : joypad!WriteJOYP(select) /\ UNCHANGED timerVars
  <2>1. joypad!TypeOK'
    BY <1>3, JoypadSteps DEF TypeOK
  <2> QED
    BY <1>3, <2>1, SharedFlag, UntouchedParts DEF CpuTick, TypeOK, outside
<1>4. CASE (\/ \E control \in Controls : timer!WriteTAC(control)
            \/ timer!WriteDIV) /\ UNCHANGED joypadVars
  <2>1. timer!TypeOK'
    BY <1>4, KeysAssumption, TimerAssumption
       DEF TypeOK, timer!TypeOK, timer!Byte, timer!WriteTAC, timer!WriteDIV
  <2> QED
    BY <1>4, <2>1, SharedFlag, UntouchedParts DEF CpuTick, TypeOK, outside
<1> QED
  BY <1>1, <1>2, <1>3, <1>4 DEF CpuTick, WriteRegister

-------------------------------------------------------------------------------
(* The screen and the timer in lockstep.                                   *)

\* The screen may be an instruction ahead of the timer; with that taken off,
\* they are in step at every place of the loop.
Lag    == IF at \in {"poll", "timer"} THEN Clocks ELSE 0
Ahead  == ppu!Beam - timer!Clock - Lag
InStep == Ahead % CommonClocks = 0

\* The inductive invariant: a tick of the screen moves the beam by its clocks
\* only while the line fits the mode, so FrameInv is part of it.
MachineInv == TypeOK /\ FrameInv /\ InStep

\* Sums of multiples are multiples.
LEMMA Multiples ==
    ASSUME NEW p \in Nat \ {0}, NEW a \in Int, NEW b \in Int, a % p = 0, b % p = 0
    PROVE  (a + b) % p = 0
<1>1. /\ a = p * (a \div p) + (a % p) /\ a \div p \in Int
      /\ b = p * (b \div p) + (b % p) /\ b \div p \in Int
  BY SMT
<1>2. PICK k \in Int : k = (a \div p) + (b \div p)
  BY <1>1
<1>3. a + b = k * p
  BY <1>1, <1>2
<1>4. (k * p) % p = 0
  BY SMT
<1> QED
  BY <1>3, <1>4

\* The negation of a multiple is a multiple.
LEMMA NegatedMultiple ==
    ASSUME NEW p \in Nat \ {0}, NEW a \in Int, a % p = 0
    PROVE  (0 - a) % p = 0
<1>1. a = p * (a \div p) + (a % p) /\ a \div p \in Int
  BY SMT
<1>2. PICK k \in Int : k = 0 - (a \div p)
  BY <1>1
<1>3. 0 - a = k * p
  BY <1>1, <1>2
<1>4. (k * p) % p = 0
  BY SMT
<1> QED
  BY <1>3, <1>4

\* Any number of the divider's periods is a multiple of the common clocks.
LEMMA PeriodsAreMultiples ==
    ASSUME NEW n \in Int
    PROVE  n * TimerDivPeriod \in Int /\ (n * TimerDivPeriod) % CommonClocks = 0
<1> DEFINE q == TimerDivPeriod \div CommonClocks
<1>1. TimerDivPeriod = CommonClocks * q + (TimerDivPeriod % CommonClocks) /\ q \in Int
  BY CommonAssumption, TimerAssumption, SMT
<1>2. PICK k \in Int : k = n * q
  BY <1>1
<1>3. n * TimerDivPeriod = k * CommonClocks
  BY <1>1, <1>2, CommonAssumption
<1>4. (k * CommonClocks) % CommonClocks = 0
  BY CommonAssumption, SMT
<1> QED
  BY <1>3, <1>4, TimerAssumption

\* The beam, the clock and the lag are numbers.
LEMMA AheadType ==
    /\ TypeOK => Ahead \in Int /\ timer!Clock \in Int /\ ppu!Beam \in Int /\ Clocks \in Nat
    /\ TypeOK' => Ahead' \in Int
<1>1. ASSUME NEW c \in MCycles
      PROVE  c * ClocksPerCycle \in Nat
  BY CyclesAssumption
<1>2. ASSUME NEW d \in Nat, NEW r \in Nat
      PROVE  d * TimerDivPeriod + r \in Nat
  BY TimerAssumption
<1>3. ASSUME NEW l \in Nat, NEW o \in Nat, NEW e \in Nat
      PROVE  l * (ClocksOam + ClocksVram + ClocksHblank) + o + e \in Nat
  BY PpuAssumption
<1>4. \A mode \in ppu!Mode : ppu!Offset(mode) \in Nat
  BY PpuAssumption DEF ppu!Mode, ppu!Offset
<1>5. TypeOK => ppu!Beam \in Nat /\ timer!Clock \in Nat /\ Clocks \in Nat
  <2> SUFFICES ASSUME TypeOK PROVE ppu!Beam \in Nat /\ timer!Clock \in Nat /\ Clocks \in Nat
    OBVIOUS
  <2>1. line \in Nat /\ cycles_elapsed_ \in Nat /\ divider \in Nat /\ div_cycle_counter_ \in Nat
    BY DEF TypeOK, ppu!TypeOK, ppu!Byte, timer!TypeOK, timer!Byte
  <2>2. ppu!Offset(mode_) \in Nat
    BY <1>4 DEF TypeOK, ppu!TypeOK
  <2> QED
    BY <1>1, <1>2, <1>3, <2>1, <2>2
       DEF TypeOK, Clocks, ppu!Beam, ppu!CLOCKS_PER_SCANLINE, timer!Clock
<1>6. TypeOK' => (ppu!Beam \in Nat /\ timer!Clock \in Nat /\ Clocks \in Nat)'
  BY <1>5, PTL
<1> QED
  BY <1>5, <1>6 DEF Ahead, Lag

\* A step that moves the two by a multiple of the common clocks against each
\* other leaves them in step.
LEMMA StaysInStep ==
    ASSUME TypeOK, TypeOK', InStep, NEW m \in Int, m % CommonClocks = 0, Ahead' = Ahead + m
    PROVE  InStep'
<1>1. Ahead \in Int /\ Ahead' \in Int
  BY AheadType
<1>2. (Ahead + m) % CommonClocks = 0
  BY <1>1, Multiples, CommonAssumption DEF InStep
<1> QED
  BY <1>2 DEF InStep

\* What is left alone of screen, timer and loop does not move them.
LEMMA Unmoved ==
    ASSUME UNCHANGED <<timerVars, ppuVars>>
    PROVE  /\ UNCHANGED <<ppu!Beam, timer!Clock>>
           /\ FrameInv => FrameInv'
BY DEF timerVars, ppuVars, ppu!Beam, timer!Clock, FrameInv,
       ppu!LineFitsMode, ppu!NoStaleRow, ppu!NeverThrows, ppu!Limit

\* At the start the frame is blank and nothing has moved.
LEMMA MachineStarts == Init => MachineInv
<1> SUFFICES ASSUME Init PROVE MachineInv
  OBVIOUS
<1>1. timer!TypeOK
  BY TimerAssumption DEF Init, timer!Init, timer!TypeOK, timer!Byte, timer!Control
<1>2. ppu!TypeOK
  <2>1. mode_ \in ppu!Mode /\ cycles_elapsed_ \in Nat /\ frame_parity \in 0 .. 1
    BY DEF Init, ppu!Init, ppu!Mode
  <2>2. line \in ppu!Byte /\ ly_compare \in ppu!Byte
    <3>1. 0 \in ppu!Byte
      BY PpuAssumption DEF ppu!Byte
    <3> QED
      BY <3>1 DEF Init, ppu!Init
  <2>3. lcd_control \in ppu!LcdControl
    BY DEF Init, ppu!Init, ppu!LcdControl
  <2>4. lcd_status \in ppu!LcdStatus
    BY DEF Init, ppu!Init, ppu!LcdStatus
  <2>5. frame_buffer_ \in [ppu!Row -> {"white", "painted"}]
    BY DEF Init, ppu!Init, ppu!Blank
  <2>6. thrown \in BOOLEAN /\ interrupt_flag \subseteq ppu!RegisterBit
    BY DEF Init, ppu!Init
  <2> QED
    BY <2>1, <2>2, <2>3, <2>4, <2>5, <2>6 DEF ppu!TypeOK
<1>3. joypad!TypeOK
  BY DEF Init, joypad!Init, joypad!TypeOK
<1>4. TypeOK
  <2>1. queue \in Seq(Event) /\ Len(queue) = 0
    BY DEF Init
  <2>2. Len(queue) <= MaxEvents
    BY <2>1, EventsAssumption
  <2>3. at = "cpu" /\ cycles \in MCycles /\ user \subseteq Keys
    BY DEF Init
  <2>4. should_exit_ \in BOOLEAN /\ interrupted \in BOOLEAN
    BY DEF Init
  <2> QED
    BY <1>1, <1>2, <1>3, <2>1, <2>2, <2>3, <2>4 DEF TypeOK
<1>5. FrameInv
  BY PpuAssumption DEF Init, ppu!Init, FrameInv, ppu!LineFitsMode, ppu!NoStaleRow,
                       ppu!NeverThrows, ppu!Limit, ppu!Clocks, ppu!Row, ppu!Blank
<1>6. InStep
  <2>1. 0 * TimerDivPeriod = 0 /\ 0 * (ClocksOam + ClocksVram + ClocksHblank) = 0
    BY TimerAssumption, PpuAssumption
  <2>2. ppu!Beam = 0 /\ timer!Clock = 0 /\ Lag = 0
    BY <2>1 DEF Init, ppu!Init, timer!Init, ppu!Beam, ppu!Offset, ppu!CLOCKS_PER_SCANLINE,
                timer!Clock, Lag
  <2>3. 0 % CommonClocks = 0
    BY CommonAssumption, SMT
  <2> QED
    BY <2>2, <2>3 DEF InStep, Ahead
<1> QED
  BY <1>4, <1>5, <1>6 DEF MachineInv

\* Every step keeps the types: the parts' own lemmas do the ticks.
LEMMA MachineTypes ==
    ASSUME TypeOK, FrameInv, [Next]_vars
    PROVE  TypeOK'
<1>0. Clocks \in TickClocks
  BY ClocksType DEF TypeOK
<1>1. ASSUME NEW c \in MCycles, CpuTick(c)
      PROVE  TypeOK'
  BY <1>1, InstructionType
<1>2. CASE PpuTick
  <2>1. ppu!TypeOK'
    BY <1>0, <1>2, PpuTicks DEF TypeOK, PpuTick
  <2> QED
    BY <1>2, <2>1, SharedFlag, UntouchedParts DEF PpuTick, TypeOK, AfterPpu, outside
<1>3. CASE PollEvent
  BY <1>3, TakenType, SharedFlag, UntouchedParts DEF PollEvent, TypeOK
<1>4. CASE TimerTick
  <2>1. timer!TypeOK'
    BY <1>0, <1>4, TimerTicks DEF TypeOK, TimerTick
  <2> QED
    BY <1>4, <2>1, SharedFlag, UntouchedParts DEF TimerTick, TypeOK, outside
<1>5. CASE PollEnds \/ Return \/ Sigint \/ UNCHANGED vars
  <2>1. UNCHANGED <<interrupt_flag, timerVars, ppuVars, joypadVars, cycles, user, queue>>
    BY <1>5 DEF PollEnds, Return, Sigint, vars, outside
  <2> QED
    BY <1>5, <2>1, SharedFlag, UntouchedParts
       DEF PollEnds, Return, Sigint, vars, TypeOK, outside
<1>6. ASSUME NEW key \in Keys, Press(key) \/ Release(key)
      PROVE  TypeOK'
  <2>1. PICK event \in Event : Arrives(event)
    BY <1>6 DEF Press, Release, Event
  <2>2. user' \subseteq Keys
    BY <1>6 DEF Press, Release, TypeOK
  <2> QED
    BY <1>6, <2>1, <2>2, ArrivalType, SharedFlag, UntouchedParts DEF Press, Release, TypeOK
<1>7. CASE CloseWindow
  <2>1. PICK event \in Event : Arrives(event)
    BY <1>7 DEF CloseWindow, Event
  <2> QED
    BY <1>7, <2>1, ArrivalType, SharedFlag, UntouchedParts DEF CloseWindow, TypeOK
<1> QED
  BY <1>1, <1>2, <1>3, <1>4, <1>5, <1>6, <1>7 DEF Next, Step

\* Every step keeps screen and timer in step: the screen's tick goes ahead by the
\* clocks that the timer's tick makes up for, a write to DIV takes whole periods.
LEMMA MachineStep ==
    ASSUME MachineInv, [Next]_vars
    PROVE  MachineInv'
<1> USE DEF MachineInv
<1>0. TypeOK' /\ Clocks \in TickClocks
  BY MachineTypes, ClocksType DEF TypeOK
<1>1. ASSUME NEW c \in MCycles, CpuTick(c)
      PROVE  FrameInv' /\ InStep'
  <2>1. at = "cpu" /\ at' = "ppu" /\ UNCHANGED ppuVars
    BY <1>1 DEF CpuTick
  <2>2. FrameInv' /\ UNCHANGED ppu!Beam
    BY <2>1 DEF ppuVars, ppu!Beam, FrameInv,
                ppu!LineFitsMode, ppu!NoStaleRow, ppu!NeverThrows, ppu!Limit
  <2>3. CASE UNCHANGED <<divider, div_cycle_counter_>>
    <3>1. Ahead' = Ahead + 0
      BY <2>1, <2>2, <2>3, AheadType DEF Ahead, Lag, timer!Clock
    <3>2. 0 % CommonClocks = 0
      BY CommonAssumption, SMT
    <3> QED
      BY <1>0, <2>2, <3>1, <3>2, StaysInStep
  <2>4. CASE timer!WriteDIV
    <3>1. divider \in Int /\ div_cycle_counter_ \in Int
      BY DEF TypeOK, timer!TypeOK, timer!Byte
    <3>2. divider * TimerDivPeriod \in Int /\ (divider * TimerDivPeriod) % CommonClocks = 0
      BY <3>1, PeriodsAreMultiples
    <3>3. timer!Clock = divider * TimerDivPeriod + div_cycle_counter_
      BY DEF timer!Clock
    <3>4. timer!Clock' = div_cycle_counter_
      BY <2>4, <3>1, TimerAssumption DEF timer!WriteDIV, timer!Clock
    <3>5. Ahead' = Ahead + divider * TimerDivPeriod
      BY <2>1, <2>2, <3>1, <3>2, <3>3, <3>4, AheadType DEF Ahead, Lag
    <3> QED
      BY <1>0, <2>2, <3>2, <3>5, StaysInStep
  <2> QED
    BY <1>1, <2>3, <2>4 DEF CpuTick, Acknowledge, WriteRegister, timerVars, timer!WriteTAC
<1>2. CASE PpuTick
  <2>1. /\ FrameInv'
        /\ ppu!Beam' = ppu!Beam + Clocks \/ ppu!Beam' = ppu!Beam + Clocks - Frame
    BY <1>0, <1>2, PpuTicks DEF PpuTick, TypeOK
  <2>2. Lag = 0 /\ Lag' = Clocks /\ UNCHANGED timer!Clock
    BY <1>2 DEF PpuTick, AfterPpu, Lag, Clocks, timer!Clock, timerVars
  <2>3. Frame \in Int /\ Frame % CommonClocks = 0 /\ 0 % CommonClocks = 0
    BY PpuAssumption, CommonAssumption, SMT DEF Frame
  <2>4. (0 - Frame) % CommonClocks = 0
    BY <2>3, CommonAssumption, NegatedMultiple
  <2>5. Ahead' = Ahead + 0 \/ Ahead' = Ahead + (0 - Frame)
    BY <2>1, <2>2, <2>3, AheadType DEF Ahead
  <2> QED
    BY <1>0, <2>1, <2>3, <2>4, <2>5, StaysInStep
<1>3. CASE TimerTick
  <2>1. timer!Clock' = timer!Clock + Clocks \/ timer!Clock' = timer!Clock + Clocks - Round
    BY <1>0, <1>3, TimerTicks DEF TimerTick, TypeOK
  <2>2. Lag = Clocks /\ Lag' = 0 /\ UNCHANGED ppu!Beam /\ FrameInv'
    BY <1>3 DEF TimerTick, Lag, ppu!Beam, ppuVars, FrameInv,
                ppu!LineFitsMode, ppu!NoStaleRow, ppu!NeverThrows, ppu!Limit
  <2>3. Round \in Int /\ Round % CommonClocks = 0 /\ 0 % CommonClocks = 0
    BY PeriodsAreMultiples, TimerAssumption, CommonAssumption, SMT DEF Round
  <2>4. Ahead' = Ahead + 0 \/ Ahead' = Ahead + Round
    BY <2>1, <2>2, <2>3, AheadType DEF Ahead
  <2> QED
    BY <1>0, <2>2, <2>3, <2>4, StaysInStep
<1>4. CASE /\ UNCHANGED <<timerVars, ppuVars, cycles>>
           /\ UNCHANGED at \/ (at = "poll" /\ at' = "timer") \/ (at = "cpu" /\ at' = "returned")
  <2>1. UNCHANGED Ahead
    BY <1>4, Unmoved DEF Ahead, Lag, Clocks
  <2>2. InStep' /\ FrameInv'
    BY <1>4, <2>1, Unmoved DEF InStep
  <2> QED
    BY <1>0, <2>2
<1> QED
  BY <1>0, <1>1, <1>2, <1>3, <1>4
     DEF Next, Step, PollEvent, PollEnds, Return, Press, Release, CloseWindow, Sigint, vars

\* The invariant of the whole machine.
LEMMA MachineInvariant == Spec => []MachineInv
BY MachineStarts, MachineStep, PTL DEF Spec

\* gbc.cc:78-91, 116-141: whatever the user does and whenever SIGINT comes, the
\* parts of the machine stay in their types, and the queue holds events.
THEOREM TypeCorrect == Spec => []TypeOK
<1>1. MachineInv => TypeOK
  BY DEF MachineInv
<1> QED
  BY <1>1, MachineInvariant, PTL

\* gbc.cc:78-83: for every pace of instructions and every size of screen and
\* timer, the two have lived through the same clocks between two instructions.
THEOREM Lockstep == Spec => []InLockstep
<1>1. MachineInv => InLockstep
  <2> SUFFICES ASSUME MachineInv, at = "cpu"
               PROVE  (ppu!Beam - timer!Clock) % CommonClocks = 0
    BY DEF InLockstep
  <2>1. Ahead = ppu!Beam - timer!Clock
    BY AheadType DEF MachineInv, Ahead, Lag
  <2> QED
    BY <2>1 DEF MachineInv, InStep
<1> QED
  BY <1>1, MachineInvariant, PTL

-------------------------------------------------------------------------------
(* The parts keep the promises of their modules inside the machine.        *)

\* A step that moves neither the beam nor its frames, and at most acknowledges
\* the vblank, is a step of the LCD's clock.
LEMMA BeamRests ==
    ASSUME UNCHANGED ppuVars, VBLANK \in interrupt_flag' => VBLANK \in interrupt_flag
    PROVE  [ppu!Lcd!Next]_ppu!Lcd!lvars
<1>1. UNCHANGED <<ppu!Beam, frame_parity>>
  BY DEF ppuVars, ppu!Beam
<1> QED
  BY <1>1 DEF ppu!Lcd!Next, ppu!Lcd!Acknowledge, ppu!Lcd!lvars, ppu!VBLANK, VBLANK

\* A step that leaves the timer's registers alone, and at most acknowledges its
\* request, is a step of the interval timer.
LEMMA CountdownRests ==
    ASSUME UNCHANGED timerVars, TIMER \in interrupt_flag' => TIMER \in interrupt_flag
    PROVE  [timer!Interval!Next]_timer!Interval!ivars
<1>1. UNCHANGED <<timer!Clock, timer!Remaining, timer!Period, timer_control, timer_modulo>>
  BY DEF timerVars, timer!Clock, timer!Remaining, timer!Period
<1> QED
  BY <1>1 DEF timer!Interval!Next, timer!Interval!Acknowledge, timer!Interval!ivars,
              timer!TIMER, TIMER

\* Keys request only the joypad's interrupt.
LEMMA KeyRequests ==
    ASSUME TypeOK, TakeEvent
    PROVE  \A i \in {VBLANK, TIMER} : i \in interrupt_flag' => i \in interrupt_flag
<1>1. Head(queue) \in Event
  BY DEF TypeOK, TakeEvent
<1>2. CASE Head(queue).kind = "close"
  BY <1>2 DEF TakeEvent
<1>3. CASE Head(queue).kind # "close"
  <2>1. Head(queue).kind \in {"down", "up"}
    BY <1>1, <1>3 DEF Event
  <2>2. joypad!KeyDown(Head(queue).key) \/ joypad!KeyUp(Head(queue).key)
    BY <2>1 DEF TakeEvent
  <2> QED
    BY <2>2 DEF joypad!KeyDown, joypad!KeyUp, joypad!ButtonDown, joypad!ButtonUp,
                joypad!SetHeld, joypad!JOYPAD, VBLANK, TIMER
<1> QED
  BY <1>2, <1>3

\* What the screen's tick requests is no business of the timer.
LEMMA ScreenRequests ==
    ASSUME ppu!TypeOK, NEW c, ppu!Tick(c, FALSE)
    PROVE  TIMER \in interrupt_flag' => TIMER \in interrupt_flag
<1>1. CASE ppu!EndOfMode(FALSE)
  <2>1. ppu!EndOfOam \/ ppu!EndOfVram \/ ppu!EndOfHblank(FALSE) \/ ppu!EndOfVblankLine(FALSE)
    BY <1>1 DEF ppu!EndOfMode, ppu!TypeOK, ppu!Mode
  <2>2. \/ UNCHANGED interrupt_flag
        \/ interrupt_flag' = interrupt_flag \cup {ppu!LCD_STAT}
        \/ interrupt_flag' = interrupt_flag \cup {ppu!VBLANK}
    BY <2>1 DEF ppu!EndOfOam, ppu!EndOfVram, ppu!EndOfHblank, ppu!EndOfVblankLine, ppu!DrawFrame
  <2> QED
    BY <2>2 DEF ppu!VBLANK, ppu!LCD_STAT, TIMER
<1>2. CASE UNCHANGED interrupt_flag
  BY <1>2
<1> QED
  BY <1>1, <1>2 DEF ppu!Tick

\* What the timer's tick requests is no business of the screen.
LEMMA TimerRequests ==
    ASSUME NEW c, timer!Tick(c)
    PROVE  VBLANK \in interrupt_flag' => VBLANK \in interrupt_flag
BY DEF timer!Tick, timer!CountTima, timer!IncrementCounter, timer!TIMER, VBLANK

\* Every step of the machine is one of the LCD's clock, or leaves it alone.
LEMMA StepOfBeam ==
    ASSUME MachineInv, [Next]_vars
    PROVE  [ppu!Lcd!Next]_ppu!Lcd!lvars
<1>0. TypeOK /\ FrameInv /\ Clocks \in TickClocks
  BY ClocksType DEF MachineInv, TypeOK
<1>1. ASSUME NEW c \in MCycles, CpuTick(c)
      PROVE  UNCHANGED ppuVars /\ (VBLANK \in interrupt_flag' => VBLANK \in interrupt_flag)
  BY <1>1 DEF CpuTick, Acknowledge, WriteRegister, timer!WriteTAC, timer!WriteDIV,
              joypad!WriteJOYP
<1>2. CASE PpuTick
  BY <1>0, <1>2, PpuTicks DEF PpuTick, TypeOK, ppu!Lcd!Next
<1>3. CASE PollEvent
  BY <1>0, <1>3, KeyRequests, BeamRests DEF PollEvent
<1>4. CASE TimerTick
  BY <1>4, TimerRequests, BeamRests DEF TimerTick
<1>5. CASE UNCHANGED <<interrupt_flag, ppuVars>>
  BY <1>5, BeamRests
<1> QED
  BY <1>1, <1>2, <1>3, <1>4, <1>5, BeamRests
     DEF Next, Step, PollEnds, Return, Press, Release, CloseWindow, Sigint, vars

\* Every step of the machine is one of the interval timer, or leaves it alone.
LEMMA StepOfCountdown ==
    ASSUME MachineInv, [Next]_vars
    PROVE  [timer!Interval!Next]_timer!Interval!ivars
<1>0. TypeOK /\ Clocks \in TickClocks
  BY ClocksType DEF MachineInv, TypeOK
<1>1. ASSUME NEW c \in MCycles, CpuTick(c)
      PROVE  [timer!Interval!Next]_timer!Interval!ivars
  <2>1. CASE timer!WriteDIV
    <3>1. /\ timer!Clock = divider * TimerDivPeriod + div_cycle_counter_
          /\ divider * TimerDivPeriod \in Nat /\ div_cycle_counter_ \in Nat
      BY <1>0, TimerAssumption DEF TypeOK, timer!TypeOK, timer!Byte, timer!Clock
    <3>2. timer!Clock' = div_cycle_counter_
      BY <2>1, <3>1, TimerAssumption DEF timer!WriteDIV, timer!Clock
    <3>3. timer!Clock' \in 0 .. timer!Clock
      BY <3>1, <3>2
    <3>4. UNCHANGED <<timer!Remaining, timer!Period, timer_control, timer_modulo, interrupt_flag>>
      BY <2>1 DEF timer!WriteDIV, timer!Remaining, timer!Period
    <3> QED
      BY <3>3, <3>4 DEF timer!Interval!Next, timer!Interval!ResetClock
  <2>2. CASE \E control \in Controls : timer!WriteTAC(control)
    BY <2>2 DEF timer!WriteTAC, timer!Interval!Next, timer!Interval!Reprogram, timer!Clock
  <2>3. CASE UNCHANGED timerVars /\ (TIMER \in interrupt_flag' => TIMER \in interrupt_flag)
    BY <2>3, CountdownRests
  <2> QED
    BY <1>1, <2>1, <2>2, <2>3 DEF CpuTick, Acknowledge, WriteRegister, joypad!WriteJOYP
<1>2. CASE PpuTick
  BY <1>0, <1>2, ScreenRequests, CountdownRests DEF PpuTick, TypeOK
<1>3. CASE PollEvent
  BY <1>0, <1>3, KeyRequests, CountdownRests DEF PollEvent
<1>4. CASE TimerTick
  BY <1>0, <1>4, TimerTicks DEF TimerTick, TypeOK, timer!Interval!Next
<1>5. CASE UNCHANGED <<interrupt_flag, timerVars>>
  BY <1>5, CountdownRests
<1> QED
  BY <1>1, <1>2, <1>3, <1>4, <1>5
     DEF Next, Step, PollEnds, Return, Press, Release, CloseWindow, Sigint, vars

\* gbc.cc:78-83: for every machine, the screen is the steady beam of LcdClock
\* and the timer the interval timer, whatever the program and the user do.
THEOREM MachineKeepsTime == Spec => PartsKeepTime
<1>1. Init => ppu!Lcd!Init /\ timer!Interval!Init
  <2> SUFFICES ASSUME Init PROVE ppu!Lcd!Init /\ timer!Interval!Init
    OBVIOUS
  <2>1. ppu!Beam = 0
    <3>1. 0 * (ClocksOam + ClocksVram + ClocksHblank) = 0
      BY PpuAssumption
    <3> QED
      BY <3>1 DEF Init, ppu!Init, ppu!Beam, ppu!Offset, ppu!CLOCKS_PER_SCANLINE
  <2>2. timer!Clock = 0
    BY TimerAssumption DEF Init, timer!Init, timer!Clock
  <2>3. timer!Period \in Nat \ {0}
    BY TimerAssumption DEF Init, timer!Init, timer!Period
  <2>4. timer!Remaining = TimerByteSize * timer!Period
    BY <2>3, TimerAssumption DEF Init, timer!Init, timer!Remaining
  <2>5. timer!Remaining > 0
    BY <2>3, <2>4, TimerAssumption
  <2> QED
    BY <2>1, <2>2, <2>5 DEF Init, ppu!Init, timer!Init, ppu!Lcd!Init, timer!Interval!Init
<1>2. MachineInv /\ [Next]_vars => /\ [ppu!Lcd!Next]_ppu!Lcd!lvars
                                   /\ [timer!Interval!Next]_timer!Interval!ivars
  BY StepOfBeam, StepOfCountdown
<1> QED
  BY <1>1, <1>2, MachineInvariant, PTL
     DEF Spec, PartsKeepTime, ppu!RefinesLcdClock, ppu!Lcd!Spec,
         timer!RefinesIntervalTimer, timer!Interval!Spec

-------------------------------------------------------------------------------
(* The keys.                                                               *)

\* Whether an event is about a key.
Concerns(event, key) == event.kind # "close" /\ event.key = key

\* Taking the head moves the others about a key one place forward.
LEMMA AboutTail ==
    ASSUME NEW q \in Seq(Event), q # <<>>, NEW key
    PROVE  /\ 1 \in About(q, key) <=> Concerns(q[1], key)
           /\ \A n \in Int : n \in About(Tail(q), key) <=> n >= 1 /\ n + 1 \in About(q, key)
<1>1. /\ Len(q) \in Nat /\ Len(q) >= 1
      /\ Tail(q) \in Seq(Event) /\ Len(Tail(q)) = Len(q) - 1
      /\ \A n \in 1 .. Len(q) - 1 : Tail(q)[n] = q[n + 1]
  OBVIOUS
<1>2. 1 \in About(q, key) <=> Concerns(q[1], key)
  BY <1>1 DEF About, Concerns
<1>3. ASSUME NEW n \in Int
      PROVE  n \in About(Tail(q), key) <=> n >= 1 /\ n + 1 \in About(q, key)
  <2>1. n \in 1 .. Len(Tail(q)) <=> n >= 1 /\ n + 1 \in 1 .. Len(q)
    BY <1>1
  <2>2. n \in 1 .. Len(Tail(q)) => Tail(q)[n] = q[n + 1]
    BY <1>1
  <2> QED
    BY <2>1, <2>2 DEF About
<1> QED
  BY <1>2, <1>3

\* Taking the head, and what it says with it, changes nothing for any key.
LEMMA DownAfterTail ==
    ASSUME NEW q \in Seq(Event), q # <<>>, NEW key, NEW down, NEW rest,
           key \in rest <=> IF Concerns(q[1], key) THEN q[1].kind = "down" ELSE key \in down
    PROVE  DownAfter(Tail(q), rest, key) <=> DownAfter(q, down, key)
<1> DEFINE all == About(q, key)
           later == About(Tail(q), key)
<1>1. /\ 1 \in all <=> Concerns(q[1], key)
      /\ \A n \in Int : n \in later <=> n >= 1 /\ n + 1 \in all
  BY AboutTail
<1>2. /\ \A n \in all : n \in Int /\ n >= 1
      /\ \A n \in later : n \in Int /\ Tail(q)[n] = q[n + 1]
  <2>1. \A n \in 1 .. Len(q) - 1 : Tail(q)[n] = q[n + 1]
    OBVIOUS
  <2>2. Len(Tail(q)) = Len(q) - 1 /\ Len(q) \in Nat
    OBVIOUS
  <2> QED
    BY <2>1, <2>2 DEF About
<1>3. /\ DownAfter(q, down, key) <=>
           IF all = {} THEN key \in down
           ELSE \E n \in all : (\A m \in all : m <= n) /\ q[n].kind = "down"
      /\ DownAfter(Tail(q), rest, key) <=>
           IF later = {} THEN key \in rest
           ELSE \E n \in later : (\A m \in later : m <= n) /\ Tail(q)[n].kind = "down"
  BY DEF DownAfter
<1> HIDE DEF all, later
<1>4. CASE all = {}
  <2>1. later = {}
    BY <1>1, <1>2, <1>4
  <2> QED
    BY <1>1, <1>3, <1>4, <2>1
<1>5. CASE all # {} /\ later = {}
  <2>1. all = {1}
    <3>1. ASSUME NEW n \in all PROVE n = 1
      <4>1. n \in Int /\ n >= 1 /\ n - 1 \in Int
        BY <1>2
      <4>2. ~(n - 1 >= 1)
        <5>1. n = (n - 1) + 1
          BY <4>1
        <5> QED
          BY <1>1, <1>5, <4>1, <5>1
      <4> QED
        BY <4>1, <4>2
    <3> QED
      BY <1>5, <3>1
  <2> QED
    BY <1>1, <1>3, <1>5, <2>1
<1>6. CASE later # {}
  <2>1. ASSUME NEW n \in later, \A m \in later : m <= n, Tail(q)[n].kind = "down"
        PROVE  n + 1 \in all /\ (\A m \in all : m <= n + 1) /\ q[n + 1].kind = "down"
    <3>1. n \in Int /\ n >= 1 /\ n + 1 \in all /\ q[n + 1].kind = "down"
      BY <1>1, <1>2, <2>1
    <3>2. ASSUME NEW m \in all PROVE m <= n + 1
      <4>1. m \in Int /\ m >= 1 /\ m - 1 \in Int /\ m = (m - 1) + 1
        BY <1>2
      <4>2. CASE m - 1 >= 1
        <5>1. m - 1 \in later
          BY <1>1, <4>1, <4>2
        <5> QED
          BY <2>1, <3>1, <4>1, <5>1
      <4>3. CASE m = 1
        BY <3>1, <4>3
      <4> QED
        BY <4>1, <4>2, <4>3
    <3> QED
      BY <3>1, <3>2
  <2>2. ASSUME NEW n \in all, \A m \in all : m <= n, q[n].kind = "down"
        PROVE  n - 1 \in later /\ (\A m \in later : m <= n - 1) /\ Tail(q)[n - 1].kind = "down"
    <3>1. PICK k \in later : TRUE
      BY <1>6
    <3>2. k \in Int /\ k >= 1 /\ k + 1 \in all
      BY <1>1, <1>2
    <3>3. n \in Int /\ n - 1 \in Int /\ n = (n - 1) + 1 /\ n - 1 >= 1
      BY <1>2, <2>2, <3>2
    <3>4. n - 1 \in later
      BY <1>1, <3>3
    <3>5. ASSUME NEW m \in later PROVE m <= n - 1
      <4>1. m \in Int /\ m + 1 \in all
        BY <1>1, <1>2
      <4> QED
        BY <2>2, <3>3, <4>1
    <3> QED
      BY <1>2, <2>2, <3>3, <3>4, <3>5
  <2>3. all # {}
    BY <1>1, <1>2, <1>6
  <2> QED
    BY <1>3, <1>6, <2>1, <2>2, <2>3
<1> QED
  BY <1>4, <1>5, <1>6

\* An event that comes last has the last word on its key, and none on others.
LEMMA DownAfterAppend ==
    ASSUME NEW q \in Seq(Event), NEW event \in Event, NEW key, NEW down
    PROVE  DownAfter(Append(q, event), down, key) <=>
             IF Concerns(event, key) THEN event.kind = "down" ELSE DownAfter(q, down, key)
<1> DEFINE last == Len(q) + 1
           more == Append(q, event)
<1>1. /\ Len(q) \in Nat /\ Len(more) = last /\ more[last] = event
      /\ \A n \in 1 .. Len(q) : more[n] = q[n]
  OBVIOUS
<1>2. CASE Concerns(event, key)
  <2>1. last \in About(more, key) /\ \A m \in About(more, key) : m <= last
    BY <1>1, <1>2 DEF About, Concerns
  <2>2. \A n \in About(more, key) : (\A m \in About(more, key) : m <= n) => n = last
    <3>1. \A n \in About(more, key) : n \in Int /\ n <= last
      BY <1>1 DEF About
    <3> QED
      BY <1>1, <2>1, <3>1
  <2> QED
    BY <1>1, <1>2, <2>1, <2>2 DEF DownAfter
<1>3. CASE ~Concerns(event, key)
  <2>1. About(more, key) = About(q, key)
    BY <1>1, <1>3 DEF About, Concerns
  <2>2. \A n \in About(q, key) : more[n] = q[n]
    BY <1>1 DEF About
  <2> QED
    BY <1>3, <2>1, <2>2 DEF DownAfter
<1> QED
  BY <1>2, <1>3

\* A key pressed or released, and a window closed, is one more event: the user's
\* fingers and the last word on the key change together.
LEMMA ArrivalAgrees ==
    ASSUME TypeOK, NoStuckKey, UNCHANGED held,
           NEW event \in Event, Arrives(event),
           \A key \in joypad!Button :
              key \in user' <=> IF Concerns(event, key) THEN event.kind = "down" ELSE key \in user,
           user' \subseteq Keys
    PROVE  NoStuckKey'
<1>1. queue \in Seq(Event) /\ queue' = Append(queue, event)
  BY DEF TypeOK, Arrives
<1>2. ASSUME NEW key \in joypad!Button
      PROVE  DownAfter(queue', held', key) <=> key \in user'
  <2>1. DownAfter(queue, held, key) <=> key \in user
    BY DEF NoStuckKey, HeldAfterQueue
  <2>2. DownAfter(Append(queue, event), held, key) <=>
          IF Concerns(event, key) THEN event.kind = "down" ELSE DownAfter(queue, held, key)
    BY <1>1, DownAfterAppend
  <2> QED
    BY <1>1, <2>1, <2>2
<1> QED
  BY <1>2, KeysAssumption DEF NoStuckKey, HeldAfterQueue

\* The poll takes the first event and does to the joypad what it says.
LEMMA TakingAgrees ==
    ASSUME TypeOK, NoStuckKey, UNCHANGED user, TakeEvent
    PROVE  NoStuckKey'
<1>1. /\ queue \in Seq(Event) /\ queue # <<>> /\ queue' = Tail(queue)
      /\ queue[1] \in Event /\ Head(queue) = queue[1]
  BY DEF TypeOK, TakeEvent
<1>2. ASSUME NEW key \in joypad!Button
      PROVE  key \in held' <=> IF Concerns(queue[1], key) THEN queue[1].kind = "down"
                               ELSE key \in held
  <2>1. CASE queue[1].kind = "close"
    <3>1. UNCHANGED held
      BY <1>1, <2>1 DEF TakeEvent, joypadVars
    <3> QED
      BY <2>1, <3>1 DEF Concerns
  <2>2. CASE queue[1].kind = "down"
    <3>1. held' = held \cup {queue[1].key}
      BY <1>1, <2>2 DEF TakeEvent, joypad!KeyDown, joypad!ButtonDown, joypad!SetHeld
    <3> QED
      BY <2>2, <3>1 DEF Concerns
  <2>3. CASE queue[1].kind = "up"
    <3>1. held' = held \ {queue[1].key}
      BY <1>1, <2>3 DEF TakeEvent, joypad!KeyUp, joypad!ButtonUp, joypad!SetHeld
    <3> QED
      BY <2>3, <3>1 DEF Concerns
  <2> QED
    BY <1>1, <2>1, <2>2, <2>3 DEF Event
<1>3. ASSUME NEW key \in joypad!Button
      PROVE  DownAfter(queue', held', key) <=> DownAfter(queue, held, key)
  BY <1>1, <1>2, DownAfterTail
<1> QED
  BY <1>3 DEF NoStuckKey, HeldAfterQueue

\* gbc.cc:116-141, joypad.cc:6-72: for every set of keys, every length of the
\* queue and every order of presses, releases, polls and closed windows, no key
\* is stuck or lost.
THEOREM NoKeyStuck == Spec => []NoStuckKey
<1>1. Init => NoStuckKey
  <2> SUFFICES ASSUME Init PROVE NoStuckKey
    OBVIOUS
  <2>1. queue = <<>> /\ user = {} /\ held = {}
    BY DEF Init, joypad!Init
  <2>2. \A key : About(queue, key) = {}
    BY <2>1 DEF About
  <2> QED
    BY <2>1, <2>2 DEF NoStuckKey, HeldAfterQueue, DownAfter
<1>2. TypeOK /\ NoStuckKey /\ [Next]_vars => NoStuckKey'
  <2> SUFFICES ASSUME TypeOK, NoStuckKey, [Next]_vars
               PROVE  NoStuckKey'
    OBVIOUS
  <2>1. CASE PollEvent
    BY <2>1, TakingAgrees DEF PollEvent
  <2>2. ASSUME NEW pressed \in Keys, Press(pressed)
        PROVE  NoStuckKey'
    <3> DEFINE event == [kind |-> "down", key |-> pressed]
    <3>1. event \in Event
      BY DEF Event
    <3>2. /\ Arrives(event) /\ UNCHANGED held
          /\ user' = user \cup {pressed} /\ user' \subseteq Keys
      BY <2>2 DEF Press, joypadVars, TypeOK
    <3>3. \A key : Concerns(event, key) <=> key = pressed
      BY DEF Concerns
    <3>4. event.kind = "down"
      OBVIOUS
    <3> HIDE DEF event
    <3> QED
      BY <3>1, <3>2, <3>3, <3>4, ArrivalAgrees
  <2>3. ASSUME NEW released \in Keys, Release(released)
        PROVE  NoStuckKey'
    <3> DEFINE event == [kind |-> "up", key |-> released]
    <3>1. event \in Event
      BY DEF Event
    <3>2. /\ Arrives(event) /\ UNCHANGED held
          /\ user' = user \ {released} /\ user' \subseteq Keys
      BY <2>3 DEF Release, joypadVars, TypeOK
    <3>3. \A key : Concerns(event, key) <=> key = released
      BY DEF Concerns
    <3>4. event.kind = "up"
      OBVIOUS
    <3> HIDE DEF event
    <3> QED
      BY <3>1, <3>2, <3>3, <3>4, ArrivalAgrees
  <2>4. CASE CloseWindow
    <3> DEFINE event == [kind |-> "close"]
    <3>1. event \in Event
      BY DEF Event
    <3>2. Arrives(event) /\ UNCHANGED <<held, user>> /\ user' \subseteq Keys
      BY <2>4 DEF CloseWindow, joypadVars, TypeOK
    <3>3. \A key : ~Concerns(event, key)
      BY DEF Concerns
    <3> HIDE DEF event
    <3> QED
      BY <3>1, <3>2, <3>3, ArrivalAgrees
  <2>5. CASE UNCHANGED <<queue, held, user>>
    BY <2>5 DEF NoStuckKey, HeldAfterQueue, DownAfter, About
  <2> QED
    BY <2>1, <2>2, <2>3, <2>4, <2>5
       DEF Next, Step, CpuTick, Acknowledge, WriteRegister, PpuTick, PollEnds, TimerTick, Return,
           Sigint, vars, outside, joypadVars, joypad!WriteJOYP
<1> QED
  BY <1>1, <1>2, TypeCorrect, PTL DEF Spec
-------------------------------------------------------------------------------
(* The ways out: what SigintReturns and CloseReturns need besides fairness. *)

\* The steps of the loop that are left at most once should_exit_ is set.
StepsToReturn ==
    CASE at = "returned" -> 0
      [] at = "cpu"   -> 1
      [] at = "timer" -> 2
      [] at = "poll"  -> 3 + Len(queue)
      [] at = "ppu"   -> 4 + MaxEvents

\* Every step of the loop is one of them, and nothing else adds to them or
\* takes the request back: no further instruction is begun.
ExitIsSoon ==
    [][should_exit_ =>
         /\ should_exit_'
         /\ StepsToReturn' <= StepsToReturn
         /\ Step => StepsToReturn' < StepsToReturn]_vars

\* The steps left are a number within the bound of the queue.
LEMMA StepsLeft ==
    ASSUME TypeOK
    PROVE  /\ StepsToReturn \in 0 .. 4 + MaxEvents
           /\ Len(queue) \in Nat /\ MaxEvents \in Nat
BY EventsAssumption DEF TypeOK, StepsToReturn

\* The same as one formula, for the state after a step.
LEMMA StepsCounted == TypeOK => StepsToReturn \in Nat
BY StepsLeft

\* Taking an event leaves one event fewer, and does not take back the request.
LEMMA TakenEvent ==
    ASSUME TypeOK, TakeEvent
    PROVE  /\ Len(queue') = Len(queue) - 1
           /\ should_exit_ => should_exit_'
           /\ Head(queue).kind = "close" => should_exit_'
<1>1. queue \in Seq(Event) /\ queue # <<>> /\ queue' = Tail(queue)
  BY DEF TypeOK, TakeEvent
<1>2. Head(queue).kind \in {"down", "up", "close"}
  <2>1. Head(queue) \in Event
    BY <1>1
  <2> QED
    BY <2>1 DEF Event
<1>3. Len(queue') = Len(queue) - 1
  BY <1>1
<1> QED
  BY <1>2, <1>3 DEF TakeEvent

\* Every step of the loop brings the return nearer.
LEMMA StepNearer ==
    ASSUME TypeOK, TypeOK', should_exit_, Step
    PROVE  should_exit_' /\ StepsToReturn' < StepsToReturn
<1>0. Len(queue) \in Nat /\ Len(queue') \in Nat /\ MaxEvents \in Nat /\ Len(queue') <= MaxEvents
  BY EventsAssumption DEF TypeOK
<1>1. CASE PpuTick
  <2>1. at = "ppu" /\ at' \in {"poll", "timer"} /\ UNCHANGED should_exit_
    BY <1>1 DEF PpuTick, AfterPpu
  <2> QED
    BY <1>0, <2>1 DEF StepsToReturn
<1>2. CASE PollEvent
  <2>1. at = "poll" /\ at' = "poll" /\ Len(queue') = Len(queue) - 1 /\ should_exit_'
    BY <1>2, TakenEvent DEF PollEvent
  <2> QED
    BY <1>0, <2>1 DEF StepsToReturn
<1>3. CASE PollEnds
  BY <1>0, <1>3 DEF PollEnds, StepsToReturn
<1>4. CASE TimerTick
  BY <1>4 DEF TimerTick, StepsToReturn
<1>5. CASE Return
  BY <1>5 DEF Return, StepsToReturn
<1> QED
  BY <1>1, <1>2, <1>3, <1>4, <1>5 DEF Step, CpuTick

\* main.cc:16-17, gbc.cc:78-91, 133-138: for every number of waiting events,
\* SIGINT sets the flag for good, and from a set flag run() is a bounded number
\* of its own steps from its return, whatever the user does meanwhile.
THEOREM ExitIsBounded ==
    Spec => /\ [](interrupted \/ at = "returned" => should_exit_)
            /\ [](StepsToReturn \in 0 .. 4 + MaxEvents)
            /\ ExitIsSoon
<1> DEFINE Asked == interrupted \/ at = "returned" => should_exit_
<1>1. Init => Asked
  BY DEF Init
<1>2. TypeOK /\ TypeOK' /\ [Next]_vars =>
        [should_exit_ => /\ should_exit_'
                         /\ StepsToReturn' <= StepsToReturn
                         /\ Step => StepsToReturn' < StepsToReturn]_vars
  <2> SUFFICES ASSUME TypeOK, TypeOK', [Next]_vars, should_exit_
               PROVE  /\ should_exit_'
                      /\ StepsToReturn' <= StepsToReturn
                      /\ Step => StepsToReturn' < StepsToReturn
    OBVIOUS
  <2>0. StepsToReturn \in Nat
    BY StepsLeft
  <2>1. CASE Step
    <3>1. should_exit_' /\ StepsToReturn' < StepsToReturn
      BY <2>1, StepNearer
    <3>2. (StepsToReturn \in Nat)'
      BY StepsCounted, PTL
    <3> QED
      BY <2>0, <3>1, <3>2
  <2>2. CASE ~Step
    <3>1. UNCHANGED at /\ (at = "poll" => UNCHANGED queue) /\ should_exit_'
      BY <2>2 DEF Next, Press, Release, CloseWindow, Arrives, Sigint, vars, outside
    <3>2. StepsToReturn' = StepsToReturn
      BY <3>1 DEF StepsToReturn
    <3> QED
      BY <2>0, <2>2, <3>1, <3>2
  <2> QED
    BY <2>1, <2>2
<1>3. TypeOK /\ TypeOK' /\ Asked /\ [Next]_vars => Asked'
  <2> SUFFICES ASSUME TypeOK, TypeOK', Asked, [Next]_vars, (interrupted \/ at = "returned")'
               PROVE  should_exit_'
    OBVIOUS
  <2>1. CASE Sigint
    BY <2>1 DEF Sigint
  <2>2. CASE Return
    BY <2>2 DEF Return
  <2>3. CASE ~Sigint /\ ~Return
    <3>1. interrupted \/ at = "returned"
      <4>1. PpuTick => at' # "returned" /\ UNCHANGED interrupted
        BY DEF PpuTick, AfterPpu, outside
      <4>2. CpuTick(cycles') => at' # "returned" /\ UNCHANGED interrupted
        BY DEF CpuTick, outside
      <4>3. TimerTick \/ PollEnds => at' # "returned" /\ UNCHANGED interrupted
        BY DEF TimerTick, PollEnds, outside
      <4>4. PollEvent \/ CloseWindow => UNCHANGED <<at, interrupted>>
        BY DEF PollEvent, CloseWindow
      <4>5. \A key \in Keys : Press(key) \/ Release(key) => UNCHANGED <<at, interrupted>>
        BY DEF Press, Release
      <4>6. UNCHANGED vars => UNCHANGED <<at, interrupted>>
        BY DEF vars, outside
      <4>7. \A c \in MCycles : CpuTick(c) => c = cycles'
        BY DEF CpuTick
      <4> QED
        BY <2>3, <4>1, <4>2, <4>3, <4>4, <4>5, <4>6, <4>7 DEF Next, Step
    <3>2. should_exit_
      BY <3>1
    <3> QED
      BY <1>2, <3>2 DEF vars
  <2> QED
    BY <2>1, <2>2, <2>3
<1>4. TypeOK => StepsToReturn \in 0 .. 4 + MaxEvents
  BY StepsLeft
<1> QED
  BY <1>1, <1>2, <1>3, <1>4, TypeCorrect, PTL DEF Spec, ExitIsSoon

\* A close waits in the queue.
Closing == \E n \in 1 .. Len(queue) : queue[n].kind = "close"

\* gbc.cc:119-138: a request to close the window, wherever it stands among the
\* keys, is never dropped: it waits until a poll hands it to exit().
THEOREM CloseIsKept == Spec => [][Closing => Closing' \/ should_exit_']_vars
<1>1. TypeOK /\ [Next]_vars => [Closing => Closing' \/ should_exit_']_vars
  <2> SUFFICES ASSUME TypeOK, [Next]_vars, Closing
               PROVE  Closing' \/ should_exit_'
    OBVIOUS
  <2>0. PICK n \in 1 .. Len(queue) : queue[n].kind = "close"
    BY DEF Closing
  <2>1. queue \in Seq(Event) /\ Len(queue) \in Nat
    BY DEF TypeOK
  <2>2. CASE PollEvent
    <3>1. TakeEvent /\ queue # <<>> /\ queue' = Tail(queue)
      BY <2>2 DEF PollEvent, TakeEvent
    <3>2. CASE n = 1
      <4>1. Head(queue).kind = "close"
        BY <2>0, <3>2
      <4> QED
        BY <3>1, <4>1, TakenEvent
    <3>3. CASE n # 1
      <4>1. n - 1 \in 1 .. Len(queue') /\ queue'[n - 1] = queue[n]
        BY <2>1, <3>1, <3>3
      <4> QED
        BY <2>0, <4>1 DEF Closing
    <3> QED
      BY <3>2, <3>3
  <2>3. ASSUME NEW event, Arrives(event) PROVE Closing'
    <3>1. n \in 1 .. Len(queue') /\ queue'[n] = queue[n]
      BY <2>1, <2>3 DEF Arrives
    <3> QED
      BY <2>0, <3>1 DEF Closing
  <2>4. CASE UNCHANGED queue
    BY <2>4 DEF Closing
  <2> QED
    BY <2>2, <2>3, <2>4
       DEF Next, Step, CpuTick, PpuTick, PollEnds, TimerTick, Return,
           Press, Release, CloseWindow, Sigint, vars, outside
<1> QED
  BY <1>1, TypeCorrect, PTL DEF Spec
===============================================================================
