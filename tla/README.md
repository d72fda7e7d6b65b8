# A verification project for bugme

bugme is a Game Boy emulator in C++. This directory holds TLA+ modules that
model its parts, TLC configurations that check them on small instances, and
theorems about them, for every value of the constants, that TLAPS checks. The
source is the reference: every action names, in `PROJECT.json` under `map`, the
lines it translates. Paths below are relative to `src/src/`.

## The system

One thread runs `Gbc::run()` (`gbc.cc:78-83`):

    while (!should_exit_) {
      cycles = cpu.tick();      // one instruction, or one idle cycle
      ppu.tick(cycles * 4);     // may call back into process_events_()
      timer.tick(cycles * 4);
    }

| Component | State | Operations | Talks to |
|---|---|---|---|
| Processor, control (`cpu/cpu.cc`, `cpu/opcode_internal.cc`, `opcode_cycles.hh`) | pc, sp, the interrupt registers, `halted_`, `halt_bug_no_step_mode_`, `did_branch_` | `tick`, `check_interrupts`, `next_byte`, `push`, `pop`, jumps, calls, returns, `halt`, `ei`, `di` | writes every other part's registers through `write_()`; three callbacks set bits of its interrupt flags |
| Processor, arithmetic (`cpu/opcode_internal.cc`, `register.hh`) | A, F, the other registers | some forty operations, 512 opcodes | - |
| Memory map (`cpu/cpu.cc:44-297`, `mmap.hh`) | the boot ROM overlay, memory, vram, OAM, the registers | `read_`, `write_`, `dma_transfer_` | everything |
| PPU, clockwork (`ppu.hh`, `ppu/ppu.cc:53-171`) | mode, clocks in the mode, line, registers | `tick`, `set_mode_`, `write_scanline_` | VBLANK and STAT requests; the draw callback |
| PPU, painting (`ppu/ppu.cc:173-341`) | the frame; reads vram, OAM, scroll, window and palettes | `write_bg_line_`, `write_window_line_`, `draw_sprites_` | throws what nothing catches |
| Timer (`timer.hh`, `timer.cc`) | four registers, two remainders | `tick`, four register writes | the TIMER request |
| Joypad (`joypad.hh`, `joypad.cc`) | eight buttons, the selection, four lines | `button_down`, `button_up`, `joyp.set` | the JOYPAD request |
| Main loop (`gbc.cc`, `main.cc`) | `should_exit_`, SDL's event queue | `run`, `process_events_`, `exit` | all; the SIGINT handler |
| ROM, cartridge, options, display, logging | arrays, settings | I/O | - |

What makes it hard:

- *Time in portions.* Each part is told how many clocks have passed only after
  a whole instruction; what is left over at the end of a period or a mode has
  to be carried into the next.
- *The program as an adversary.* Any instruction may write any register between
  any two ticks: the timer's period while it counts, LINE while the PPU looks for
  an exact value of it, JOYP with the selection it has, the interrupt registers
  through a stack pointer that runs over them.
- *Events in any order.* Interrupts are requested by four parts and served one
  by one; keys, a closed window and SIGINT arrive between any two steps, and the
  first two are seen only when a frame is complete.
- *Addresses.* One byte has several names (the echo of work RAM, the boot ROM
  over the cartridge); tile and pixel indices are computed in unsigned
  arithmetic that wraps, and an index out of range ends the program.
- *Arithmetic* on bytes that is checked by eye only: half carries, DAA, signed
  offsets, values that alias.

What makes each part correct is the list of properties below. The hazards, each
at its line, with the properties that would catch it, are in `PROJECT.json`.

## The modules

| Module | Models | State and actions |
|---|---|---|
| `Interrupts` | `interrupts.hh` | the sources, bits 0 to 4 of a register of eight |
| `Timer` | `timer.*`, `cpu.cc:211-223` | the four registers, `div_cycle_counter_`, `tima_counter_` and the request; `Tick` is the whole of `Timer::tick`, the writes are the cases of `write_()` |
| `IntervalTimer` | - | the abstract timer: a clock and a countdown |
| `Ppu` | `ppu/ppu.cc:53-171`, `cpu.cc:229-246` | `mode_`, `cycles_elapsed_`, the line, the registers, one entry per row of the frame, the parity of the frames drawn; `Tick` is the whole of `Ppu::tick` with the drawing and the exception drawing may throw |
| `Screen` | `ppu/ppu.cc:173-341`, `ppu.hh` | `Ppu` with scroll, window, palettes, vram, OAM and the shade of every pixel; `ScreenTick` is a tick of `Ppu` that paints the line or the sprites and throws exactly when an index is out of range |
| `LcdClock` | - | the abstract display: a beam, a request at the end of the picture, a frame shown at the end of the frame |
| `MemoryMap` | `cpu.cc:44-297`, `mmap.hh`, `memory.*`, `cartridge.cc:83` | memory, vram, OAM and registers as cells; one action per kind of store (`StoreInMemory`, `StoreInVram`, `StoreInOam`, `StoreInRegister`, `StartTransfer`), `Read` for loads, `DeviceTicks` for the other parts |
| `ProgramView`, `PicturedMemory` | - | a program's picture of memory, which knows of each store only its address and its byte (and in JOYP the buttons); the second runs it beside `MemoryMap`, as a history variable |
| `Joypad`, `TouchedJoypad` | `joypad.*`, `cpu.cc:206-209` | the buttons, the selection, the lines read as 0, the keys held; the second remembers which buttons have been touched |
| `Cpu` | `cpu.cc:299-408`, `opcode_internal.cc:403-418, 653-736`, `opcode_cycles.hh` | a tick is three steps: `CheckInterrupts`, an instruction, and the ticks of the other parts (`Devices`), which may request interrupts |
| `CallStack` | - | the abstract stack of words |
| `BalancedCpu` | the same, under a program that keeps its stack in order | `Cpu`'s actions with the discipline of the program as a conjunct |
| `TimedCpu` | `cpu.cc:318-328` | `Cpu` with a history variable for the branch the last instruction took |
| `Alu` | `opcode_internal.cc:73-399, 420-651, 726-776`, the opcodes of `opcode.cc` | A and F; one action per family of instructions, one operator per operation |
| `DecimalAlu` | - | `Alu` beside a calculator of two decimal digits |
| `Gbc` | `gbc.cc:43-141`, `main.cc` | composes instances of `Timer`, `Ppu` and `Joypad`, which share the interrupt flags, with the loop, the event queue, the user and the signal |
| `MC...` | - | values for constants that a cfg cannot write |
| `...Proofs` | - | the theorems |

Names are the code's. A definition named `Bug_...` is a plausible slip in the
definition after it; it is used nowhere, and exists so that a property can be
seen to fail when the code is changed that way (`mutants` in `PROJECT.json`).

### Abstractions

- A byte has 256 values in `Alu`. Elsewhere the size of a byte, the periods, the
  clocks of a mode and the number of lines are constants.
- `Ppu`: a row of the frame is white or painted. Drawing may throw when LINE is
  below the picture, and, where `RenderFaults` says so, for any other reason.
  `Screen` puts the pixels in and the exact condition in place of the choice.
- `Screen`: a palette is a function from colour numbers to shades. A sprite's
  flips and LCDC's `obj_size` are left out because they have no effect in the
  code: the first change only the order in which the pixels of a sprite are
  copied, each to its own place (`ppu.cc:300-316`), the second is never read.
- `MemoryMap`: a set of addresses is watched, not all 65536; the loads of the
  others are not spoken of. The registers that timer, PPU, joypad and callbacks
  change are changed at any moment (`DeviceTicks`); their own modules say how.
  Cartridge files shorter than 32 KiB, whose loads throw, are excluded
  (`RomAssumption`).
- `Cpu`: which opcode does what is left to the program, so values read from code
  or from memory outside `Ram` are any value. `Ram` is the memory that keeps what
  is stored; stores elsewhere change nothing that is modelled but for IF and IE.
- `Alu`: the registers other than A take any value of `Operands` and only the
  flags of what is computed in them are kept.
- `Joypad`: seven of the eight buttons are not initialized by the constructor
  (`joypad.hh:46` initializes only the last name of the list). They are any
  subset of `Uninitialized` at the start; joypad_rewrite and gbc take none.
- `Gbc`: the processor is what it does to the other parts: time, interrupts
  taken, JOYP and TAC written, DIV cleared. The user cannot outrun one poll: SDL's
  poll ends with the events that were there when it began.

## The runs

Bounds are named in the modules: `MaxBacklog` (clocks the timer may hold back),
`MaxEvents` (events that wait at once), `MaxWrites` (stores during a frame of
`Screen`), `MaxStored` (cells of `MemoryMap` that differ from the start),
`Values` and `DeviceValues` (bytes stored by the program and the devices),
`Operands`, `Ram`, `TickCycles`.

| Run | Question | Instance |
|---|---|---|
| timer | Does the timer count every clock once (`RefinesIntervalTimer`), in time (`Punctual`), and work off what a faster period leaves (`BacklogNeverGrows`)? Does it keep interrupting (`KeepsInterrupting`)? | bytes of 3 values, prescaler 3, periods 5, 2, 3 and 4, ticks 0 to 3: a tick may be longer than a period, equal and shorter, and a backlog of several periods builds up |
| ppu | Does the beam lose or repeat a clock (`SteadyBeam`), and do the request and the frame come at its marks (`RefinesLcdClock`)? Do mode and line fit (`LineFitsMode`)? Is anything of an old frame left (`NoStaleRow`)? | modes of 2, 3 and 2 clocks, 2 + 2 lines, bytes of 6 values, all switches of the display at any moment |
| screen | Does a scanline show its row of background or window, and change no other (`RowShowsTiles`)? Are sprites in their boxes, the last on top (`SpritesInTheirBoxes`)? When does drawing throw (`ThrowsExactly`)? The first and the third are asked while the first tile set is selected; tile_set is about the second. Do frames go on after any write of LINE, unless drawing threw (`KeepsDrawing`)? | 5 by 2 pixels, tiles of 2 by 2, maps of 8 by 8 in which half a byte numbers a set's tiles; five settings of LCDC, windows left of, on and right of the border, pairs of sprites inside, overlapping, hidden and across each border; one store (`MaxWrites`) of any kind at any moment, LINE with 0, 2 and 7 |
| tile_set | *Violated*: are the tiles of a line read from the set that LCDC selects (`TilesFromTheirSet`)? | as screen |
| memory | Does every load yield what a program's picture of memory says (`LoadsYieldThePicture`), that is the last byte stored at either name of a cell, and what boot ROM, stores to ROM, registers and transfers from everywhere make of it? | both ends of every range and the bytes a transfer from ROM, work RAM, OAM's and the registers' page reads; bytes 0, 192, 254 and 255 (the page numbers of a ROM, of work RAM, of OAM and of the registers), two cells stored at a time (`MaxStored`): a store and a switch, a transfer of the result |
| joypad | Do the lines show one group or nothing (`OneGroupOrNothing`), no key that is not held (`NoPhantomPress`), and the truth after a change of selection (`FreshAfterReselect`)? | all eight buttons, three of them uninitialized |
| joypad_rewrite | *Violated*: does a key that is held read as pressed (`HeldKeyReads`)? | |
| cpu | Does a request vanish only into its handler, in order, with the address saved (`RequestsHonoured`)? Is the halt bug over after one fetch (`HaltBugIsShortLived`)? Does a halted processor wake (`HaltedWakes`)? | words of 4 addresses: two of memory, IF and IE, so that every sp, every wrap and every push over the interrupt registers happens; two sources and one bit of no source |
| cpu_branches | *Violated*: does a branch that has been taken return the time of its table (`BranchesTakeLonger`)? | as cpu |
| cpu_stack | Are calls, interrupts, PUSH and POP a stack of words (`RefinesCallStack`, `StackInStep`)? | a stack of two words in a memory of 9 addresses, one source |
| alu | Does DAA keep chains of decimal sums right (`DaaIsDecimal`)? Do SUB, rotations and sixteen-bit sums agree with ADD (`SubUndoesAdd`, `RotatesUndone`, `WordsAsBytes`)? | all values of A and F that programs on ten operands reach, with every carry |
| gbc | Do timer and display share a clock (`InLockstep`), and does each part keep its own time between the others, with IF in common (`PartsKeepTime`)? Is a key that is held on seen held for good, and one released seen released for good (`KeysArrive`), with every press and release applied in order (`NoStuckKey`)? Do SIGINT and a closed window end the loop (`SigintReturns`, `CloseReturns`)? | a frame of two lines of 6 clocks, one key, two events that wait, instructions of 0 or 1 cycles of 2 clocks; a timer of period 2 under a divider of 4, so that clocks are left over in both |

The small sizes keep what the properties tell apart: every test in the code is
of an equality, an order or a carry, and each instance has values on both sides
of every such test, and a wrap. For TypeOK and for all the properties with a
theorem the question of the size does not arise.

One store is enough in screen because the pixels are functions of what is
stored: what tells them apart is where in the frame the store falls, and
`MCInit` starts from every setting of the display. Two cells are enough in memory
because bytes are moved and never combined, except in JOYP.

Deadlock is checked in every run but two: in screen an uncaught exception
ends the program, and in gbc `run()` returns.

### Fairness

- `Timer`, `Ppu`, `Screen`: weak fairness of a tick of at least one clock; `Cpu`: weak
  fairness of a step. `Gbc::run()` never blocks and gives every part its tick
  after each instruction.
- `Gbc`: weak fairness of the loop, and strong fairness of an instruction that
  takes time. The eleven opcodes that do not exist take 0 cycles
  (`opcode_cycles.hh:50-67`); a program that executes nothing else for ever gets
  no frame and no poll, and that assumption excludes it. The user and the signal
  have no fairness.

### What the violated runs show

1. `cpu/cpu.cc:323` lacks an `else`: the cycles of a taken branch, found in
   `BRANCHED_CYCLES` in lines 319 to 322, are overwritten by `CYCLES`.
2. `cpu/cpu.cc:208` sets the four lines of JOYP to "released" and
   `JoypControl::set` recomputes them only when the selection changes: writing
   the same selection twice hides a held key (`joypad.hh:16-19`: "0 = pressed").
3. `ppu/ppu.cc:206` and `:255` subtract 128 from a tile number that is signed
   already. `ppu.hh:21` says that the second tile set is 8800-97FF; the code
   reads tiles 0 to 127 from 8000-87FF and addresses below vram for the others,
   where `at()` throws. Not one tile comes from 8800-97FF (`SecondSetMisread`).

### Divergences

Where the code does something else than its comments, or than the hardware it
imitates, the modules follow the code. Met while modelling, without a run of
their own:

- `cpu/cpu.cc:233` stores a whole byte into STAT, mode bits included, which
  `ppu.hh:36-37` declares read-only; they stay wrong until the next change of
  mode (`Ppu.WriteStatus`).
- `cpu/opcode_internal.cc:210` and `:280` read `other` after `reg` was set: for
  ADD A,A and ADC A,A the half carry is that of the result (`Alu.Double`). With a
  low nibble of 5 to 10 it is wrong, and with no other (`DoublesOutsideNibble`): a
  DAA behind 08 + 08 gives 10, not 16. `DaaIsDecimal` is about chains without
  these two opcodes.
- `ppu.cc:238` says "windows don't wraparound". A column beyond the map, or left
  of it, is read from the row of the map below or above.
- A palette entry's two bits come out in reverse order (`Screen.GetColor`), which
  swaps light and dark gray.
- A sprite across the left or the right border goes on in the next row at the
  other side; across the top, or the bottom, it throws.
- Flips and `obj_size` have no effect; the enables for OAM and VBLANK in STAT are
  stored and never consulted.

## The proofs

All theorems are of the specification without fairness, for every value of the
constants that the named assumptions of the modules allow: that sizes are
positive; that no tick is longer than the shortest mode or the divider's period
(the longest instruction takes 24 clocks, the shortest mode 80, the prescaler
256); that the memory map puts IF and IE outside `Ram`; and that frame, tiles
and byte are in the proportions of the code (`TilesAssumption`,
`FrameAssumption`: the tile size divides the byte, the frame is narrower than a
byte and wider than half of one, two tiles fit below it, and vram with one more
tile set fits into the address space). `Gbc` assumes of its parts what their
modules assume, and that `CommonClocks` divides the divider's period and the
beam's round: 16 does, of 256 and 70224.

Three groups of theorems are about some programs only, and say so in their
hypothesis or specification: those on `Ppu` that need the line to fit the mode
assume that the program does not write LINE and that drawing does not throw; the
tame programs of `ScreenProofs` (`TameProgram`) do not write LINE, show the
background from the first tile set and move no sprite across a border, and that
drawing does not throw is proved of them; `CarefulSpec` of `JoypadProofs` is a
program that writes JOYP only to change the selection.

| Module | Proved | Along which argument |
|---|---|---|
| `TimerProofs` | `TypeOK`, `RefinesIntervalTimer`, `Punctual`, `BacklogNeverGrows`; `LatenessIsBounded` | `TypeOK` is inductive, given that a tick makes the prescaler overflow at most once. `Clock` and `Remaining`, as functions of registers and remainders, move by exactly the clocks of a tick (`ClockAdvances`, `CountdownStep`); each action then maps to a step of `IntervalTimer`. A countdown that is late counts at every tick (`OverdueTick`). |
| `PpuProofs`, any program | `TypeOK`; `ClocksStayInMode`; `FrameComes` | the counter is below the end of its mode because no tick is longer than a mode. `ClocksToFrame` counts the clocks until a frame from mode, line and counter alone, with the line running around the byte when a store has put it beyond the one the PPU waits for (`LinesCountDown`); mode by mode each tick takes its clocks off (`TickCountsDown`). |
| `PpuProofs`, LINE left alone | `LineFitsMode`, `NoStaleRow`, `NeverThrows`, `RefinesLcdClock`, `SteadyBeam` | the first three together are the inductive invariant `FrameInv`: a row is drawn only in its turn because the line fits the mode, and drawing does not throw for the same reason. That `Beam` moves by the clocks of the tick follows mode by mode. |
| `ScreenProofs` | `ScreenTypeOK`, `RowShowsTiles`, `SpritesInTheirBoxes`, `ThrowsExactly`; `SecondSetMisread`; that `ScreenSpec` implies `Ppu`'s `Spec`, so that the theorems on `Ppu` carry over | everything follows from the types. `SecondSetMisread` is the extent of the third finding: a column is read from the selected set exactly when that is the first. `TileAddress` says where the address of a tile lies for each half of each set, `MapIndex` that no column of background or window leaves vram, `SpriteRow` in which row a sprite's pixel ends up; `PixelUnique` that an index has one row and one column. That a last copied sprite exists is `GreatestBelow`. |
| `ScreenProofs`, tame programs | `NeverThrows`, `RefinesLcdClock` | `TameInv`, what the stores keep true of LCDC and OAM, with `FrameInv`: by `ThrowsExactly`'s lemmas nothing is out of range (`InsideStays`, `TameTick`), so that the proofs of `PpuProofs` apply to a display that paints. |
| `MemoryMapProofs` | `TypeOK`, `LoadsYieldThePicture`, for all watched sets, ROMs and bytes | the picture agrees with the loads at the start, and every store and device tick changes both alike (`ShownStore`, `SwitchStep`, `TransferStep`, one per way of storing); `CopyIsSnapshot` shows that the byte by byte copy equals the page as it was when the transfer began, since a transfer from OAM's own page copies every byte to itself. |
| `JoypadProofs` | `TypeOK`, `OneGroupOrNothing`, `FreshAfterReselect`, `NoPhantomPress`; `OnlyRewriteHides` | with no group selected the lines keep their value, which is then nothing; `NoPhantomPress` needs that the buttons are the held ones and the untouched. `OnlyRewriteHides` says when what joypad_rewrite refutes is true: `HeldKeyReads` is kept by every step but a write of the selection JOYP has already, given that the buttons hold what the user does (`KeysAreHeld`). |
| `CpuProofs` | `TypeOK`, `RequestsHonoured`, `HaltBugIsShortLived`; `HaltEnds` | `TypeOK` is inductive because sp and pc are taken modulo the word. `HaltBugIsShortLived` is not inductive alone: `HaltInv` adds that nothing executes while halted, which is also what `HaltEnds` needs. |
| `CpuProofs`, second part | `StackInStep`, `RefinesCallStack` | `StackInv` (types and the parity and bounds of sp). `FramesOfPush` and `FramesOfPop` say what one push or pop of two bytes does to the sequence of words; `LiveBytesKeep` that nothing else disturbs it. |
| `AluProofs` | `TypeOKDecimal`, `DaaIsDecimal`, `SubUndoesAdd`, `RotatesUndone`, `WordsAsBytes`, for all bytes as `Operands`; `DoublesOutsideNibble` | `DaaIsDecimal` speaks of the state after DAA, so it is not inductive: `DecimalInv` adds `DaaWillBeDecimal`, what DAA would give between an addition and its DAA, which `AddThenDaa` and `SubThenDaa` establish digit by digit. `DoublesOutsideNibble` says for which A `DoublesAsAdd` holds: those with a low nibble outside 5 to 10. |
| `GbcProofs`, time | `TypeOK`, `InLockstep`, `PartsKeepTime` | the instances `tp` and `pp` of the proof modules carry the lemmas on a tick over to the parts inside the machine (the `Same...` lemmas connect their definitions). `InLockstep` speaks of one place of the loop: `InStep` says it of all, with the clocks (`Lag`) the timer has not had yet, modulo `CommonClocks` because beam and divider each go around. `MachineInv` adds `FrameInv`, without which the beam does not move by the clocks of a tick. |
| `GbcProofs`, events | `NoStuckKey`; `ExitIsBounded`, `CloseIsKept` | the last waiting word on a key decides: `DownAfterAppend` and `DownAfterTail` say how an event at either end of the queue changes it, `ArrivalAgrees` and `TakingAgrees` that the user and the poll change both sides alike. `StepsToReturn` counts the steps of the loop left once `should_exit_` is set, and every step of the loop decreases it. |

Only model-checked are the properties that say that something happens
eventually, `KeepsInterrupting`, `KeepsDrawing`, `HaltedWakes`, `KeysArrive`,
`SigintReturns` and `CloseReturns`: liveness under fairness is out of the
prover's reach. For most of them the part that is safety is proved, so that what
is left to fairness is that steps are taken at all: `LatenessIsBounded`
(`KeepsInterrupting`, for a timer that is late), `FrameComes` (`KeepsDrawing`,
`CloseReturns`), `HaltEnds` (`HaltedWakes`), `NoStuckKey` (`KeysArrive`),
`ExitIsBounded` (`SigintReturns`) and `CloseIsKept` (`CloseReturns`).
The three properties whose violation a run shows are false, of course;
`OnlyRewriteHides` and `SecondSetMisread` tell when two of them, `HeldKeyReads`
and `TilesFromTheirSet`, are true.

## Not modelled

- Which opcode calls which operation with which registers.
- The command line, ROM loading, SDL, logging: I/O without state that others
  read. The signal handler is taken to be seen by the next test of the loop,
  though `should_exit_` is a plain bool.
- The classes for registers and buses beyond what the modules need of them: their
  width, and the low nibble of F.

## Plan

Written so far, in this order: timer, PPU, joypad, processor control, stack,
main loop, arithmetic, memory map, rendering; each with its abstract
specification where there is one to state, its run, its theorems. To come:

1. *More proofs.* That `Gbc`'s timer and PPU implement `Timer` and `Ppu` as
   specifications, not only what those implement, so that every theorem on the
   parts holds in the machine.
2. *`Gbc` with the real processor.* `Cpu` in place of `CpuTick`, so that an
   interrupt is followed from the device to its handler.
3. *Decoding.* The opcode tables: that lengths read by handlers and the tables
   agree, and which operation takes how long.
