------------------------------- MODULE MemoryMap ------------------------------
(***************************************************************************)
(* The processor's view of memory: read_(), write_() and dma_transfer_()   *)
(* of src/src/cpu/cpu.cc over the ranges of src/src/mmap.hh, with the boot *)
(* ROM that covers the cartridge until a program switches it off.          *)
(*                                                                         *)
(* Of the 65536 addresses a set is watched.  The registers of the timer,   *)
(* the PPU and the joypad are cells that their owners may change between   *)
(* two accesses; Timer, Ppu and Joypad say how.                            *)
(***************************************************************************)
EXTENDS Integers

CONSTANTS
    Address,         \* the watched addresses
    Values,          \* the bytes the program stores
    DeviceValues,    \* the bytes the other components put in their registers
    BOOT,            \* boot::ROM and Cartridge::rom_data_, on the watched addresses
    CARTRIDGE

BYTE_MAX == 255
WORD_MAX == 65535
Byte     == 0 .. BYTE_MAX
PageSize == 256

\* mmap.hh, as far as anything is watched there: util::in_range().
InRange(first, last) == {addr \in Address : first <= addr /\ addr <= last}

VRAM_START == \h8000
OAM_START  == \hFE00

CARTRIDGE_ROM == InRange(0, \h7FFF)
BOOT_ROM      == InRange(0, \h00FF)
VRAM          == InRange(VRAM_START, \h9FFF)
ECHO_WORK_RAM == InRange(\hE000, \hFDFF)
OAM           == InRange(OAM_START, \hFE9F)

JOYP               == \hFF00
DIV                == \hFF04
TIMA               == \hFF05
INTERRUPTS_FLAG    == \hFF0F
LCD_STATUS         == \hFF41
LINE               == \hFF44
DMA_TRANSFER       == \hFF46
BOOT_ROM_CONTROL   == \hFF50
INTERRUPTS_ENABLED == \hFFFF

\* The addresses that read_() and write_() send to a register of their own:
\* beside those named above TMA and TAC, and the PPU's from 0xFF40 to 0xFF4B.
Registers ==
    ({JOYP, INTERRUPTS_FLAG, BOOT_ROM_CONTROL, INTERRUPTS_ENABLED} \cap Address)
    \cup InRange(DIV, \hFF07) \cup InRange(\hFF40, \hFF4B)

\* The registers that timer, PPU, joypad and the callbacks change.
DeviceRegisters == {JOYP, DIV, TIMA, INTERRUPTS_FLAG, LCD_STATUS, LINE} \cap Address

\* The rest (cartridge and work RAM, the unused, the other I/O addresses and the
\* zero page) is in Memory at its own address.

VramIndex == {a - VRAM_START : a \in VRAM}
OamIndex  == {a - OAM_START : a \in OAM}

ASSUME AddressAssumption == Address \subseteq 0 .. WORD_MAX
ASSUME SwitchesAssumption == {DMA_TRANSFER, BOOT_ROM_CONTROL} \subseteq Address
ASSUME EchoAssumption == \A a \in ECHO_WORK_RAM : a - \h2000 \in Address
ASSUME ValuesAssumption == Values \subseteq Byte /\ DeviceValues \subseteq Byte
\* A file of at least 32 KiB: rom_data_.at() throws beyond the end of a shorter one.
ASSUME RomAssumption ==
    /\ BOOT \in [BOOT_ROM -> Byte]
    /\ CARTRIDGE \in [CARTRIDGE_ROM -> Byte]

VARIABLES
    memory_,    \* Memory::memory_, by address
    vram, oam,  \* by index
    register    \* by address; boot_rom_control and the interrupt registers among them

vars == <<memory_, vram, oam, register>>

TypeOK ==
    /\ memory_ \in [Address -> Byte]
    /\ vram \in [VramIndex -> Byte]
    /\ oam \in [OamIndex -> Byte]
    /\ register \in [Registers -> Byte]

PowerOn == [a \in Registers |-> IF a = JOYP THEN 255 ELSE 0]

Init ==
    /\ memory_ = [a \in Address |-> 0]
    /\ vram = [n \in VramIndex |-> 0]
    /\ oam = [n \in OamIndex |-> 0]
    /\ register = PowerOn

-------------------------------------------------------------------------------
(* read_()                                                                 *)

\* The cell of work RAM behind an address of its echo.
EchoOf(addr) == addr - \h2000

BootRomOn(registers) == registers[BOOT_ROM_CONTROL] = 0

\* What a load yields from these registers and sprites and the rest of memory.
ReadFrom(registers, sprites, addr) ==
    IF addr \in CARTRIDGE_ROM THEN IF addr \in BOOT_ROM /\ BootRomOn(registers)
                                   THEN BOOT[addr] ELSE CARTRIDGE[addr]
    ELSE IF addr \in VRAM THEN vram[addr - VRAM_START]
    ELSE IF addr \in ECHO_WORK_RAM THEN memory_[EchoOf(addr)]
    ELSE IF addr \in OAM THEN sprites[addr - OAM_START]
    ELSE IF addr \in Registers THEN registers[addr]
    ELSE memory_[addr]

Read(addr) == ReadFrom(register, oam, addr)

-------------------------------------------------------------------------------
(* write_()                                                                *)

\* A plausible slip: a store to the echo is kept at its own address.
Bug_EchoAside(addr, byte) ==
    /\ addr \notin VRAM \cup OAM \cup Registers
    /\ memory_' = [memory_ EXCEPT ![addr] = byte]
    /\ UNCHANGED <<vram, oam, register>>

\* A store to ROM lands in memory_, where no load looks for it.
StoreInMemory(addr, byte) ==
    /\ addr \notin VRAM \cup OAM \cup Registers
    /\ memory_' = [memory_ EXCEPT ![IF addr \in ECHO_WORK_RAM THEN EchoOf(addr) ELSE addr] = byte]
    /\ UNCHANGED <<vram, oam, register>>

StoreInVram(addr, byte) ==
    /\ addr \in VRAM
    /\ vram' = [vram EXCEPT ![addr - VRAM_START] = byte]
    /\ UNCHANGED <<memory_, oam, register>>

StoreInOam(addr, byte) ==
    /\ addr \in OAM
    /\ oam' = [oam EXCEPT ![addr - OAM_START] = byte]
    /\ UNCHANGED <<memory_, vram, register>>

\* A plausible slip: the buttons are added, not masked in.
Bug_AddedButtons(selection, buttons) == selection + (buttons % 16)

WithButtons(selection, buttons) == selection - (selection % 16) + (buttons % 16)

\* DIV is reset whatever is stored; of JOYP the joypad keeps the selection and
\* reports its buttons in the low bits.
StoreInRegister(addr, byte, buttons) ==
    /\ addr \in Registers \ {DMA_TRANSFER}
    /\ register' = [register EXCEPT ![addr] = IF addr = DIV THEN 0
                                              ELSE IF addr = JOYP THEN WithButtons(byte, buttons)
                                              ELSE byte]
    /\ UNCHANGED <<memory_, vram, oam>>

\* The pages all of whose bytes are watched that the copy reads.
PageIsWatched(page) == \A n \in OamIndex : page * PageSize + n \in Address

\* dma_transfer_(): byte n is read when the bytes below n are already copied.
Copied(registers, page) ==
    LET copy[n \in OamIndex] ==
          ReadFrom(registers, [m \in OamIndex |-> IF m < n THEN copy[m] ELSE oam[m]],
                   page * PageSize + n)
    IN  copy

StartTransfer(page) ==
    /\ PageIsWatched(page)
    /\ register' = [register EXCEPT ![DMA_TRANSFER] = page]
    /\ oam' = Copied(register', page)
    /\ UNCHANGED <<memory_, vram>>

Write(addr, byte, buttons) ==
    \/ StoreInMemory(addr, byte)
    \/ StoreInVram(addr, byte)
    \/ StoreInOam(addr, byte)
    \/ StoreInRegister(addr, byte, buttons)
    \/ addr = DMA_TRANSFER /\ StartTransfer(byte)

\* Timer, PPU, joypad and the interrupt callbacks, between two instructions.
DeviceTicks(addr, byte) ==
    /\ addr \in DeviceRegisters
    /\ register' = [register EXCEPT ![addr] = byte]
    /\ UNCHANGED <<memory_, vram, oam>>

Next ==
    \/ \E addr \in Address, byte \in Values, buttons \in DeviceValues : Write(addr, byte, buttons)
    \/ \E addr \in Address, byte \in DeviceValues : DeviceTicks(addr, byte)

Spec == Init /\ [][Next]_vars
===============================================================================
