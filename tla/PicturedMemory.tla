---------------------------- MODULE PicturedMemory ----------------------------
(***************************************************************************)
(* MemoryMap beside a program's picture of memory: each store, and each    *)
(* byte of a device, is told to both with its address and its value, and   *)
(* whatever is loaded afterwards must be what the picture has.  The        *)
(* picture is a history variable: memory does not depend on it.            *)
(***************************************************************************)
EXTENDS MemoryMap

VARIABLE image

pictured == <<vars, image>>

\* The addresses of work RAM and of its echo name the same cells.
CellOf == [a \in Address |-> IF a \in ECHO_WORK_RAM THEN a - \h2000 ELSE a]

View == INSTANCE ProgramView WITH
    Cell         <- CellOf,
    Rom          <- CARTRIDGE_ROM,
    Cleared      <- {DIV},
    Mixed        <- {JOYP},
    Devices      <- DeviceRegisters,
    Overlay      <- BOOT_ROM,
    Switch       <- BOOT_ROM_CONTROL,
    Covering     <- BOOT,
    Covered      <- CARTRIDGE,
    Transfer     <- DMA_TRANSFER,
    Sprites      <- OAM,
    SpritesStart <- OAM_START,
    AtFirst      <- [a \in Address |-> IF a = JOYP THEN 255 ELSE 0]

PicturedInit == Init /\ View!Init

ProgramStores(addr, byte, buttons) ==
    Write(addr, byte, buttons) /\ View!Store(addr, byte, buttons)

DeviceTells(addr, byte) == DeviceTicks(addr, byte) /\ View!DeviceActs(addr, byte)

PicturedNext ==
    \/ \E addr \in Address, byte \in Values, buttons \in DeviceValues :
          ProgramStores(addr, byte, buttons)
    \/ \E addr \in Address, byte \in DeviceValues : DeviceTells(addr, byte)

PicturedSpec == PicturedInit /\ [][PicturedNext]_pictured

\* cpu.cc:44-297: whatever was stored where, a load yields the last byte stored
\* at either name of the cell and nothing stored elsewhere, ROM as it was, one
\* of two ROMs below 0x100, 0 in DIV, in JOYP the selection with the buttons,
\* and after a transfer the page as it was when it began, also from ROM, from
\* the registers and from OAM itself.
LoadsYieldThePicture == image = [a \in Address |-> Read(a)]
===============================================================================
