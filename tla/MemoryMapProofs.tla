---------------------------- MODULE MemoryMapProofs ---------------------------
(***************************************************************************)
(* Theorems about MemoryMap for every set of watched addresses, every boot *)
(* ROM and every cartridge: its types, and that loads yield what the       *)
(* picture of PicturedMemory has.                                          *)
(***************************************************************************)
EXTENDS PicturedMemory, TLAPS

\* The ranges of mmap.hh that read_() asks for do not overlap.
LEMMA Regions ==
    ASSUME NEW a \in Address
    PROVE  /\ a \in Int
           /\ a \in VRAM => a \notin CARTRIDGE_ROM
           /\ a \in ECHO_WORK_RAM => a \notin CARTRIDGE_ROM /\ a \notin VRAM
           /\ a \in OAM => a \notin CARTRIDGE_ROM /\ a \notin VRAM /\ a \notin ECHO_WORK_RAM
           /\ a \in Registers => /\ a \notin CARTRIDGE_ROM
                                 /\ a \notin VRAM
                                 /\ a \notin ECHO_WORK_RAM
                                 /\ a \notin OAM
<1>1. a \in Int
  BY AddressAssumption DEF WORD_MAX
<1> QED
  BY <1>1 DEF Registers, JOYP, DIV, INTERRUPTS_FLAG, BOOT_ROM_CONTROL, INTERRUPTS_ENABLED,
     CARTRIDGE_ROM, VRAM, VRAM_START, ECHO_WORK_RAM, OAM, OAM_START, InRange

\* read_() region by region.
LEMMA ReadByRegion ==
    ASSUME NEW a \in Address, NEW r, NEW s
    PROVE  /\ a \in CARTRIDGE_ROM => ReadFrom(r, s, a) = IF a \in BOOT_ROM /\ BootRomOn(r)
                                                        THEN BOOT[a] ELSE CARTRIDGE[a]
           /\ a \in VRAM => ReadFrom(r, s, a) = vram[a - VRAM_START]
           /\ a \in ECHO_WORK_RAM => ReadFrom(r, s, a) = memory_[EchoOf(a)]
           /\ a \in OAM => ReadFrom(r, s, a) = s[a - OAM_START]
           /\ a \in Registers => ReadFrom(r, s, a) = r[a]
           /\ (/\ a \notin CARTRIDGE_ROM
               /\ a \notin VRAM
               /\ a \notin ECHO_WORK_RAM
               /\ a \notin OAM
               /\ a \notin Registers) => ReadFrom(r, s, a) = memory_[a]
BY Regions DEF ReadFrom

\* A load yields a byte.
LEMMA ReadType ==
    ASSUME TypeOK, NEW a \in Address,
           NEW r \in [Registers -> Byte], NEW s \in [OamIndex -> Byte]
    PROVE  ReadFrom(r, s, a) \in Byte
<1>2. CASE a \in CARTRIDGE_ROM
  BY <1>2, ReadByRegion, RomAssumption
<1>3. CASE a \in VRAM
  BY <1>3, ReadByRegion DEF TypeOK, VramIndex, VRAM, InRange
<1>4. CASE a \in ECHO_WORK_RAM
  BY <1>4, ReadByRegion, EchoAssumption DEF TypeOK, EchoOf
<1>5. CASE a \in OAM
  BY <1>5, ReadByRegion DEF OamIndex
<1>6. CASE a \in Registers
  BY <1>6, ReadByRegion
<1>7. CASE /\ a \notin CARTRIDGE_ROM
           /\ a \notin VRAM
           /\ a \notin ECHO_WORK_RAM
           /\ a \notin OAM
           /\ a \notin Registers
  BY <1>7, ReadByRegion DEF TypeOK
<1> QED
  BY <1>2, <1>3, <1>4, <1>5, <1>6, <1>7

\* dma_transfer_() reads each byte of OAM, if it reads any, before it has
\* replaced it: byte by byte the copy is the page as it was.
LEMMA CopyIsSnapshot ==
    ASSUME NEW r, NEW page \in Byte, PageIsWatched(page), TypeOK
    PROVE  Copied(r, page) = [n \in OamIndex |-> ReadFrom(r, oam, page * PageSize + n)]
<1> DEFINE Progress(f, n) == [m \in OamIndex |-> IF m < n THEN f[m] ELSE oam[m]]
           snapshot == [n \in OamIndex |-> ReadFrom(r, oam, page * PageSize + n)]
<1>1. ASSUME NEW f, NEW n \in OamIndex
      PROVE  ReadFrom(r, Progress(f, n), page * PageSize + n) = snapshot[n]
  <2> DEFINE a == page * PageSize + n
  <2>1. a \in Address
    BY DEF PageIsWatched
  <2>2. n \in Int /\ 0 <= n /\ n <= 159
    <3>1. PICK x \in OAM : n = x - OAM_START
      BY DEF OamIndex
    <3> QED
      BY <3>1, Regions DEF OAM, OAM_START, InRange
  <2>3. CASE a \in OAM
    <3>1. a - OAM_START = n
      <4>1. page \in Int
        BY DEF Byte, BYTE_MAX
      <4>2. page * 256 + n >= 65024 /\ page * 256 + n <= 65183
        BY <2>3 DEF OAM, OAM_START, InRange, PageSize
      <4>3. page = 254
        BY <2>2, <4>1, <4>2
      <4> QED
        BY <2>2, <4>3 DEF OAM_START, PageSize
    <3>2. Progress(f, n)[n] = oam[n]
      BY <2>2
    <3> QED
      BY <2>1, <2>3, <3>1, <3>2, ReadByRegion
  <2>4. CASE a \notin OAM
    BY <2>1, <2>2, <2>4, ReadByRegion, Regions
  <2> QED
    BY <2>3, <2>4
<1>2. snapshot = [n \in OamIndex |-> ReadFrom(r, Progress(snapshot, n), page * PageSize + n)]
  BY <1>1
<1>3. ASSUME NEW f, f = [n \in OamIndex |-> ReadFrom(r, Progress(f, n), page * PageSize + n)]
      PROVE  f = snapshot
  BY <1>1, <1>3
<1> QED
  BY <1>2, <1>3 DEF Copied

\* What is stored in JOYP is a byte again.
LEMMA ButtonsType ==
    ASSUME NEW selection \in Byte, NEW buttons \in Byte
    PROVE  WithButtons(selection, buttons) \in Byte
<1>1. selection \in Int /\ 0 <= selection /\ selection <= 255
  BY DEF Byte, BYTE_MAX
<1>2. selection - (selection % 16) \in Int /\ 0 <= selection - (selection % 16)
      /\ selection - (selection % 16) <= 240
  BY <1>1
<1>3. buttons % 16 \in Int /\ 0 <= buttons % 16 /\ buttons % 16 <= 15
  BY DEF Byte, BYTE_MAX
<1>4. WithButtons(selection, buttons) \in Int /\ 0 <= WithButtons(selection, buttons)
      /\ WithButtons(selection, buttons) <= BYTE_MAX
  BY <1>2, <1>3 DEF WithButtons, BYTE_MAX
<1> QED
  BY <1>4 DEF Byte, BYTE_MAX

\* One step of the processor or of a device keeps every cell a byte.
LEMMA StepType ==
    ASSUME TypeOK, [Next]_vars
    PROVE  TypeOK'
<1>1. ASSUME NEW addr \in Address, NEW byte \in Values, StoreInMemory(addr, byte)
      PROVE  TypeOK'
  BY <1>1, ValuesAssumption DEF StoreInMemory, TypeOK
<1>2. ASSUME NEW addr \in Address, NEW byte \in Values, StoreInVram(addr, byte)
      PROVE  TypeOK'
  BY <1>2, ValuesAssumption DEF StoreInVram, TypeOK
<1>3. ASSUME NEW addr \in Address, NEW byte \in Values, StoreInOam(addr, byte)
      PROVE  TypeOK'
  BY <1>3, ValuesAssumption DEF StoreInOam, TypeOK
<1>4. ASSUME NEW addr \in Address, NEW byte \in Values, NEW buttons \in DeviceValues,
             StoreInRegister(addr, byte, buttons)
      PROVE  TypeOK'
  <2>1. PICK kept : /\ kept = 0 \/ kept = WithButtons(byte, buttons) \/ kept = byte
                    /\ register' = [register EXCEPT ![addr] = kept]
    BY <1>4 DEF StoreInRegister
  <2>2. 0 \in Byte
    BY DEF Byte, BYTE_MAX
  <2>3. kept \in Byte
    BY <2>1, <2>2, ButtonsType, ValuesAssumption
  <2> QED
    BY <1>4, <2>1, <2>3 DEF StoreInRegister, TypeOK
<1>5. ASSUME NEW page \in Values, StartTransfer(page)
      PROVE  TypeOK'
  <2>1. page \in Byte
    BY ValuesAssumption
  <2>2. register' \in [Registers -> Byte]
    BY <1>5, <2>1 DEF StartTransfer, TypeOK
  <2>3. oam' = [n \in OamIndex |-> ReadFrom(register', oam, page * PageSize + n)]
    BY <1>5, <2>1, CopyIsSnapshot DEF StartTransfer
  <2>4. ASSUME NEW n \in OamIndex
        PROVE  ReadFrom(register', oam, page * PageSize + n) \in Byte
    BY <1>5, <2>2, ReadType DEF StartTransfer, PageIsWatched, TypeOK
  <2> QED
    BY <1>5, <2>2, <2>3, <2>4 DEF StartTransfer, TypeOK
<1>6. ASSUME NEW addr \in Address, NEW byte \in DeviceValues, DeviceTicks(addr, byte)
      PROVE  TypeOK'
  BY <1>6, ValuesAssumption DEF DeviceTicks, TypeOK
<1>7. CASE UNCHANGED vars
  BY <1>7 DEF vars, TypeOK
<1> QED
  BY <1>1, <1>2, <1>3, <1>4, <1>5, <1>6, <1>7 DEF Next, Write

LEMMA InitType == Init => TypeOK
<1>1. 0 \in Byte /\ 255 \in Byte
  BY DEF Byte, BYTE_MAX
<1> QED
  BY <1>1 DEF Init, TypeOK, PowerOn

\* cpu.cc:44-297, memory.cc:5-9, ppu.hh:45-49: the indices of Memory, vram, oam
\* and the registers stay what they were, and what is kept there is a byte.
THEOREM TypeCorrect == Spec => []TypeOK
BY InitType, StepType, PTL DEF Spec
-------------------------------------------------------------------------------

\* What is kept in Memory, at its own address or at that of its echo.
InRam(a) == a \notin CARTRIDGE_ROM /\ a \notin VRAM /\ a \notin OAM /\ a \notin Registers

\* Two names of a cell lie in the same region of memory.
LEMMA Cells ==
    ASSUME NEW a \in Address
    PROVE  /\ CellOf[a] \in Address
           /\ InRam(a) => InRam(CellOf[a]) /\ Read(a) = memory_[CellOf[a]]
           /\ ~InRam(a) => CellOf[a] = a
<1>1. CASE a \in ECHO_WORK_RAM
  <2>1. CellOf[a] = EchoOf(a) /\ CellOf[a] \in Address
    BY <1>1, EchoAssumption DEF CellOf, EchoOf
  <2>2. InRam(EchoOf(a))
    BY <1>1, Regions DEF InRam, EchoOf, Registers, JOYP, DIV, INTERRUPTS_FLAG, BOOT_ROM_CONTROL,
       INTERRUPTS_ENABLED, CARTRIDGE_ROM, VRAM, VRAM_START, ECHO_WORK_RAM, OAM, OAM_START, InRange
  <2>3. InRam(a)
    BY <1>1, Regions DEF InRam
  <2> QED
    BY <1>1, <2>1, <2>2, <2>3, ReadByRegion DEF Read
<1>2. CASE a \notin ECHO_WORK_RAM
  BY <1>2, ReadByRegion DEF CellOf, InRam, Read
<1> QED
  BY <1>1, <1>2

\* A store in Memory is seen at both names of the cell; one to ROM nowhere.
LEMMA MemoryStore ==
    ASSUME TypeOK, NEW addr \in Address, NEW byte \in Byte, StoreInMemory(addr, byte),
           NEW a \in Address
    PROVE  Read(a)' = IF InRam(addr) /\ CellOf[a] = CellOf[addr] THEN byte ELSE Read(a)
<1>1. /\ memory_' = [memory_ EXCEPT ![CellOf[addr]] = byte]
      /\ UNCHANGED <<vram, oam, register>>
  BY DEF StoreInMemory, CellOf, EchoOf
<1>2. CASE InRam(a)
  <2>1. Read(a)' = memory_'[CellOf[a]]
    BY <1>2, Regions DEF InRam, Read, ReadFrom, CellOf, EchoOf
  <2> QED
    BY <1>1, <1>2, <2>1, Cells DEF TypeOK
<1>3. CASE ~InRam(a)
  <2>1. Read(a)' = Read(a)
    BY <1>1, <1>3, Regions DEF InRam, Read, ReadFrom, BootRomOn
  <2> QED
    BY <1>3, <2>1, Cells
<1> QED
  BY <1>2, <1>3

\* A store to an address of VRAM, of OAM or of a register is seen there only.
LEMMA IndexedStore ==
    ASSUME TypeOK, NEW addr \in Address, addr # BOOT_ROM_CONTROL, NEW byte,
           \/ StoreInVram(addr, byte)
           \/ StoreInOam(addr, byte)
           \/ /\ addr \in Registers
              /\ register' = [register EXCEPT ![addr] = byte]
              /\ UNCHANGED <<memory_, vram, oam>>,
           NEW a \in Address
    PROVE  Read(a)' = IF CellOf[a] = CellOf[addr] THEN byte ELSE Read(a)
<1>1. ~InRam(addr) /\ CellOf[addr] = addr
  BY Cells DEF InRam, StoreInVram, StoreInOam
<1>2. CellOf[a] = CellOf[addr] <=> a = addr
  BY <1>1, Cells
<1>3. BOOT_ROM_CONTROL \in Registers
  BY SwitchesAssumption DEF Registers
<1>4. CASE StoreInVram(addr, byte)
  BY <1>2, <1>4, Regions DEF StoreInVram, Read, ReadFrom, TypeOK, VramIndex, BootRomOn, VRAM_START
<1>5. CASE StoreInOam(addr, byte)
  BY <1>2, <1>5, Regions DEF StoreInOam, Read, ReadFrom, TypeOK, OamIndex, BootRomOn, OAM_START
<1>6. CASE /\ addr \in Registers
           /\ register' = [register EXCEPT ![addr] = byte]
           /\ UNCHANGED <<memory_, vram, oam>>
  BY <1>2, <1>3, <1>6, Regions DEF Read, ReadFrom, TypeOK, BootRomOn
<1> QED
  BY <1>4, <1>5, <1>6

\* If such a store is told to the picture, the picture still shows what is there.
LEMMA ShownStore ==
    ASSUME LoadsYieldThePicture, NEW addr \in Address, NEW byte,
           \A a \in Address : Read(a)' = IF CellOf[a] = CellOf[addr] THEN byte ELSE Read(a),
           image' = View!With(addr, byte)
    PROVE  LoadsYieldThePicture'
BY DEF LoadsYieldThePicture, View!With

\* The boot ROM comes and goes with its register, and nothing else does.
LEMMA SwitchStep ==
    ASSUME TypeOK, LoadsYieldThePicture, NEW byte \in Byte,
           register' = [register EXCEPT ![BOOT_ROM_CONTROL] = byte],
           UNCHANGED <<memory_, vram, oam>>,
           View!SwitchOverlay(byte)
    PROVE  LoadsYieldThePicture'
<1>1. BOOT_ROM_CONTROL \in Registers /\ BOOT_ROM_CONTROL \in Address
  BY SwitchesAssumption DEF Registers
<1>2. BootRomOn(register)' <=> byte = 0
  BY <1>1 DEF BootRomOn, TypeOK
<1>3. ASSUME NEW a \in Address
      PROVE  CellOf[a] = CellOf[BOOT_ROM_CONTROL] <=> a = BOOT_ROM_CONTROL
  BY <1>1, Cells DEF InRam
<1>4. ASSUME NEW a \in Address
      PROVE  Read(a)' = IF a \in BOOT_ROM THEN (IF byte = 0 THEN BOOT[a] ELSE CARTRIDGE[a])
                        ELSE IF a = BOOT_ROM_CONTROL THEN byte ELSE Read(a)
  <2>1. CASE a \in CARTRIDGE_ROM
    BY <1>1, <1>2, <2>1, Regions DEF Read, ReadFrom
  <2>2. CASE a \notin CARTRIDGE_ROM
    <3>1. a \notin BOOT_ROM
      BY <2>2, Regions DEF CARTRIDGE_ROM, BOOT_ROM, InRange
    <3>2. CASE a \in Registers
      BY <2>2, <3>1, <3>2, Regions DEF Read, ReadFrom, TypeOK
    <3>3. CASE a \notin Registers
      BY <1>1, <2>2, <3>1, <3>3 DEF Read, ReadFrom
    <3> QED
      BY <3>2, <3>3
  <2> QED
    BY <2>1, <2>2
<1>5. BOOT_ROM_CONTROL \notin BOOT_ROM
  BY DEF BOOT_ROM, BOOT_ROM_CONTROL, InRange
<1> QED
  BY <1>3, <1>4, <1>5 DEF View!SwitchOverlay, View!With, LoadsYieldThePicture

\* A transfer shows the page as it was, its number already in its register.
LEMMA TransferStep ==
    ASSUME TypeOK, LoadsYieldThePicture, NEW page \in Byte, StartTransfer(page),
           View!CopyPage(page)
    PROVE  LoadsYieldThePicture'
<1>1. DMA_TRANSFER \in Registers /\ DMA_TRANSFER \in Address
  BY SwitchesAssumption DEF Registers, DMA_TRANSFER, InRange
<1>2. /\ register' = [register EXCEPT ![DMA_TRANSFER] = page]
      /\ UNCHANGED <<memory_, vram>>
      /\ oam' = [n \in OamIndex |-> ReadFrom(register', oam, page * PageSize + n)]
      /\ \A n \in OamIndex : page * PageSize + n \in Address
  BY CopyIsSnapshot DEF StartTransfer, PageIsWatched
<1>3. BOOT_ROM_CONTROL \in Registers /\ BOOT_ROM_CONTROL # DMA_TRANSFER
  BY SwitchesAssumption DEF Registers, BOOT_ROM_CONTROL, DMA_TRANSFER
<1>4. BootRomOn(register') <=> BootRomOn(register)
  BY <1>2, <1>3 DEF BootRomOn, TypeOK
<1> DEFINE told == View!With(DMA_TRANSFER, page)
<1>5. ASSUME NEW a \in Address
      PROVE  told[a] = ReadFrom(register', oam, a)
  <2>1. CellOf[a] = CellOf[DMA_TRANSFER] <=> a = DMA_TRANSFER
    BY <1>1, Cells DEF InRam
  <2>2. told[a] = IF a = DMA_TRANSFER THEN page ELSE Read(a)
    BY <2>1 DEF View!With, LoadsYieldThePicture
  <2>3. CASE a \in Registers
    <3>1. Read(a) = register[a] /\ ReadFrom(register', oam, a) = register'[a]
      BY <2>3, Regions DEF Read, ReadFrom
    <3> QED
      BY <1>2, <2>2, <2>3, <3>1 DEF TypeOK
  <2>4. CASE a \notin Registers
    BY <1>1, <1>4, <2>2, <2>4 DEF Read, ReadFrom
  <2> QED
    BY <2>3, <2>4
<1>6. ASSUME NEW a \in Address
      PROVE  Read(a)' = IF a \in OAM THEN told[page * PageSize + (a - OAM_START)] ELSE told[a]
  <2>1. CASE a \in OAM
    <3>1. a - OAM_START \in OamIndex
      BY <2>1 DEF OamIndex
    <3>2. Read(a)' = oam'[a - OAM_START]
      BY <2>1, Regions DEF Read, ReadFrom
    <3> QED
      BY <1>2, <1>5, <2>1, <3>1, <3>2
  <2>2. CASE a \notin OAM
    <3>1. Read(a)' = ReadFrom(register', oam, a)
      BY <1>2, <2>2 DEF Read, ReadFrom
    <3> QED
      BY <1>5, <2>2, <3>1
  <2> QED
    BY <2>1, <2>2
<1> QED
  BY <1>6 DEF View!CopyPage, LoadsYieldThePicture

\* What the picture makes of a store, address by address.
LEMMA PictureOfStore ==
    ASSUME NEW addr \in Address, NEW byte, NEW buttons, View!Store(addr, byte, buttons)
    PROVE  /\ addr \in CARTRIDGE_ROM => UNCHANGED image
           /\ addr = DIV => image' = View!With(addr, 0)
           /\ addr = JOYP => image' = View!With(addr, 16 * (byte \div 16) + (buttons % 16))
           /\ addr = BOOT_ROM_CONTROL => View!SwitchOverlay(byte)
           /\ addr = DMA_TRANSFER => View!CopyPage(byte)
           /\ addr \notin CARTRIDGE_ROM \cup {DIV, JOYP, BOOT_ROM_CONTROL, DMA_TRANSFER} =>
                 image' = View!With(addr, byte)
<1>1. DIV \notin CARTRIDGE_ROM /\ JOYP \notin CARTRIDGE_ROM
      /\ BOOT_ROM_CONTROL \notin CARTRIDGE_ROM /\ DMA_TRANSFER \notin CARTRIDGE_ROM
  BY DEF DIV, JOYP, BOOT_ROM_CONTROL, DMA_TRANSFER, CARTRIDGE_ROM, InRange
<1>2. /\ DIV # JOYP /\ DIV # BOOT_ROM_CONTROL /\ DIV # DMA_TRANSFER
      /\ JOYP # BOOT_ROM_CONTROL /\ JOYP # DMA_TRANSFER /\ BOOT_ROM_CONTROL # DMA_TRANSFER
  BY DEF DIV, JOYP, BOOT_ROM_CONTROL, DMA_TRANSFER
<1> QED
  BY <1>1, <1>2 DEF View!Store, View!Keep, View!Ignore, View!Clear, View!Mix

\* Those addresses are registers.
LEMMA SpecialRegisters ==
    ASSUME NEW addr \in Address, addr \in {DIV, JOYP, BOOT_ROM_CONTROL, DMA_TRANSFER}
    PROVE  addr \in Registers
BY DEF Registers, DIV, DMA_TRANSFER, InRange

\* Every step shows in memory as it does in the picture.
LEMMA StepKeepsPicture ==
    ASSUME TypeOK, LoadsYieldThePicture, [PicturedNext]_pictured
    PROVE  LoadsYieldThePicture'
<1>1. ASSUME NEW addr \in Address, NEW byte \in Values, NEW buttons \in DeviceValues,
             StoreInMemory(addr, byte), View!Store(addr, byte, buttons)
      PROVE  LoadsYieldThePicture'
  <2>1. byte \in Byte
    BY ValuesAssumption
  <2>2. \A a \in Address :
           Read(a)' = IF InRam(addr) /\ CellOf[a] = CellOf[addr] THEN byte ELSE Read(a)
    BY <1>1, <2>1, MemoryStore
  <2>3. addr \notin {DIV, JOYP, BOOT_ROM_CONTROL, DMA_TRANSFER}
    BY <1>1, SpecialRegisters DEF StoreInMemory
  <2>4. CASE InRam(addr)
    <3>1. image' = View!With(addr, byte)
      BY <1>1, <2>3, <2>4, PictureOfStore DEF InRam
    <3> QED
      BY <2>2, <2>4, <3>1, ShownStore
  <2>5. CASE ~InRam(addr)
    <3>1. UNCHANGED image
      BY <1>1, <2>5, PictureOfStore DEF InRam, StoreInMemory
    <3> QED
      BY <2>2, <2>5, <3>1 DEF LoadsYieldThePicture
  <2> QED
    BY <2>4, <2>5
<1>2. ASSUME NEW addr \in Address, NEW byte \in Values, NEW buttons \in DeviceValues,
             StoreInVram(addr, byte) \/ StoreInOam(addr, byte),
             View!Store(addr, byte, buttons)
      PROVE  LoadsYieldThePicture'
  <2>1. addr \notin Registers /\ addr \notin CARTRIDGE_ROM
    BY <1>2, Regions DEF StoreInVram, StoreInOam
  <2>2. addr \notin {DIV, JOYP, BOOT_ROM_CONTROL, DMA_TRANSFER}
    BY <2>1, SpecialRegisters
  <2>3. \A a \in Address : Read(a)' = IF CellOf[a] = CellOf[addr] THEN byte ELSE Read(a)
    BY <1>2, <2>2, IndexedStore
  <2>4. image' = View!With(addr, byte)
    BY <1>2, <2>1, <2>2, PictureOfStore
  <2> QED
    BY <2>3, <2>4, ShownStore
<1>3. ASSUME NEW addr \in Registers, NEW byte, addr # BOOT_ROM_CONTROL,
             register' = [register EXCEPT ![addr] = byte],
             UNCHANGED <<memory_, vram, oam>>,
             image' = View!With(addr, byte)
      PROVE  LoadsYieldThePicture'
  <2>1. addr \in Address
    BY DEF Registers, InRange
  <2>2. \A a \in Address : Read(a)' = IF CellOf[a] = CellOf[addr] THEN byte ELSE Read(a)
    BY <1>3, <2>1, IndexedStore
  <2> QED
    BY <1>3, <2>1, <2>2, ShownStore
<1>4. ASSUME NEW addr \in Address, NEW byte \in Values, NEW buttons \in DeviceValues,
             StoreInRegister(addr, byte, buttons), View!Store(addr, byte, buttons)
      PROVE  LoadsYieldThePicture'
  <2> DEFINE kept == IF addr = DIV THEN 0
                     ELSE IF addr = JOYP THEN WithButtons(byte, buttons) ELSE byte
  <2>1. /\ addr \in Registers /\ addr # DMA_TRANSFER
        /\ register' = [register EXCEPT ![addr] = kept]
        /\ UNCHANGED <<memory_, vram, oam>>
    BY <1>4 DEF StoreInRegister
  <2>2. CASE addr = BOOT_ROM_CONTROL
    <3>1. kept = byte /\ byte \in Byte
      BY <2>2, ValuesAssumption DEF BOOT_ROM_CONTROL, DIV, JOYP
    <3>2. View!SwitchOverlay(byte)
      BY <1>4, <2>2, PictureOfStore
    <3> QED
      BY <2>1, <2>2, <3>1, <3>2, SwitchStep
  <2>3. CASE addr # BOOT_ROM_CONTROL
    <3>1. WithButtons(byte, buttons) = 16 * (byte \div 16) + (buttons % 16)
      <4>1. byte \in Int /\ buttons \in Int
        BY ValuesAssumption DEF Byte
      <4> QED
        BY <4>1 DEF WithButtons
    <3>2. addr \notin CARTRIDGE_ROM
      BY <2>1, Regions
    <3>3. image' = View!With(addr, kept)
      BY <1>4, <2>1, <2>3, <3>1, <3>2, PictureOfStore
    <3> HIDE DEF kept
    <3> QED
      BY <1>3, <2>1, <2>3, <3>3
  <2> QED
    BY <2>2, <2>3
<1>5. ASSUME NEW page \in Values, NEW buttons \in DeviceValues,
             StartTransfer(page), View!Store(DMA_TRANSFER, page, buttons)
      PROVE  LoadsYieldThePicture'
  <2>1. View!CopyPage(page)
    BY <1>5, PictureOfStore, SwitchesAssumption
  <2> QED
    BY <1>5, <2>1, TransferStep, ValuesAssumption
<1>6. ASSUME NEW addr \in Address, NEW byte \in DeviceValues, DeviceTells(addr, byte)
      PROVE  LoadsYieldThePicture'
  <2>1. addr \in Registers /\ addr # BOOT_ROM_CONTROL
    BY <1>6 DEF DeviceTells, DeviceTicks, DeviceRegisters, Registers, JOYP, DIV, TIMA,
       INTERRUPTS_FLAG, LCD_STATUS, LINE, BOOT_ROM_CONTROL, InRange
  <2> QED
    BY <1>3, <1>6, <2>1 DEF DeviceTells, DeviceTicks, View!DeviceActs
<1>7. CASE UNCHANGED pictured
  BY <1>7 DEF pictured, vars, LoadsYieldThePicture, Read, ReadFrom, BootRomOn
<1> QED
  BY <1>1, <1>2, <1>4, <1>5, <1>6, <1>7 DEF PicturedNext, ProgramStores, Write

\* What memory holds at first is what the picture starts with.
LEMMA PictureAtFirst ==
    ASSUME PicturedInit
    PROVE  LoadsYieldThePicture
<1>1. BOOT_ROM_CONTROL \in Registers /\ BootRomOn(register)
  BY SwitchesAssumption
     DEF PicturedInit, Init, PowerOn, BootRomOn, Registers, BOOT_ROM_CONTROL, JOYP
<1>2. ASSUME NEW a \in Address
      PROVE  Read(a) = IF a \in BOOT_ROM THEN BOOT[a]
                       ELSE IF a \in CARTRIDGE_ROM THEN CARTRIDGE[a]
                       ELSE IF a = JOYP THEN 255 ELSE 0
  <2>1. a \in BOOT_ROM => a \in CARTRIDGE_ROM
    BY Regions DEF BOOT_ROM, CARTRIDGE_ROM, InRange
  <2>2. a = JOYP => a \in Registers
    BY SpecialRegisters
  <2>3. CASE a \in CARTRIDGE_ROM
    BY <1>1, <2>3, ReadByRegion DEF Read
  <2>4. CASE a \in Registers
    BY <2>1, <2>4, Regions, ReadByRegion DEF Read, PicturedInit, Init, PowerOn
  <2>5. CASE a \in ECHO_WORK_RAM
    BY <2>1, <2>2, <2>5, Regions, ReadByRegion, EchoAssumption
       DEF Read, PicturedInit, Init, EchoOf
  <2>6. CASE a \in VRAM \cup OAM
    BY <2>1, <2>2, <2>6, Regions, ReadByRegion DEF Read, PicturedInit, Init, VramIndex, OamIndex
  <2>7. CASE /\ a \notin CARTRIDGE_ROM
             /\ a \notin VRAM
             /\ a \notin ECHO_WORK_RAM
             /\ a \notin OAM
             /\ a \notin Registers
    BY <2>1, <2>2, <2>7, ReadByRegion DEF Read, PicturedInit, Init
  <2> QED
    BY <2>3, <2>4, <2>5, <2>6, <2>7
<1> QED
  BY <1>2 DEF PicturedInit, View!Init, LoadsYieldThePicture

\* The picture leaves the behaviours of memory alone.
LEMMA PicturedIsMemory ==
    /\ PicturedInit => Init
    /\ [PicturedNext]_pictured => [Next]_vars
BY DEF PicturedInit, PicturedNext, ProgramStores, DeviceTells, Next, pictured

\* cpu.cc:44-297: for every program, every ROM and whatever the devices report,
\* loads yield what was stored, echoes, transfers and the overlay of the boot
\* ROM included.
THEOREM PictureCorrect == PicturedSpec => [](TypeOK /\ LoadsYieldThePicture)
<1>1. PicturedInit => TypeOK /\ LoadsYieldThePicture
  BY InitType, PictureAtFirst, PicturedIsMemory
<1>2. TypeOK /\ LoadsYieldThePicture /\ [PicturedNext]_pictured
      => TypeOK' /\ LoadsYieldThePicture'
  BY StepType, StepKeepsPicture, PicturedIsMemory
<1> QED
  BY <1>1, <1>2, PTL DEF PicturedSpec
===============================================================================
