------------------------------ MODULE CpuProofs -------------------------------
(***************************************************************************)
(* The processor's control for every memory map, every size of a byte and  *)
(* every program: its registers keep their range, no request is lost, and  *)
(* the halt bug does not outlive the fetch it spoils.  And under a program *)
(* that keeps its stack in order, for every place and size of the stack,   *)
(* it implements a stack of words.                                         *)
(***************************************************************************)
EXTENDS BalancedCpu, SequenceTheorems, TLAPS

\* A word has a high and a low byte, and they make it up (util::fuse).
LEMMA WordBytes ==
    ASSUME NEW w \in Word
    PROVE  /\ High(w) \in Byte
           /\ Low(w) \in Byte
           /\ High(w) * ByteSize + Low(w) = w
<1>1. ByteSize \in Nat /\ ByteSize > 1 /\ w \in Nat /\ w < ByteSize * ByteSize
  BY SizeAssumption DEF Word, WordSize
<1>2. /\ w \div ByteSize \in Nat
      /\ w % ByteSize \in 0 .. ByteSize - 1
      /\ w = ByteSize * (w \div ByteSize) + (w % ByteSize)
  BY <1>1
<1>3. w \div ByteSize < ByteSize
  <2> DEFINE q == w \div ByteSize
             r == w % ByteSize
             b == ByteSize
  <2>1. q \in Nat /\ r \in Nat /\ b \in Nat /\ b * q + r < b * b
    BY <1>1, <1>2
  <2> HIDE DEF q, r, b
  <2>2. q < b
    BY <2>1
  <2> QED BY <2>2 DEF q, b
<1> QED BY <1>1, <1>2, <1>3 DEF High, Low, Byte

\* Addresses wrap around into a word.
LEMMA WordWraps ==
    ASSUME NEW n \in Int
    PROVE  n % WordSize \in Word
<1>1. WordSize \in Nat /\ WordSize > 0
  BY SizeAssumption DEF WordSize
<1> QED BY <1>1 DEF Word

LEMMA WordConstants ==
    /\ WordSize \in Nat /\ WordSize > 1
    /\ 0 \in Word
    /\ 0 \in Byte
BY SizeAssumption DEF WordSize, Word, Byte

-------------------------------------------------------------------------------
(* Types.                                                                  *)

MemoryType == [ram : [Ram -> Byte], enable : SUBSET RegisterBit, flag : SUBSET RegisterBit]

LEMMA WrittenType ==
    ASSUME NEW m \in MemoryType, NEW a, NEW b \in Byte
    PROVE  Written(m, a, b) \in MemoryType
<1>1. BitsOf[b] \in SUBSET RegisterBit
  BY MapAssumption
<1>2. /\ [x \in Ram |-> IF x = a THEN b ELSE m.ram[x]] \in [Ram -> Byte]
      /\ (IF a = IeAddress THEN BitsOf[b] ELSE m.enable) \in SUBSET RegisterBit
      /\ (IF a = IfAddress THEN BitsOf[b] ELSE m.flag) \in SUBSET RegisterBit
  BY <1>1 DEF MemoryType
<1> QED BY <1>2 DEF Written, MemoryType

LEMMA PushedType ==
    ASSUME TypeOK, NEW w \in Word
    PROVE  Pushed(w) \in MemoryType
<1>1. Memory \in MemoryType
  BY DEF TypeOK, Memory, MemoryType
<1>2. High(w) \in Byte /\ Low(w) \in Byte
  BY WordBytes
<1>3. Written(Memory, (sp - 1) % WordSize, High(w)) \in MemoryType
  BY <1>1, <1>2, WrittenType
<1> QED BY <1>2, <1>3, WrittenType DEF Pushed

\* A push leaves ram, sp and the interrupt registers in their range.
LEMMA PushType ==
    ASSUME TypeOK, NEW w \in Word, Push(w)
    PROVE  /\ ram' \in [Ram -> Byte]
           /\ sp' \in Word
           /\ interrupt_enable' \subseteq RegisterBit
           /\ Pushed(w).flag \subseteq RegisterBit
<1>1. Pushed(w) \in MemoryType
  BY PushedType
<1>2. sp - 2 \in Int
  BY WordConstants DEF TypeOK, Word
<1>3. sp' \in Word
  BY <1>2, WordWraps DEF Push
<1> QED BY <1>1, <1>3 DEF Push, Store, MemoryType

\* Reading an instruction leaves pc in its range.
LEMMA AfterType ==
    ASSUME TypeOK, NEW n \in Nat
    PROVE  After(n) \in Word
<1>1. pc + n - (IF halt_bug_no_step_mode_ THEN 1 ELSE 0) \in Int
  BY WordConstants DEF TypeOK, Word
<1> QED BY <1>1, WordWraps DEF After

LEMMA CheckType ==
    ASSUME TypeOK, CheckInterrupts
    PROVE  TypeOK'
<1>1. at' \in {"check", "execute", "devices"} /\ cycles' \in Nat
  BY DEF CheckInterrupts, NothingFired, Dispatch, PushForNothing, Wake, EnterFetch, TypeOK
<1>2. CASE NothingFired
  BY <1>1, <1>2 DEF NothingFired, TypeOK, registers
<1>3. ASSUME NEW i \in Interrupt, Dispatch(i) PROVE TypeOK'
  <2>1. pc \in Word /\ Push(pc)
    BY <1>3 DEF Dispatch, TypeOK
  <2>2. Vector[i] \in Word
    BY MapAssumption
  <2> QED BY <1>1, <1>3, <2>1, <2>2, PushType DEF Dispatch, TypeOK
<1>4. CASE PushForNothing
  <2>1. pc \in Word /\ Push(pc)
    BY <1>4 DEF PushForNothing, TypeOK
  <2> QED BY <1>1, <1>4, <2>1, PushType DEF PushForNothing, TypeOK
<1>5. CASE Wake
  BY <1>1, <1>5 DEF Wake, TypeOK, registers
<1> QED BY <1>2, <1>3, <1>4, <1>5 DEF CheckInterrupts

\* An instruction that ends with c cycles leaves its bookkeeping in range.
LEMMA DoneType ==
    ASSUME NEW c \in Nat, Done(c)
    PROVE  /\ at' \in {"check", "execute", "devices"}
           /\ halt_bug_no_step_mode_' \in BOOLEAN
           /\ cycles' \in Nat
BY DEF Done

LEMMA CostType ==
    ASSUME NEW kind \in Branch, NEW taken \in BOOLEAN
    PROVE  Cost(kind, taken) \in Nat /\ LENGTHS[kind] \in Nat
<1>1. Cost(kind, taken) \in Nat
  BY DEF Cost, CYCLES, Branch, Jumps, Calls, Returns
<1>2. LENGTHS[kind] \in Nat
  BY DEF LENGTHS, Branch, Jumps, Calls, Returns
<1> QED BY <1>1, <1>2

\* The instructions that store: any change of memory that Written makes.
LEMMA StoreType ==
    ASSUME TypeOK, NEW m \in MemoryType, NEW c \in Nat, NEW n \in Nat,
           Done(c), pc' = After(n), Store(m), interrupt_flag' = m.flag,
           UNCHANGED <<sp, interrupt_master_enable, halted_>>
    PROVE  TypeOK'
BY DoneType, AfterType DEF TypeOK, Store, MemoryType

LEMMA OrdinaryType ==
    ASSUME TypeOK, OrdinaryInstruction
    PROVE  TypeOK'
<1>a. Memory \in MemoryType
  BY DEF TypeOK, Memory, MemoryType
<1>b. PlainCycles \subseteq Nat
  BY MapAssumption
<1>1. ASSUME NEW length \in 1 .. 3, NEW c \in PlainCycles, Compute(length, c) PROVE TypeOK'
  BY <1>1, <1>b, DoneType, AfterType DEF Compute, TypeOK
<1>2. ASSUME NEW length \in 1 .. 3, NEW c \in PlainCycles, NEW a, NEW b \in Byte,
             StoreByte(length, c, a, b)
      PROVE  TypeOK'
  <2>1. Written(Memory, a, b) \in MemoryType
    BY <1>a, WrittenType
  <2> QED BY <1>2, <1>b, <2>1, StoreType DEF StoreByte
<1>3. CASE Illegal
  BY <1>3, DoneType, AfterType DEF Illegal, TypeOK
<1>4. ASSUME NEW a \in Word, StoreSp(a) PROVE TypeOK'
  <2>1. High(sp) \in Byte /\ Low(sp) \in Byte
    BY WordBytes DEF TypeOK
  <2>2. Written(Memory, a, Low(sp)) \in MemoryType
    BY <1>a, <2>1, WrittenType
  <2>3. Written(Written(Memory, a, Low(sp)), (a + 1) % WordSize, High(sp)) \in MemoryType
    BY <2>1, <2>2, WrittenType
  <2> QED BY <1>4, <2>3, StoreType DEF StoreSp
<1>5. ASSUME NEW w \in Word, PushRegister(w) PROVE TypeOK'
  <2>1. Push(w) /\ Done(4)
    BY <1>5 DEF PushRegister
  <2> QED BY <1>5, <2>1, PushType, DoneType, AfterType DEF PushRegister, TypeOK
<1>6. CASE PopRegister
  <2>1. sp' = (sp + 2) % WordSize
    BY <1>6 DEF PopRegister, Pop
  <2>2. sp' \in Word
    BY <2>1, WordWraps DEF TypeOK, Word
  <2> QED BY <1>6, <2>2, DoneType, AfterType DEF PopRegister, TypeOK
<1>7. ASSUME NEW kind \in Conditional, NotTaken(kind) PROVE TypeOK'
  <2>1. Cost(kind, FALSE) \in Nat /\ LENGTHS[kind] \in Nat
    BY CostType DEF Conditional, Branch, Jumps, Calls, Returns
  <2> QED BY <1>7, <2>1, DoneType, AfterType DEF NotTaken, TypeOK
<1>8. ASSUME NEW kind \in Jumps, NEW target \in Word, Jump(kind, target) PROVE TypeOK'
  <2>1. Cost(kind, TRUE) \in Nat
    BY CostType DEF Branch
  <2> QED BY <1>8, <2>1, DoneType DEF Jump, TypeOK
<1>9. ASSUME NEW kind \in Calls, NEW target \in Word, Call(kind, target) PROVE TypeOK'
  <2>1. Cost(kind, TRUE) \in Nat /\ LENGTHS[kind] \in Nat
    BY CostType DEF Branch
  <2>2. After(LENGTHS[kind]) \in Word
    BY <2>1, AfterType
  <2>3. Push(After(LENGTHS[kind])) /\ Done(Cost(kind, TRUE))
    BY <1>9 DEF Call
  <2> QED BY <1>9, <2>1, <2>2, <2>3, PushType, DoneType DEF Call, TypeOK
<1>10. ASSUME NEW kind \in Returns, Return(kind) PROVE TypeOK'
  <2>1. Cost(kind, TRUE) \in Nat
    BY CostType DEF Branch
  <2>2. pc' \in Word /\ sp' = (sp + 2) % WordSize
    BY <1>10 DEF Return, Pop
  <2>3. sp' \in Word
    BY <2>2, WordWraps DEF TypeOK, Word
  <2> QED BY <1>10, <2>1, <2>2, <2>3, DoneType DEF Return, TypeOK
<1>11. CASE Halt
  BY <1>11, DoneType, AfterType DEF Halt, TypeOK
<1>12. ASSUME NEW on \in BOOLEAN, SetMasterEnable(on) PROVE TypeOK'
  BY <1>12, DoneType, AfterType DEF SetMasterEnable, TypeOK
<1>13. RstTargets \subseteq Word /\ "rst" \in Calls
  BY MapAssumption DEF Calls
<1> QED
  BY <1>1, <1>2, <1>3, <1>4, <1>5, <1>6, <1>7, <1>8, <1>9, <1>10, <1>11, <1>12, <1>13
  DEF OrdinaryInstruction, StraightInstruction, BranchInstruction

LEMMA DevicesType ==
    ASSUME TypeOK, Devices
    PROVE  TypeOK'
<1>1. Requests \subseteq RegisterBit
  BY MapAssumption DEF Interrupt, RegisterBit, VBLANK, LCD_STAT, TIMER, SERIAL, JOYPAD
<1> QED BY <1>1 DEF Devices, TypeOK

LEMMA LoadSpType ==
    ASSUME TypeOK, NEW w \in Word, LoadSp(w)
    PROVE  TypeOK'
BY DoneType, AfterType DEF LoadSp, TypeOK

\* Whatever the program does, pc and sp are words, memory holds bytes and the
\* interrupt registers hold their eight bits: every wrap of pc and sp in
\* push(), pop() and next_byte() is accounted for.
THEOREM TypeCorrect == Spec => []TypeOK
<1>1. Init => TypeOK
  <2> SUFFICES ASSUME Init PROVE TypeOK
    OBVIOUS
  <2>1. ram \in [Ram -> Byte]
    BY WordConstants DEF Init
  <2>2. pc \in Word /\ sp \in Word
    BY WordConstants DEF Init
  <2> QED BY <2>1, <2>2 DEF Init, TypeOK
<1>2. TypeOK /\ [Next]_vars => TypeOK'
  <2> SUFFICES ASSUME TypeOK, [Next]_vars PROVE TypeOK'
    OBVIOUS
  <2>1. CASE UNCHANGED vars
    BY <2>1 DEF vars, registers, TypeOK
  <2>2. CASE Next
    BY <2>2, CheckType, OrdinaryType, LoadSpType, DevicesType DEF Next
  <2> QED BY <2>1, <2>2
<1> QED BY <1>1, <1>2, PTL DEF Spec

-------------------------------------------------------------------------------
(* The stack, byte by byte.                                                *)

\* The addresses below a word, around the end of memory.
LEMMA BelowWord ==
    ASSUME NEW s \in Word
    PROVE  /\ (s - 1) % WordSize = IF s = 0 THEN WordSize - 1 ELSE s - 1
           /\ (s - 2) % WordSize = IF s < 2 THEN WordSize + s - 2 ELSE s - 2
           /\ (s + 1) % WordSize = IF s = WordSize - 1 THEN 0 ELSE s + 1
<1>1. WordSize \in Nat /\ WordSize > 1 /\ s \in 0 .. WordSize - 1
  BY WordConstants DEF Word
<1> DEFINE z == WordSize
<1>2. z \in Nat /\ z > 1 /\ s \in 0 .. z - 1
  BY <1>1
<1> HIDE DEF z
<1>3. (s - 1) % z = IF s = 0 THEN z - 1 ELSE s - 1
  BY <1>2
<1>4. (s - 2) % z = IF s < 2 THEN z + s - 2 ELSE s - 2
  BY <1>2
<1>5. (s + 1) % z = IF s = z - 1 THEN 0 ELSE s + 1
  BY <1>2
<1> QED BY <1>3, <1>4, <1>5 DEF z

LEMMA StackAddresses ==
    ASSUME NEW s \in Word
    PROVE  /\ (s - 1) % WordSize \in Word
           /\ (s - 2) % WordSize \in Word
           /\ (s - 1) % WordSize # (s - 2) % WordSize
           /\ (((s - 2) % WordSize) + 1) % WordSize = (s - 1) % WordSize
<1> DEFINE z == WordSize
           t == (s - 2) % z
<1>1. z \in Nat /\ z > 1 /\ s \in 0 .. z - 1
  BY WordConstants DEF Word
<1>2. /\ (s - 1) % z = IF s = 0 THEN z - 1 ELSE s - 1
      /\ t = IF s < 2 THEN z + s - 2 ELSE s - 2
  BY BelowWord
<1>3. t \in Word
  BY <1>1, <1>2 DEF Word
<1>4. (t + 1) % z = IF t = z - 1 THEN 0 ELSE t + 1
  BY <1>3, BelowWord
<1> HIDE DEF z, t
<1>5. /\ (s - 1) % z \in 0 .. z - 1
      /\ (s - 1) % z # t
      /\ (t + 1) % z = (s - 1) % z
  BY <1>1, <1>2, <1>4
<1> QED BY <1>3, <1>5 DEF z, t, Word

\* What a push writes.
LEMMA PushedBytes ==
    ASSUME TypeOK, NEW w \in Word
    PROVE  /\ \A x \in Ram : Pushed(w).ram[x] = IF x = (sp - 2) % WordSize THEN Low(w)
                                                ELSE IF x = (sp - 1) % WordSize THEN High(w)
                                                ELSE ram[x]
           /\ IfAddress \notin {(sp - 1) % WordSize, (sp - 2) % WordSize}
              => Pushed(w).flag = interrupt_flag
           /\ IeAddress \notin {(sp - 1) % WordSize, (sp - 2) % WordSize}
              => Pushed(w).enable = interrupt_enable
BY DEF Pushed, Written, Memory

-------------------------------------------------------------------------------
(* Requests and the halt bug.                                              *)

LEMMA CheckHonours ==
    ASSUME TypeOK, CheckInterrupts, NEW i \in interrupt_flag \ interrupt_flag',
           IfAddress \notin {(sp - 1) % WordSize, (sp - 2) % WordSize}
    PROVE  /\ i \in interrupt_enable
           /\ \A j \in Interrupt : j < i => j \notin Fired
           /\ pc' = Vector[i]
           /\ ~interrupt_master_enable'
           /\ {(sp - 1) % WordSize, (sp - 2) % WordSize} \subseteq Ram
              => ram'[sp'] = Low(pc) /\ ram'[(sp' + 1) % WordSize] = High(pc)
<1>1. Pushed(pc).flag = interrupt_flag
  BY PushedBytes DEF TypeOK
<1>2. ~NothingFired /\ ~PushForNothing /\ ~Wake
  BY <1>1 DEF NothingFired, PushForNothing, Wake, registers
<1>3. PICK k \in Interrupt : Dispatch(k)
  BY <1>2 DEF CheckInterrupts
<1>4. i = k
  BY <1>1, <1>3 DEF Dispatch
<1>5. /\ i \in interrupt_enable
      /\ pc' = Vector[i]
      /\ ~interrupt_master_enable'
  BY <1>3, <1>4 DEF Dispatch, Fired
<1>6. \A j \in Interrupt : j < i => j \notin Fired
  <2>1. i \in Int /\ Interrupt \subseteq Int
    BY <1>4, <1>3 DEF Interrupt, VBLANK, LCD_STAT, TIMER, SERIAL, JOYPAD
  <2>2. \A j \in Fired \cap Interrupt : i <= j
    BY <1>3, <1>4 DEF Dispatch
  <2> QED BY <2>1, <2>2
<1>7. ASSUME {(sp - 1) % WordSize, (sp - 2) % WordSize} \subseteq Ram
      PROVE  ram'[sp'] = Low(pc) /\ ram'[(sp' + 1) % WordSize] = High(pc)
  <2>1. sp' = (sp - 2) % WordSize /\ ram' = Pushed(pc).ram
    BY <1>3 DEF Dispatch, Push, Store
  <2>2. /\ (sp - 1) % WordSize # (sp - 2) % WordSize
        /\ (sp' + 1) % WordSize = (sp - 1) % WordSize
    BY <2>1, StackAddresses DEF TypeOK
  <2>3. pc \in Word
    BY DEF TypeOK
  <2> QED BY <1>7, <2>1, <2>2, <2>3, PushedBytes
<1> QED BY <1>5, <1>6, <1>7

\* No device's request is ever lost: it stays in the flag register until its
\* handler is entered, in order of priority and with the way back on the
\* stack, or until the program itself stores there.
THEOREM NoRequestLost == Spec => RequestsHonoured
<1>1. TypeOK /\ [Next]_vars =>
        [\A i \in interrupt_flag \ interrupt_flag' :
           \/ at = "execute"
           \/ IfAddress \in {(sp - 1) % WordSize, (sp - 2) % WordSize}
           \/ /\ i \in interrupt_enable
              /\ \A j \in Interrupt : j < i => j \notin Fired
              /\ pc' = Vector[i]
              /\ ~interrupt_master_enable'
              /\ {(sp - 1) % WordSize, (sp - 2) % WordSize} \subseteq Ram
                 => ram'[sp'] = Low(pc) /\ ram'[(sp' + 1) % WordSize] = High(pc)]_vars
  <2> SUFFICES ASSUME TypeOK, Next, at # "execute",
                      NEW i \in interrupt_flag \ interrupt_flag',
                      IfAddress \notin {(sp - 1) % WordSize, (sp - 2) % WordSize}
               PROVE  /\ i \in interrupt_enable
                      /\ \A j \in Interrupt : j < i => j \notin Fired
                      /\ pc' = Vector[i]
                      /\ ~interrupt_master_enable'
                      /\ {(sp - 1) % WordSize, (sp - 2) % WordSize} \subseteq Ram
                         => ram'[sp'] = Low(pc) /\ ram'[(sp' + 1) % WordSize] = High(pc)
    OBVIOUS
  <2>1. ~Devices
    BY DEF Devices
  <2>2. ~OrdinaryInstruction /\ ~\E w \in Word : LoadSp(w)
    BY DEF OrdinaryInstruction, StraightInstruction, BranchInstruction, Compute, StoreByte,
           Illegal, StoreSp, PushRegister, PopRegister,
           NotTaken, Jump, Call, Return, Halt, SetMasterEnable, LoadSp, Done
  <2>3. CheckInterrupts
    BY <2>1, <2>2 DEF Next
  <2> QED BY <2>3, CheckHonours
<1> QED BY <1>1, TypeCorrect, PTL DEF Spec, RequestsHonoured

\* The inductive invariant: the flag is set by a wake only, so it must be known
\* that nothing executes while the processor sleeps.
HaltInv == HaltBugIsShortLived /\ (at = "execute" => ~halted_)

\* It holds whatever the program executes.
LEMMA HaltInvariant == Spec => []HaltInv
<1>1. Init => HaltInv
  BY DEF Init, HaltInv, HaltBugIsShortLived
<1>2. TypeOK /\ HaltInv /\ [Next]_vars => HaltInv'
  <2> SUFFICES ASSUME TypeOK, HaltInv, [Next]_vars PROVE HaltInv'
    OBVIOUS
  <2>1. CASE UNCHANGED vars
    BY <2>1 DEF vars, registers, HaltInv, HaltBugIsShortLived
  <2>2. CASE CheckInterrupts
    BY <2>2 DEF CheckInterrupts, NothingFired, Dispatch, PushForNothing, Wake, EnterFetch,
                registers, HaltInv, HaltBugIsShortLived, TypeOK
  <2>3. CASE OrdinaryInstruction \/ \E w \in Word : LoadSp(w)
    <3>1. at' = "devices" /\ ~halt_bug_no_step_mode_'
      BY <2>3 DEF OrdinaryInstruction, StraightInstruction, BranchInstruction, Compute,
                  StoreByte, Illegal, StoreSp, PushRegister,
                  PopRegister, NotTaken, Jump, Call, Return, Halt, SetMasterEnable, LoadSp, Done
    <3> QED BY <3>1 DEF HaltInv, HaltBugIsShortLived
  <2>4. CASE Devices
    BY <2>4 DEF Devices, HaltInv, HaltBugIsShortLived
  <2> QED BY <2>1, <2>2, <2>3, <2>4 DEF Next
<1> QED BY <1>1, <1>2, TypeCorrect, PTL DEF Spec

\* cpu.cc:386-401: the halt bug repeats the byte after the HALT and no other.
THEOREM HaltBugPasses == Spec => []HaltBugIsShortLived
<1>1. HaltInv => HaltBugIsShortLived
  BY DEF HaltInv
<1> QED BY <1>1, HaltInvariant, PTL

\* cpu.cc:302-307, 355-391: a halted processor executes nothing, and one with an
\* enabled request is at most two steps from waking: the request stays while
\* the devices have their ticks, and the next check ends the halt, whether
\* interrupts are enabled or not and whichever bit is set.
THEOREM HaltEnds ==
    Spec => /\ [](at = "execute" => ~halted_)
            /\ [][halted_ /\ Fired # {} =>
                     \/ at = "check" /\ ~halted_'
                     \/ at = "devices" /\ at' = "check" /\ halted_' /\ Fired \subseteq Fired']_vars
<1>1. HaltInv => (at = "execute" => ~halted_)
  BY DEF HaltInv
<1>2. TypeOK /\ HaltInv /\ [Next]_vars =>
        [halted_ /\ Fired # {} =>
           \/ at = "check" /\ ~halted_'
           \/ at = "devices" /\ at' = "check" /\ halted_' /\ Fired \subseteq Fired']_vars
  <2> SUFFICES ASSUME TypeOK, HaltInv, Next, halted_, Fired # {}
               PROVE  \/ at = "check" /\ ~halted_'
                      \/ at = "devices" /\ at' = "check" /\ halted_' /\ Fired \subseteq Fired'
    OBVIOUS
  <2>1. CASE CheckInterrupts
    BY <2>1 DEF CheckInterrupts, NothingFired, Dispatch, PushForNothing, Wake, EnterFetch
  <2>2. CASE OrdinaryInstruction \/ \E w \in Word : LoadSp(w)
    <3>1. at = "execute"
      BY <2>2 DEF OrdinaryInstruction, StraightInstruction, BranchInstruction, Compute,
                  StoreByte, Illegal, StoreSp, PushRegister,
                  PopRegister, NotTaken, Jump, Call, Return, Halt, SetMasterEnable, LoadSp, Done
    <3> QED BY <3>1 DEF HaltInv
  <2>3. CASE Devices
    BY <2>3 DEF Devices, Fired
  <2> QED BY <2>1, <2>2, <2>3 DEF Next
<1> QED BY <1>1, <1>2, HaltInvariant, TypeCorrect, PTL DEF Spec

-------------------------------------------------------------------------------
(* The stack of a program that keeps it in order.                          *)

\* The inductive invariant: what a step of CallStack needs to know.
StackInv == TypeOK /\ StackInStep

\* The stack is far enough from the ends of memory for sp not to wrap in it.
LEMMA StackRange ==
    ASSUME StackInv
    PROVE  /\ sp \in Int /\ Top \in Int /\ Bottom \in Int
           /\ 2 <= Bottom /\ Bottom <= sp /\ sp <= Top /\ Top < WordSize
           /\ (sp - 1) % WordSize = sp - 1
           /\ (sp - 2) % WordSize = sp - 2
           /\ sp < Top => (sp + 1) % WordSize = sp + 1
           /\ (sp + 2) % WordSize \in Bottom .. Top => (sp + 2) % WordSize = sp + 2 /\ sp + 2 <= Top
<1>1. /\ sp \in Int /\ Top \in Int /\ Bottom \in Int
      /\ 2 <= Bottom /\ Bottom <= sp /\ sp <= Top /\ Top < WordSize
  BY StackAssumption, WordConstants DEF StackInv, StackInStep, Word
<1>2. sp \in Word
  BY DEF StackInv, TypeOK
<1>3. /\ (sp - 1) % WordSize = sp - 1
      /\ (sp - 2) % WordSize = sp - 2
      /\ sp < Top => (sp + 1) % WordSize = sp + 1
  <2> DEFINE z == WordSize
             down1 == (sp - 1) % z
             down2 == (sp - 2) % z
             up1   == (sp + 1) % z
  <2>1. /\ down1 = IF sp = 0 THEN z - 1 ELSE sp - 1
        /\ down2 = IF sp < 2 THEN z + sp - 2 ELSE sp - 2
        /\ up1 = IF sp = z - 1 THEN 0 ELSE sp + 1
    BY <1>2, BelowWord
  <2>2. z \in Int /\ Top < z
    BY <1>1, WordConstants
  <2> HIDE DEF z, down1, down2, up1
  <2>3. down1 = sp - 1 /\ down2 = sp - 2 /\ (sp < Top => up1 = sp + 1)
    BY <1>1, <2>1, <2>2
  <2> QED BY <2>3 DEF z, down1, down2, up1
<1>4. ASSUME (sp + 2) % WordSize \in Bottom .. Top
      PROVE  (sp + 2) % WordSize = sp + 2 /\ sp + 2 <= Top
  <2> DEFINE z == WordSize
             n == sp + 2
  <2>1. z \in Nat /\ z > 1 /\ n \in Int /\ n >= 0 /\ n < z + 2 /\ n >= Bottom + 2
    BY <1>1, WordConstants
  <2>2. n % z \in Bottom .. Top
    BY <1>4
  <2> HIDE DEF z, n
  <2>3. n % z = IF n >= z THEN n - z ELSE n
    BY <2>1
  <2>4. n % z = n
    BY <1>1, <2>1, <2>2, <2>3
  <2> QED BY <2>2, <2>4 DEF z, n
<1> QED BY <1>1, <1>3, <1>4

\* A whole number of words is on the stack.
LEMMA StackDepth ==
    ASSUME StackInv
    PROVE  \E d \in Nat : Top - sp = 2 * d
<1> DEFINE d == (Top - sp) \div 2
<1>1. sp \in Int /\ Top \in Int /\ sp <= Top /\ (Top - sp) % 2 = 0
  BY StackRange DEF StackInv, StackInStep
<1>2. d \in Nat /\ Top - sp = 2 * d
  BY <1>1
<1> QED BY <1>2

\* The words of the stack, for any memory and any sp.
FramesOf(m, s) ==
    [n \in 1 .. (Top - s) \div 2 |-> m[Top - 2 * n + 1] * ByteSize + m[Top - 2 * n]]

\* They are a sequence, of the bytes at sp and above.
LEMMA FramesOfType ==
    ASSUME NEW m \in [Ram -> Byte], NEW s \in Bottom .. Top, NEW d \in Nat, Top - s = 2 * d
    PROVE  /\ FramesOf(m, s) \in Seq(Int)
           /\ Len(FramesOf(m, s)) = d
           /\ \A n \in 1 .. d :
                /\ Top - 2 * n \in s .. Top - 1 /\ Top - 2 * n \in Ram
                /\ Top - 2 * n + 1 \in s .. Top - 1 /\ Top - 2 * n + 1 \in Ram
                /\ FramesOf(m, s)[n] = m[Top - 2 * n + 1] * ByteSize + m[Top - 2 * n]
<1>1. Top \in Int /\ Bottom \in Int /\ s \in Int /\ Bottom <= s
  BY StackAssumption, WordConstants DEF Word
<1>2. (Top - s) \div 2 = d
  BY <1>1
<1>3. \A n \in 1 .. d : Top - 2 * n \in s .. Top - 1 /\ Top - 2 * n + 1 \in s .. Top - 1
  BY <1>1
<1>4. \A n \in 1 .. d : Top - 2 * n \in Ram /\ Top - 2 * n + 1 \in Ram
  <2>1. s .. Top - 1 \subseteq Ram
    BY <1>1, StackAssumption
  <2> QED BY <1>3, <2>1
<1>5. \A n \in 1 .. d : FramesOf(m, s)[n] = m[Top - 2 * n + 1] * ByteSize + m[Top - 2 * n]
  BY <1>2 DEF FramesOf
<1>6. FramesOf(m, s) \in [1 .. d -> Int]
  <2>1. \A a \in Ram : m[a] \in Int
    BY SizeAssumption DEF Byte
  <2>2. \A n \in 1 .. d : m[Top - 2 * n + 1] * ByteSize + m[Top - 2 * n] \in Int
    BY <1>4, <2>1, SizeAssumption
  <2> QED BY <1>2, <2>2 DEF FramesOf
<1>7. FramesOf(m, s) \in Seq(Int) /\ Len(FramesOf(m, s)) = d
  BY <1>6
<1> QED BY <1>3, <1>4, <1>5, <1>7

\* A word pushed below the stack is appended to it.
LEMMA FramesOfPush ==
    ASSUME NEW m \in [Ram -> Byte], NEW q \in [Ram -> Byte],
           NEW s \in Bottom .. Top, s - 2 >= Bottom, NEW d \in Nat, Top - s = 2 * d,
           NEW w \in Word, q[s - 2] = Low(w), q[s - 1] = High(w),
           \A a \in Ram : s <= a => q[a] = m[a]
    PROVE  FramesOf(q, s - 2) = Append(FramesOf(m, s), w)
<1> DEFINE F == FramesOf(m, s)
           G == FramesOf(q, s - 2)
<1>1. Top \in Int /\ Bottom \in Int /\ s \in Int
  BY StackAssumption, WordConstants DEF Word
<1>2. /\ F \in Seq(Int)
      /\ Len(F) = d
      /\ \A n \in 1 .. d :
           /\ Top - 2 * n \in s .. Top - 1 /\ Top - 2 * n \in Ram
           /\ Top - 2 * n + 1 \in s .. Top - 1 /\ Top - 2 * n + 1 \in Ram
           /\ F[n] = m[Top - 2 * n + 1] * ByteSize + m[Top - 2 * n]
  BY FramesOfType
<1>3. /\ G \in Seq(Int)
      /\ Len(G) = d + 1
      /\ \A n \in 1 .. d + 1 : G[n] = q[Top - 2 * n + 1] * ByteSize + q[Top - 2 * n]
  <2> DEFINE t == s - 2
             c == d + 1
  <2>1. t \in Bottom .. Top /\ c \in Nat /\ Top - t = 2 * c
    BY <1>1
  <2> HIDE DEF t, c, F, G
  <2>2. /\ FramesOf(q, t) \in Seq(Int)
        /\ Len(FramesOf(q, t)) = c
        /\ \A n \in 1 .. c :
             FramesOf(q, t)[n] = q[Top - 2 * n + 1] * ByteSize + q[Top - 2 * n]
    BY <2>1, FramesOfType
  <2>3. G = FramesOf(q, t)
    BY DEF G, t
  <2>4. c = d + 1
    BY DEF c
  <2> QED BY <2>2, <2>3, <2>4
<1>4. \A n \in 1 .. d : G[n] = F[n]
  <2> SUFFICES ASSUME NEW n \in 1 .. d PROVE G[n] = F[n]
    OBVIOUS
  <2> DEFINE x == Top - 2 * n
  <2>0. x \in s .. Top - 1 /\ x \in Ram /\ x + 1 \in s .. Top - 1 /\ x + 1 \in Ram
    BY <1>2
  <2>1. q[x] = m[x] /\ q[x + 1] = m[x + 1]
    <3> HIDE DEF x
    <3>1. s <= x /\ s <= x + 1
      BY <1>1, <2>0
    <3> QED BY <2>0, <3>1
  <2>2. G[n] = q[Top - 2 * n + 1] * ByteSize + q[Top - 2 * n]
    BY <1>3
  <2> HIDE DEF F, G
  <2> QED BY <1>2, <2>1, <2>2
<1>5. G[d + 1] = w
  <2>1. Top - 2 * (d + 1) = s - 2 /\ Top - 2 * (d + 1) + 1 = s - 1
    BY <1>1
  <2>2. G[d + 1] = q[s - 1] * ByteSize + q[s - 2]
    BY <1>3, <2>1
  <2> QED BY <2>2, WordBytes
<1>6. w \in Int
  BY WordConstants DEF Word
<1> HIDE DEF F, G
<1>7. /\ Append(F, w) \in Seq(Int)
      /\ Len(Append(F, w)) = d + 1
      /\ \A n \in 1 .. d : Append(F, w)[n] = F[n]
      /\ Append(F, w)[d + 1] = w
  BY <1>2, <1>6, AppendProperties
<1>8. \A n \in 1 .. d + 1 : G[n] = Append(F, w)[n]
  <2>1. \A n \in 1 .. d + 1 : n \in 1 .. d \/ n = d + 1
    OBVIOUS
  <2> QED BY <1>4, <1>5, <1>7, <2>1
<1>9. G = Append(F, w)
  BY <1>3, <1>7, <1>8, SeqEqual
<1> QED BY <1>9 DEF F, G

\* The word at sp is the last; without it the stack is the one above it.
LEMMA FramesOfPop ==
    ASSUME NEW m \in [Ram -> Byte],
           NEW s \in Bottom .. Top, s + 2 <= Top, NEW d \in Nat, Top - s = 2 * d,
           NEW w \in Word, m[s] = Low(w), m[s + 1] = High(w)
    PROVE  /\ FramesOf(m, s) # <<>>
           /\ FramesOf(m, s)[Len(FramesOf(m, s))] = w
           /\ FramesOf(m, s + 2) = SubSeq(FramesOf(m, s), 1, Len(FramesOf(m, s)) - 1)
<1> DEFINE F == FramesOf(m, s)
           G == FramesOf(m, s + 2)
<1>1. Top \in Int /\ Bottom \in Int /\ s \in Int /\ d >= 1
  BY StackAssumption, WordConstants DEF Word
<1>2. /\ F \in Seq(Int)
      /\ Len(F) = d
      /\ \A n \in 1 .. d : F[n] = m[Top - 2 * n + 1] * ByteSize + m[Top - 2 * n]
  BY FramesOfType
<1>3. /\ G \in Seq(Int)
      /\ Len(G) = d - 1
      /\ \A n \in 1 .. d - 1 : G[n] = m[Top - 2 * n + 1] * ByteSize + m[Top - 2 * n]
  <2> DEFINE t == s + 2
             c == d - 1
  <2>1. t \in Bottom .. Top /\ c \in Nat /\ Top - t = 2 * c
    BY <1>1
  <2> HIDE DEF t, c, F, G
  <2>2. /\ FramesOf(m, t) \in Seq(Int)
        /\ Len(FramesOf(m, t)) = c
        /\ \A n \in 1 .. c :
             FramesOf(m, t)[n] = m[Top - 2 * n + 1] * ByteSize + m[Top - 2 * n]
    BY <2>1, FramesOfType
  <2>3. G = FramesOf(m, t)
    BY DEF G, t
  <2>4. c = d - 1
    BY DEF c
  <2> QED BY <2>2, <2>3, <2>4
<1>4. F[d] = w
  <2>1. Top - 2 * d = s /\ Top - 2 * d + 1 = s + 1
    BY <1>1
  <2>2. F[d] = m[s + 1] * ByteSize + m[s]
    BY <1>1, <1>2, <2>1
  <2> QED BY <2>2, WordBytes
<1>5. \A n \in 1 .. d - 1 : G[n] = F[n]
  <2> SUFFICES ASSUME NEW n \in 1 .. d - 1 PROVE G[n] = F[n]
    OBVIOUS
  <2>1. n \in 1 .. d
    BY <1>1
  <2> HIDE DEF F, G
  <2> QED BY <1>2, <1>3, <2>1
<1> HIDE DEF F, G
<1>6. /\ SubSeq(F, 1, d - 1) \in Seq(Int)
      /\ Len(SubSeq(F, 1, d - 1)) = d - 1
      /\ \A n \in 1 .. d - 1 : SubSeq(F, 1, d - 1)[n] = F[n]
  <2>1. \A n \in 1 .. d - 1 : F[n] \in Int
    BY <1>2, ElementOfSeq
  <2>2. /\ SubSeq(F, 1, d - 1) \in Seq(Int)
        /\ Len(SubSeq(F, 1, d - 1)) = IF 1 <= d - 1 THEN d - 1 - 1 + 1 ELSE 0
        /\ \A n \in 1 .. d - 1 - 1 + 1 : SubSeq(F, 1, d - 1)[n] = F[1 + n - 1]
    BY <1>1, <2>1, SubSeqProperties
  <2> QED BY <1>1, <2>2
<1>7. G = SubSeq(F, 1, d - 1)
  BY <1>3, <1>5, <1>6, SeqEqual
<1>8. F # <<>>
  BY <1>1, <1>2
<1> QED BY <1>2, <1>4, <1>7, <1>8 DEF F, G

-------------------------------------------------------------------------------
(* The invariant.                                                          *)

LEMMA FramesAre == Frames = FramesOf(ram, sp) /\ Frames' = FramesOf(ram', sp')
BY DEF Frames, FramesOf

\* How a step may change the stack, with the words CallStack sees.
LEMMA PushAppends ==
    ASSUME StackInv, NEW w \in Word, Push(w), sp' \in Bottom .. Top
    PROVE  /\ sp' = sp - 2
           /\ interrupt_enable' = interrupt_enable
           /\ Pushed(w).flag = interrupt_flag
           /\ Frames' = Append(Frames, w)
<1>1. /\ sp' = sp - 2
      /\ ram' = Pushed(w).ram /\ interrupt_enable' = Pushed(w).enable
      /\ (sp - 1) % WordSize = sp - 1
      /\ (sp - 2) % WordSize = sp - 2
  BY StackRange DEF Push, Store
<1>2. /\ sp \in Int /\ Top \in Int /\ Bottom \in Int
      /\ sp \in Bottom .. Top /\ sp - 2 >= Bottom
      /\ sp - 1 \in Ram /\ sp - 2 \in Ram
  <2>1. sp \in Int /\ Top \in Int /\ Bottom \in Int /\ sp \in Bottom .. Top /\ sp - 2 >= Bottom
    BY <1>1, StackRange
  <2> QED BY <2>1, StackAssumption
<1>3. IfAddress \notin {sp - 1, sp - 2} /\ IeAddress \notin {sp - 1, sp - 2}
  BY <1>2, MapAssumption
<1>4. \A x \in Ram : ram'[x] = IF x = sp - 2 THEN Low(w) ELSE IF x = sp - 1 THEN High(w) ELSE ram[x]
  BY <1>1, PushedBytes DEF StackInv
<1>5. Pushed(w).flag = interrupt_flag /\ interrupt_enable' = interrupt_enable
  BY <1>1, <1>3, PushedBytes DEF StackInv
<1>6. PICK d \in Nat : Top - sp = 2 * d
  BY StackDepth
<1>7. ram \in [Ram -> Byte] /\ ram' \in [Ram -> Byte]
  BY PushType DEF StackInv, TypeOK
<1>8. ram'[sp - 2] = Low(w) /\ ram'[sp - 1] = High(w)
  BY <1>2, <1>4
<1>9. \A a \in Ram : sp <= a => ram'[a] = ram[a]
  <2>1. Ram \subseteq Int
    BY MapAssumption, WordConstants DEF Word
  <2> QED BY <1>2, <1>4, <2>1
<1>10. FramesOf(ram', sp - 2) = Append(FramesOf(ram, sp), w)
  BY <1>2, <1>6, <1>7, <1>8, <1>9, FramesOfPush
<1> QED BY <1>1, <1>5, <1>10, FramesAre

LEMMA PopRemoves ==
    ASSUME StackInv, NEW w \in Word, Pop(w), sp' \in Bottom .. Top, ram' = ram
    PROVE  /\ sp' = sp + 2
           /\ Frames # <<>>
           /\ Frames[Len(Frames)] = w
           /\ Frames' = SubSeq(Frames, 1, Len(Frames) - 1)
<1>1. /\ sp' = sp + 2 /\ sp + 2 <= Top
      /\ (sp + 1) % WordSize = sp + 1
      /\ sp \in Int /\ Top \in Int /\ Bottom \in Int /\ sp \in Bottom .. Top
  <2>1. sp' = (sp + 2) % WordSize
    BY DEF Pop
  <2>2. /\ sp \in Int /\ Top \in Int /\ Bottom \in Int /\ sp \in Bottom .. Top
        /\ sp' = sp + 2 /\ sp + 2 <= Top
        /\ sp < Top => (sp + 1) % WordSize = sp + 1
    BY <2>1, StackRange
  <2> QED BY <2>2
<1>2. sp \in Ram /\ sp + 1 \in Ram
  BY <1>1, StackAssumption
<1>3. ram[sp] = Low(w) /\ ram[sp + 1] = High(w)
  BY <1>1, <1>2 DEF Pop, TopOfStack, CanRead
<1>4. PICK d \in Nat : Top - sp = 2 * d
  BY StackDepth
<1>5. ram \in [Ram -> Byte]
  BY DEF StackInv, TypeOK
<1>6. /\ FramesOf(ram, sp) # <<>>
      /\ FramesOf(ram, sp)[Len(FramesOf(ram, sp))] = w
      /\ FramesOf(ram, sp + 2) = SubSeq(FramesOf(ram, sp), 1, Len(FramesOf(ram, sp)) - 1)
  BY <1>1, <1>3, <1>4, <1>5, FramesOfPop
<1> QED BY <1>1, <1>6, FramesAre

\* What stays below sp may change; the words do not.
LEMMA LiveBytesKeep ==
    ASSUME StackInv, sp' = sp, \A a \in Ram : sp <= a /\ a < Top => ram'[a] = ram[a]
    PROVE  Frames' = Frames
<1>1. sp \in Int /\ Top \in Int /\ Bottom \in Int /\ sp \in Bottom .. Top
  BY StackRange
<1>2. PICK d \in Nat : Top - sp = 2 * d
  BY StackDepth
<1>3. ram \in [Ram -> Byte]
  BY DEF StackInv, TypeOK
<1>4. (Top - sp) \div 2 = d
  BY <1>1, <1>2
<1>5. \A n \in 1 .. d : /\ Top - 2 * n \in sp .. Top - 1 /\ Top - 2 * n \in Ram
                        /\ Top - 2 * n + 1 \in sp .. Top - 1 /\ Top - 2 * n + 1 \in Ram
  BY <1>1, <1>2, <1>3, FramesOfType
<1>6. \A a \in sp .. Top - 1 : a \in Ram => ram'[a] = ram[a]
  BY <1>1
<1>7. \A n \in 1 .. d : /\ ram'[Top - 2 * n + 1] = ram[Top - 2 * n + 1]
                        /\ ram'[Top - 2 * n] = ram[Top - 2 * n]
  BY <1>5, <1>6
<1>8. FramesOf(ram', sp) = FramesOf(ram, sp)
  BY <1>4, <1>7 DEF FramesOf
<1> QED BY <1>8, FramesAre

\* The words are looked at only through the lemmas above from here on.
StackStep == StackInStep' /\ [Stack!Next]_(Stack!cvars)

\* The tail of an instruction that leaves sp and the live bytes alone.
LEMMA RunStep ==
    ASSUME StackInv, sp' = sp, \A a \in Ram : sp <= a /\ a < Top => ram'[a] = ram[a],
           interrupt_enable' \subseteq Interrupt,
           interrupt_master_enable' => sp' - 2 >= Bottom
    PROVE  StackStep
<1>1. Frames' = Frames
  BY LiveBytesKeep
<1>2. Stack!Run
  BY <1>1 DEF Stack!Run
<1>3. StackInStep'
  BY DEF StackInv, StackInStep
<1> QED BY <1>2, <1>3 DEF StackStep, Stack!Next

LEMMA CheckStep ==
    ASSUME StackInv, CheckInterrupts
    PROVE  StackStep
<1>a. interrupt_enable \subseteq Interrupt /\ (interrupt_master_enable => sp - 2 >= Bottom)
  BY DEF StackInv, StackInStep
<1>1. CASE NothingFired \/ Wake
  <2>1. UNCHANGED registers
    BY <1>1 DEF NothingFired, Wake
  <2> QED BY <1>a, <2>1, RunStep DEF registers
<1>2. CASE PushForNothing
  BY <1>2, <1>a DEF PushForNothing, Fired
<1>3. ASSUME NEW i \in Interrupt, Dispatch(i) PROVE StackStep
  <2>1. /\ interrupt_master_enable /\ i \in Fired /\ Push(pc) /\ pc' = Vector[i]
        /\ interrupt_flag' = Pushed(pc).flag \ {i} /\ ~interrupt_master_enable'
    BY <1>3 DEF Dispatch
  <2>2. /\ sp \in Int /\ Top \in Int /\ Bottom \in Int /\ sp <= Top
        /\ sp' = sp - 2 /\ sp - 2 >= Bottom
    BY <1>a, <2>1, StackRange DEF Push
  <2>3. sp' \in Bottom .. Top
    BY <2>2
  <2>4. pc \in Word
    BY DEF StackInv, TypeOK
  <2>5. /\ interrupt_enable' = interrupt_enable
        /\ Pushed(pc).flag = interrupt_flag
        /\ Frames' = Append(Frames, pc)
    BY <2>1, <2>3, <2>4, PushAppends
  <2>6. (interrupt_flag \cap interrupt_enable)' = (interrupt_flag \cap interrupt_enable) \ {i}
    BY <2>1, <2>5
  <2>7. Stack!Serve(i)
    BY <2>1, <2>5, <2>6 DEF Stack!Serve, Fired
  <2>8. (Top - sp') % 2 = 0
    BY <2>2 DEF StackInv, StackInStep
  <2>9. StackInStep'
    BY <1>a, <2>1, <2>3, <2>5, <2>8 DEF StackInStep
  <2> QED BY <2>7, <2>9 DEF StackStep, Stack!Next
<1> QED BY <1>1, <1>2, <1>3 DEF CheckInterrupts

\* With the halt bug or without, the next instruction is at most three on.
LEMMA AfterIsBehind ==
    ASSUME TypeOK, NEW n \in 1 .. 3
    PROVE  After(n) \in Stack!Behind
<1> DEFINE k == IF halt_bug_no_step_mode_ THEN n - 1 ELSE n
<1>1. k \in 0 .. 3
  BY DEF TypeOK
<1>2. pc + n - (IF halt_bug_no_step_mode_ THEN 1 ELSE 0) = pc + k
  BY WordConstants DEF TypeOK, Word
<1>3. After(n) = (pc + k) % WordSize
  BY <1>2 DEF After
<1> HIDE DEF k
<1> QED BY <1>1, <1>3 DEF Stack!Behind

LEMMA SaveStep ==
    ASSUME StackInv, Discipline, NEW w \in Word, Push(w), interrupt_flag' = Pushed(w).flag,
           UNCHANGED interrupt_master_enable,
           pc' \in Stack!Behind \/ w \in Stack!Behind
    PROVE  StackStep
<1>1. sp' \in Bottom .. Top /\ sp \in Int /\ Top \in Int
  BY StackRange DEF Discipline
<1>2. sp' = sp - 2 /\ Frames' = Append(Frames, w)
  BY <1>1, PushAppends
<1>3. Stack!Save \/ Stack!Call
  BY <1>2 DEF Stack!Save, Stack!Call
<1>4. (Top - sp') % 2 = 0
  BY <1>1, <1>2 DEF StackInv, StackInStep
<1>5. StackInStep'
  BY <1>4 DEF Discipline, StackInStep
<1> QED BY <1>3, <1>5 DEF StackStep, Stack!Next

LEMMA RestoreStep ==
    ASSUME StackInv, Discipline, NEW w \in Word, Pop(w), ram' = ram,
           UNCHANGED <<interrupt_enable, interrupt_flag>>,
           \/ pc' \in Stack!Behind /\ UNCHANGED interrupt_master_enable
           \/ pc' = w /\ (interrupt_master_enable => interrupt_master_enable')
    PROVE  StackStep
<1>1. sp' \in Bottom .. Top /\ sp \in Int /\ Top \in Int
  BY StackRange DEF Discipline
<1>2. /\ sp' = sp + 2
      /\ Frames # <<>>
      /\ Frames[Len(Frames)] = w
      /\ Frames' = SubSeq(Frames, 1, Len(Frames) - 1)
  BY <1>1, PopRemoves
<1>3. Stack!Restore \/ Stack!Return
  BY <1>2 DEF Stack!Restore, Stack!Return
<1>4. (Top - sp') % 2 = 0
  BY <1>1, <1>2 DEF StackInv, StackInStep
<1>5. StackInStep'
  BY <1>4 DEF Discipline, StackInStep
<1> QED BY <1>3, <1>5 DEF StackStep, Stack!Next

\* RunStep, with what the program owes.
LEMMA DisciplinedRun ==
    ASSUME StackInv, Discipline, UNCHANGED sp
    PROVE  StackStep
BY RunStep DEF Discipline

LEMMA OrdinaryStep ==
    ASSUME StackInv, OrdinaryInstruction, Discipline
    PROVE  StackStep
<1>a. TypeOK
  BY DEF StackInv
<1>1. ASSUME UNCHANGED sp PROVE StackStep
  BY <1>1, DisciplinedRun
<1>2. ASSUME NEW w \in Word, PushRegister(w) PROVE StackStep
  <2>1. After(1) \in Stack!Behind
    BY <1>a, AfterIsBehind
  <2> QED BY <1>2, <2>1, SaveStep DEF PushRegister
<1>3. CASE PopRegister
  <2>1. PICK w \in Word : Pop(w)
    BY <1>3 DEF PopRegister
  <2>2. After(1) \in Stack!Behind
    BY <1>a, AfterIsBehind
  <2> QED BY <1>3, <2>1, <2>2, RestoreStep DEF PopRegister
<1>4. ASSUME NEW kind \in Calls, NEW target \in Word, Call(kind, target) PROVE StackStep
  <2>1. LENGTHS[kind] \in 1 .. 3
    BY DEF LENGTHS, Branch, Calls
  <2>2. After(LENGTHS[kind]) \in Stack!Behind /\ After(LENGTHS[kind]) \in Word
    BY <1>a, <2>1, AfterIsBehind, AfterType
  <2> QED BY <1>4, <2>2, SaveStep DEF Call
<1>5. ASSUME NEW kind \in Returns, Return(kind) PROVE StackStep
  <2>1. PICK w \in Word : Pop(w) /\ pc' = w
    BY <1>5 DEF Return
  <2>2. interrupt_master_enable => interrupt_master_enable'
    BY <1>5 DEF Return
  <2> QED BY <1>5, <2>1, <2>2, RestoreStep DEF Return
<1>6. ASSUME ~\E w \in Word : PushRegister(w), ~PopRegister,
             ~\E kind \in Calls, target \in Word : Call(kind, target),
             ~\E kind \in Returns : Return(kind)
      PROVE  UNCHANGED sp
  <2>1. RstTargets \subseteq Word /\ "rst" \in Calls
    BY MapAssumption DEF Calls
  <2> QED BY <1>6, <2>1 DEF OrdinaryInstruction, StraightInstruction, BranchInstruction,
                           Compute, StoreByte, Illegal, StoreSp, NotTaken,
                           Jump, Halt, SetMasterEnable
<1> QED BY <1>1, <1>2, <1>3, <1>4, <1>5, <1>6

LEMMA DevicesStep ==
    ASSUME StackInv, Devices
    PROVE  StackStep
<1>1. /\ UNCHANGED <<sp, ram, interrupt_enable, interrupt_master_enable>>
  BY DEF Devices
<1>2. interrupt_enable \subseteq Interrupt /\ (interrupt_master_enable => sp - 2 >= Bottom)
  BY DEF StackInv, StackInStep
<1> QED BY <1>1, <1>2, RunStep

LEMMA BalancedStep ==
    ASSUME StackInv, [BalancedNext]_vars
    PROVE  TypeOK' /\ StackStep
<1>1. CASE UNCHANGED vars
  <2>1. TypeOK'
    BY <1>1 DEF StackInv, TypeOK, vars, registers
  <2>2. /\ UNCHANGED <<sp, ram, interrupt_enable, interrupt_master_enable>>
    BY <1>1 DEF vars, registers
  <2>3. interrupt_enable \subseteq Interrupt /\ (interrupt_master_enable => sp - 2 >= Bottom)
    BY DEF StackInv, StackInStep
  <2> QED BY <2>1, <2>2, <2>3, RunStep
<1>2. CASE CheckInterrupts
  BY <1>2, CheckType, CheckStep DEF StackInv
<1>3. CASE OrdinaryInstruction /\ Discipline
  BY <1>3, OrdinaryType, OrdinaryStep DEF StackInv
<1>4. CASE Devices
  BY <1>4, DevicesType, DevicesStep DEF StackInv
<1> QED BY <1>1, <1>2, <1>3, <1>4 DEF BalancedNext

LEMMA BalancedStart == BalancedInit => StackInv /\ Stack!Init
<1> SUFFICES ASSUME BalancedInit PROVE StackInv /\ Stack!Init
  OBVIOUS
<1>1. Top \in Int /\ Bottom \in Int /\ Bottom <= Top /\ Top \in Word
  BY StackAssumption, WordConstants DEF Word
<1>2. TypeOK
  <2>1. ram \in [Ram -> Byte]
    BY WordConstants DEF BalancedInit
  <2>2. pc \in Word /\ sp \in Word
    BY <1>1, WordConstants DEF BalancedInit
  <2> QED BY <2>1, <2>2 DEF BalancedInit, TypeOK
<1>3. StackInStep
  <2>1. (Top - sp) % 2 = 0 /\ sp \in Bottom .. Top
    BY <1>1 DEF BalancedInit
  <2> QED BY <2>1 DEF BalancedInit, StackInStep
<1>4. Frames = <<>>
  <2>1. (Top - sp) \div 2 = 0
    BY <1>1 DEF BalancedInit
  <2> QED BY <2>1 DEF Frames
<1> QED BY <1>2, <1>3, <1>4 DEF StackInv, BalancedInit, Stack!Init

-------------------------------------------------------------------------------

\* The bytes of a word are pushed and popped together, the stack stays in its
\* room, and an interrupt always finds room.
THEOREM StackStaysInStep == BalancedSpec => []StackInStep
<1>1. BalancedInit => StackInv
  BY BalancedStart
<1>2. StackInv /\ [BalancedNext]_vars => StackInv'
  BY BalancedStep DEF StackInv, StackStep
<1>3. StackInv => StackInStep
  BY DEF StackInv
<1> QED BY <1>1, <1>2, <1>3, PTL DEF BalancedSpec

\* Calls and returns, interrupts and RETI, PUSH and POP nest as on a stack of
\* words: what is returned to is what was left, whatever came in between.
THEOREM CpuImplementsCallStack == BalancedSpec => RefinesCallStack
<1>1. BalancedInit => StackInv /\ Stack!Init
  BY BalancedStart
<1>2. StackInv /\ [BalancedNext]_vars => StackInv' /\ [Stack!Next]_(Stack!cvars)
  BY BalancedStep DEF StackInv, StackStep
<1> QED BY <1>1, <1>2, PTL DEF BalancedSpec, RefinesCallStack, Stack!Spec
===============================================================================
