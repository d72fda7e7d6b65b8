--------------------------------- MODULE Cpu ----------------------------------
(***************************************************************************)
(* The control of the processor: tick(), check_interrupts(), next_byte()   *)
(* and the instructions that move pc, sp or the interrupt state, from      *)
(* src/src/cpu.hh, src/src/cpu/cpu.cc and src/src/cpu/opcode_internal.cc.  *)
(*                                                                         *)
(* Code and data are the program's choice: an instruction is fetched by    *)
(* its class, a condition is either, an operand is any value.  What the    *)
(* program stored in Ram it reads back; everything else it reads (ROM, the *)
(* registers of the devices) may be any byte.                              *)
(***************************************************************************)
EXTENDS Integers, Interrupts

CONSTANTS
    ByteSize,     \* values of a byte; 256
    Ram,          \* the addresses where a stack may live
    IeAddress,    \* mmap::INTERRUPTS_ENABLED, 0xFFFF
    IfAddress,    \* mmap::INTERRUPTS_FLAG, 0xFF0F
    Vector,       \* interrupt_vectors, by source
    RstTargets,   \* 0x00, 0x08, .. 0x38
    BitsOf,       \* the bits of a register that holds a byte
    Requests,     \* the sources some device requests: all but SERIAL
    PlainCycles   \* CYCLES of the instructions that only compute

WordSize == ByteSize * ByteSize
Byte     == 0 .. ByteSize - 1
Word     == 0 .. WordSize - 1

ASSUME SizeAssumption == ByteSize \in Nat /\ ByteSize > 1
ASSUME MapAssumption ==
    /\ Ram \subseteq Word
    /\ {IeAddress, IfAddress} \subseteq Word \ Ram
    /\ IeAddress # IfAddress
    /\ Vector \in [Interrupt -> Word]
    /\ RstTargets \subseteq Word
    /\ BitsOf \in [Byte -> SUBSET RegisterBit]
    /\ Requests \subseteq Interrupt
    /\ PlainCycles \subseteq Nat

VARIABLES
    at,          \* where Gbc::run() is: before check_interrupts(), before the
                 \* fetch, or in the ticks of the devices
    pc, sp,
    ram,
    interrupt_master_enable,
    interrupt_enable,         \* 0xFFFF
    interrupt_flag,           \* 0xFF0F
    halted_,
    halt_bug_no_step_mode_,
    cycles                    \* what tick() returned last

registers == <<pc, sp, ram, interrupt_master_enable, interrupt_enable, interrupt_flag>>
vars      == <<at, registers, halted_, halt_bug_no_step_mode_, cycles>>

TypeOK ==
    /\ at \in {"check", "execute", "devices"}
    /\ pc \in Word
    /\ sp \in Word
    /\ ram \in [Ram -> Byte]
    /\ interrupt_master_enable \in BOOLEAN
    /\ interrupt_enable \subseteq RegisterBit
    /\ interrupt_flag \subseteq RegisterBit
    /\ halted_ \in BOOLEAN
    /\ halt_bug_no_step_mode_ \in BOOLEAN
    /\ cycles \in Nat

\* reset(); Memory is cleared.
Init ==
    /\ at = "check"
    /\ pc = 0
    /\ sp = 0
    /\ ram = [a \in Ram |-> 0]
    /\ interrupt_master_enable = FALSE
    /\ interrupt_enable = {}
    /\ interrupt_flag = {}
    /\ halted_ = FALSE
    /\ halt_bug_no_step_mode_ = FALSE
    /\ cycles = 0

-------------------------------------------------------------------------------
(* Memory and the stack.                                                   *)

High(w) == w \div ByteSize
Low(w)  == w % ByteSize

\* A byte that read_(a) may return.
CanRead(a, b) == a \in Ram => b = ram[a]

\* write_(a, b), as far as the processor's own state goes.
Written(m, a, b) ==
    [ram    |-> [x \in Ram |-> IF x = a THEN b ELSE m.ram[x]],
     enable |-> IF a = IeAddress THEN BitsOf[b] ELSE m.enable,
     flag   |-> IF a = IfAddress THEN BitsOf[b] ELSE m.flag]

Memory == [ram |-> ram, enable |-> interrupt_enable, flag |-> interrupt_flag]

\* A plausible slip: the bytes are pushed in the order they are popped.
Bug_PushedSwapped(w) ==
    Written(Written(Memory, (sp - 1) % WordSize, Low(w)), (sp - 2) % WordSize, High(w))

\* push(): the high byte first, below sp; the low byte below it.
Pushed(w) ==
    Written(Written(Memory, (sp - 1) % WordSize, High(w)), (sp - 2) % WordSize, Low(w))

\* Memory becomes m, but for the interrupt flags.
Store(m) == ram' = m.ram /\ interrupt_enable' = m.enable

\* A plausible slip: sp runs below 0.
Bug_NoWrap(w) == Store(Pushed(w)) /\ sp' = sp - 2

Push(w) == Store(Pushed(w)) /\ sp' = (sp - 2) % WordSize

\* pop(): the word whose low byte is at sp and whose high byte is above.
TopOfStack(w) ==
    /\ CanRead(sp, Low(w))
    /\ CanRead((sp + 1) % WordSize, High(w))

Pop(w) == TopOfStack(w) /\ sp' = (sp + 2) % WordSize

-------------------------------------------------------------------------------
(* check_interrupts()                                                      *)

Fired == interrupt_flag \cap interrupt_enable

\* tick() goes on to the fetch, or returns 1 if the processor is still halted.
EnterFetch ==
    /\ at = "check"
    /\ IF halted_'
       THEN at' = "devices" /\ cycles' = 1
       ELSE at' = "execute" /\ UNCHANGED cycles

NothingFired ==
    /\ Fired = {}
    /\ UNCHANGED <<registers, halted_, halt_bug_no_step_mode_>>
    /\ EnterFetch

\* Plausible slips: the last of several requests wins; the request stays; the
\* flags are cleared before the return address is safe; interrupts stay on.
Bug_LowestFirst(i) ==
    /\ interrupt_master_enable
    /\ i \in Fired \cap Interrupt
    /\ \A j \in Fired \cap Interrupt : j <= i
    /\ Push(pc)
    /\ pc' = Vector[i]
    /\ interrupt_flag' = Pushed(pc).flag \ {i}
    /\ interrupt_master_enable' = FALSE
    /\ halted_' = FALSE
    /\ UNCHANGED halt_bug_no_step_mode_
    /\ EnterFetch

Bug_StaysEnabled(i) ==
    /\ interrupt_master_enable
    /\ i \in Fired \cap Interrupt
    /\ \A j \in Fired \cap Interrupt : i <= j
    /\ Push(pc)
    /\ pc' = Vector[i]
    /\ interrupt_flag' = Pushed(pc).flag \ {i}
    /\ halted_' = FALSE
    /\ UNCHANGED <<interrupt_master_enable, halt_bug_no_step_mode_>>
    /\ EnterFetch

\* The first source in the order of the bits.
Dispatch(i) ==
    /\ interrupt_master_enable
    /\ i \in Fired \cap Interrupt
    /\ \A j \in Fired \cap Interrupt : i <= j
    /\ Push(pc)
    /\ pc' = Vector[i]
    /\ interrupt_flag' = Pushed(pc).flag \ {i}
    /\ interrupt_master_enable' = FALSE
    /\ halted_' = FALSE
    /\ UNCHANGED halt_bug_no_step_mode_
    /\ EnterFetch

\* Only bits 5 to 7: pc is pushed and no handler entered, at every tick.
PushForNothing ==
    /\ interrupt_master_enable
    /\ Fired # {}
    /\ Fired \cap Interrupt = {}
    /\ Push(pc)
    /\ interrupt_flag' = Pushed(pc).flag
    /\ halted_' = FALSE
    /\ UNCHANGED <<pc, interrupt_master_enable, halt_bug_no_step_mode_>>
    /\ EnterFetch

\* A plausible slip: the processor sleeps on while interrupts are disabled.
Bug_SleepOn ==
    /\ ~interrupt_master_enable
    /\ Fired # {}
    /\ halt_bug_no_step_mode_' = (halt_bug_no_step_mode_ \/ halted_)
    /\ UNCHANGED <<registers, halted_>>
    /\ EnterFetch

\* With interrupts disabled a request ends a halt, and the next fetch will not
\* step pc.
Wake ==
    /\ ~interrupt_master_enable
    /\ Fired # {}
    /\ halt_bug_no_step_mode_' = (halt_bug_no_step_mode_ \/ halted_)
    /\ halted_' = FALSE
    /\ UNCHANGED registers
    /\ EnterFetch

CheckInterrupts ==
    \/ NothingFired
    \/ \E i \in Interrupt : Dispatch(i)
    \/ PushForNothing
    \/ Wake

-------------------------------------------------------------------------------
(* The instructions.                                                       *)

\* pc after an instruction of the given length has been read: the halt bug
\* takes one step off it.
After(length) ==
    (pc + length - (IF halt_bug_no_step_mode_ THEN 1 ELSE 0)) % WordSize

\* The instruction ends: tick() returns c.
Done(c) ==
    /\ at = "execute"
    /\ at' = "devices"
    /\ halt_bug_no_step_mode_' = FALSE
    /\ cycles' = c

Conditional == {"jr_if", "jp_if", "call_if", "ret_if"}
Jumps       == {"jr", "jr_if", "jp", "jp_if", "jp_hl"}
Calls       == {"call", "call_if", "rst"}
Returns     == {"ret", "ret_if", "reti"}
Branch      == Jumps \cup Calls \cup Returns

\* The bytes the handlers read, opcode included.
LENGTHS ==
    [k \in Branch |-> CASE k \in {"jp", "jp_if", "call", "call_if"} -> 3
                        [] k \in {"jr", "jr_if"} -> 2
                        [] OTHER -> 1]

CYCLES ==
    [k \in Branch |-> CASE k = "jp_hl" -> 1
                        [] k \in {"jr_if", "ret_if"} -> 2
                        [] k \in {"jr", "jp_if", "call_if"} -> 3
                        [] k \in {"jp", "rst", "ret", "reti"} -> 4
                        [] k = "call" -> 6]

BRANCHED_CYCLES ==
    [k \in Branch |-> CASE k = "jp_hl" -> 1
                        [] k \in {"jr", "jr_if"} -> 3
                        [] k \in {"jp", "jp_if", "rst", "ret", "reti"} -> 4
                        [] k = "ret_if" -> 5
                        [] k \in {"call", "call_if"} -> 6]

\* tick() sets cycles to BRANCHED_CYCLES if did_branch_, then to CYCLES anyway.
Cost(kind, did_branch) == CYCLES[kind]

\* Loads, arithmetic, 0xCB operations, stop (whose body is empty).
Compute(length, c) ==
    /\ Done(c)
    /\ pc' = After(length)
    /\ UNCHANGED <<sp, ram, interrupt_master_enable, interrupt_enable, interrupt_flag, halted_>>

\* The eleven opcodes that do not exist only log, and take no time.
Illegal ==
    /\ Done(0)
    /\ pc' = After(1)
    /\ UNCHANGED <<sp, ram, interrupt_master_enable, interrupt_enable, interrupt_flag, halted_>>

\* Any instruction that writes a byte.
StoreByte(length, c, a, b) ==
    LET m == Written(Memory, a, b) IN
    /\ Done(c)
    /\ pc' = After(length)
    /\ Store(m)
    /\ interrupt_flag' = m.flag
    /\ UNCHANGED <<sp, interrupt_master_enable, halted_>>

\* LD (a16),SP: the low byte, then the high byte above it.
StoreSp(a) ==
    LET m == Written(Written(Memory, a, Low(sp)), (a + 1) % WordSize, High(sp)) IN
    /\ Done(5)
    /\ pc' = After(3)
    /\ Store(m)
    /\ interrupt_flag' = m.flag
    /\ UNCHANGED <<sp, interrupt_master_enable, halted_>>

\* LD SP,d16; ADD SP,e8; LD SP,HL; INC SP and DEC SP.
LoadSp(w) ==
    /\ \/ Done(3) /\ pc' = After(3)
       \/ Done(4) /\ pc' = After(2)
       \/ Done(2) /\ pc' = After(1)
    /\ sp' = w
    /\ UNCHANGED <<ram, interrupt_master_enable, interrupt_enable, interrupt_flag, halted_>>

PushRegister(w) ==
    /\ Done(4)
    /\ pc' = After(1)
    /\ Push(w)
    /\ interrupt_flag' = Pushed(w).flag
    /\ UNCHANGED <<interrupt_master_enable, halted_>>

PopRegister ==
    /\ Done(3)
    /\ pc' = After(1)
    /\ \E w \in Word : Pop(w)
    /\ UNCHANGED <<ram, interrupt_master_enable, interrupt_enable, interrupt_flag, halted_>>

NotTaken(kind) ==
    /\ Done(Cost(kind, FALSE))
    /\ pc' = After(LENGTHS[kind])
    /\ UNCHANGED <<sp, ram, interrupt_master_enable, interrupt_enable, interrupt_flag, halted_>>

Jump(kind, target) ==
    /\ Done(Cost(kind, TRUE))
    /\ pc' = target
    /\ UNCHANGED <<sp, ram, interrupt_master_enable, interrupt_enable, interrupt_flag, halted_>>

\* The return address is that of the instruction behind.
Call(kind, target) ==
    /\ Done(Cost(kind, TRUE))
    /\ pc' = target
    /\ Push(After(LENGTHS[kind]))
    /\ interrupt_flag' = Pushed(After(LENGTHS[kind])).flag
    /\ UNCHANGED <<interrupt_master_enable, halted_>>

\* RETI enables interrupts at once.
Return(kind) ==
    /\ Done(Cost(kind, TRUE))
    /\ \E w \in Word : Pop(w) /\ pc' = w
    /\ interrupt_master_enable' = (interrupt_master_enable \/ kind = "reti")
    /\ UNCHANGED <<ram, interrupt_enable, interrupt_flag, halted_>>

Halt ==
    /\ Done(1)
    /\ pc' = After(1)
    /\ halted_' = TRUE
    /\ UNCHANGED <<sp, ram, interrupt_master_enable, interrupt_enable, interrupt_flag>>

\* EI and DI, both effective at once.
SetMasterEnable(on) ==
    /\ Done(1)
    /\ pc' = After(1)
    /\ interrupt_master_enable' = on
    /\ UNCHANGED <<sp, ram, interrupt_enable, interrupt_flag, halted_>>

\* An instruction that branches; a conditional one sets did_branch_.
BranchInstruction(kind) ==
    \/ kind \in Jumps /\ \E target \in Word : Jump(kind, target)
    \/ kind \in Calls \ {"rst"} /\ \E target \in Word : Call(kind, target)
    \/ kind = "rst" /\ \E target \in RstTargets : Call(kind, target)
    \/ kind \in Returns /\ Return(kind)

\* One that does not, nor loads sp.  A byte stored elsewhere changes nothing
\* here, as Compute.
StraightInstruction ==
    \/ \E length \in 1 .. 3, c \in PlainCycles :
         \/ Compute(length, c)
         \/ \E a \in Ram \cup {IeAddress, IfAddress}, b \in Byte : StoreByte(length, c, a, b)
    \/ Illegal
    \/ \E a \in Word : StoreSp(a)
    \/ \E w \in Word : PushRegister(w)
    \/ PopRegister
    \/ \E kind \in Conditional : NotTaken(kind)
    \/ Halt
    \/ \E on \in BOOLEAN : SetMasterEnable(on)

\* Everything but the instructions that load sp.
OrdinaryInstruction ==
    \/ StraightInstruction
    \/ \E kind \in Branch : BranchInstruction(kind)

\* The ticks of the other components, which may request interrupts.
Devices ==
    /\ at = "devices"
    /\ at' = "check"
    /\ \E sources \in SUBSET Requests : interrupt_flag' = interrupt_flag \cup sources
    /\ UNCHANGED <<pc, sp, ram, interrupt_master_enable, interrupt_enable,
                   halted_, halt_bug_no_step_mode_, cycles>>

Next ==
    \/ CheckInterrupts
    \/ OrdinaryInstruction
    \/ \E w \in Word : LoadSp(w)
    \/ Devices

Spec == Init /\ [][Next]_vars

\* The loop of Gbc::run() goes on.
FairSpec == Spec /\ WF_vars(Next)

-------------------------------------------------------------------------------

\* cpu.cc:356-391: a request vanishes from the flag register only when its
\* handler is entered, the first of those enabled, with interrupts disabled
\* and the interrupted pc on the stack; or because the program stored there.
RequestsHonoured ==
    [][\A i \in interrupt_flag \ interrupt_flag' :
         \/ at = "execute"
         \/ IfAddress \in {(sp - 1) % WordSize, (sp - 2) % WordSize}
         \/ /\ i \in interrupt_enable
            /\ \A j \in Interrupt : j < i => j \notin Fired
            /\ pc' = Vector[i]
            /\ ~interrupt_master_enable'
            /\ {(sp - 1) % WordSize, (sp - 2) % WordSize} \subseteq Ram
               => ram'[sp'] = Low(pc) /\ ram'[(sp' + 1) % WordSize] = High(pc)]_vars

\* cpu.cc:386-401: the flag set on a wake is used up by the very next fetch:
\* it never survives to repeat a byte of a later instruction or a handler.
HaltBugIsShortLived ==
    /\ at # "execute" => ~halt_bug_no_step_mode_
    /\ halt_bug_no_step_mode_ => ~halted_ /\ ~interrupt_master_enable

\* cpu.cc:356-391, gbc.cc:78-83: a halted processor with an enabled request
\* wakes, whether interrupts are enabled or not.
HaltedWakes == (halted_ /\ Fired # {}) ~> ~halted_
===============================================================================
