----------------------------- MODULE BalancedCpu ------------------------------
(***************************************************************************)
(* The processor under a program that keeps its stack in order: it sets sp *)
(* once, does not overrun the room it gave the stack or write into it, and *)
(* enables only interrupts that exist.  What the processor then does byte  *)
(* by byte is a stack of words (CallStack).                                *)
(***************************************************************************)
EXTENDS Cpu, Sequences

CONSTANTS Top, Bottom   \* the stack: the Ram from Bottom to below Top

ASSUME StackAssumption ==
    /\ Top \in Word
    /\ Bottom \in Word
    /\ 2 <= Bottom
    /\ Bottom <= Top
    /\ Bottom .. Top - 1 \subseteq Ram

\* The program has just set sp.
BalancedInit ==
    /\ at = "check"
    /\ pc = 0
    /\ sp = Top
    /\ ram = [a \in Ram |-> 0]
    /\ interrupt_master_enable = FALSE
    /\ interrupt_enable = {}
    /\ interrupt_flag = {}
    /\ halted_ = FALSE
    /\ halt_bug_no_step_mode_ = FALSE
    /\ cycles = 0

\* What the program owes: bounds of the model that a real program keeps too.
Discipline ==
    /\ sp' \in Bottom .. Top
    /\ (interrupt_master_enable' => sp' - 2 >= Bottom)    \* room for one interrupt
    /\ \A a \in Ram : sp <= a /\ a < Top => ram'[a] = ram[a]
    /\ interrupt_enable' \subseteq Interrupt

BalancedNext ==
    \/ CheckInterrupts
    \/ OrdinaryInstruction /\ Discipline
    \/ Devices

BalancedSpec == BalancedInit /\ [][BalancedNext]_vars

-------------------------------------------------------------------------------

\* The words between sp and Top, the oldest first.
Frames ==
    [n \in 1 .. (Top - sp) \div 2 |->
        ram[Top - 2 * n + 1] * ByteSize + ram[Top - 2 * n]]

Stack == INSTANCE CallStack WITH
    frames  <- Frames,
    enabled <- interrupt_master_enable,
    pending <- interrupt_flag \cap interrupt_enable

\* cpu.cc:356-391, opcode_internal.cc:653-704, 733-736: every return goes on
\* where the call it belongs to was made, or where the interrupt came, however
\* calls, interrupts, PUSH and POP nest, with the halt bug or without.
RefinesCallStack == Stack!Spec

\* cpu.cc:356-391: sp stays in step, so the bytes of a word are never taken
\* for those of two words, and there is room whenever interrupts are enabled.
StackInStep ==
    /\ sp \in Bottom .. Top
    /\ (Top - sp) % 2 = 0
    /\ interrupt_master_enable => sp - 2 >= Bottom
    /\ interrupt_enable \subseteq Interrupt
===============================================================================
