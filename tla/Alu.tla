--------------------------------- MODULE Alu ----------------------------------
(***************************************************************************)
(* The instructions that compute: src/src/cpu/opcode_internal.cc, with the *)
(* opcodes of src/src/cpu/opcode.cc that use them.                         *)
(*                                                                         *)
(* The accumulator and the flags are state.  The other registers and       *)
(* memory supply operands and take results of which the program may make   *)
(* anything, so they are any byte.                                         *)
(***************************************************************************)
EXTENDS Integers

CONSTANT Operands   \* bytes that other registers, memory or the code supply

Byte     == 0 .. 255
WordSize == 256 * 256
Word     == 0 .. WordSize - 1

ASSUME OperandsAssumption == Operands \subseteq Byte

VARIABLES
    a,
    f    \* the high nibble of F; FlagRegister keeps the low one 0

vars == <<a, f>>

Flags == [zero : BOOLEAN, subtract : BOOLEAN, half_carry : BOOLEAN, carry : BOOLEAN]

TypeOK == a \in Byte /\ f \in Flags

NoFlags == [zero |-> FALSE, subtract |-> FALSE, half_carry |-> FALSE, carry |-> FALSE]

\* reset()
Init == a = 0 /\ f = NoFlags

-------------------------------------------------------------------------------
(* What each instruction computes: a value and the flags.                  *)

Outcome(v, subtract, half_carry, carry) ==
    [value |-> v,
     flags |-> [zero |-> v = 0, subtract |-> subtract,
                half_carry |-> half_carry, carry |-> carry]]

Num(b) == IF b THEN 1 ELSE 0

\* ADD (k = FALSE) and ADC (k = the carry flag).
Add(x, y, k) ==
    Outcome((x + y + Num(k)) % 256, FALSE,
            (x % 16) + (y % 16) + Num(k) > 15, x + y + Num(k) > 255)

\* ADD A,A and ADC A,A: `other` is the register just written, so the half
\* carry is that of the old nibble and the new one.
Double(x, k) ==
    LET sum == (2 * x + Num(k)) % 256 IN
    Outcome(sum, FALSE, (x % 16) + (sum % 16) + Num(k) > 15, 2 * x + Num(k) > 255)

\* A plausible slip: equal operands borrow.
Bug_SubCarry(x, y, k) ==
    Outcome((x - y - Num(k)) % 256, TRUE,
            (x % 16) - (y % 16) - Num(k) < 0, x - y - Num(k) <= 0)

\* SUB and SBC.
Sub(x, y, k) ==
    Outcome((x - y - Num(k)) % 256, TRUE,
            (x % 16) - (y % 16) - Num(k) < 0, x - y - Num(k) < 0)

\* CP: compares without a subtraction, and keeps the value.
Cp(x, y) ==
    [value |-> x,
     flags |-> [zero |-> x = y, subtract |-> TRUE,
                half_carry |-> x % 16 < y % 16, carry |-> x < y]]

Inc(x, k) == Outcome((x + 1) % 256, FALSE, (x + 1) % 16 = 0, k)
Dec(x, k) == Outcome((x - 1) % 256, TRUE, (x - 1) % 16 = 15, k)

\* Plausible slips: the bit goes back to its own end; the byte is not cut.
Bug_RrcBit(x) == Outcome((x \div 2) + (x % 2), FALSE, FALSE, x % 2 = 1)
Bug_RlWide(x, k) == Outcome(2 * x + Num(k), FALSE, FALSE, x > 127)

\* The rotations around the byte, and those through the carry flag.
Rlc(x)   == Outcome(((2 * x) % 256) + (x \div 128), FALSE, FALSE, x > 127)
Rl(x, k) == Outcome(((2 * x) % 256) + Num(k), FALSE, FALSE, x > 127)
Rrc(x)   == Outcome((x \div 2) + 128 * (x % 2), FALSE, FALSE, x % 2 = 1)
Rr(x, k) == Outcome((x \div 2) + 128 * Num(k), FALSE, FALSE, x % 2 = 1)

\* The shifts; SRA keeps the sign.
Sla(x)  == Outcome((2 * x) % 256, FALSE, FALSE, x > 127)
Sra(x)  == Outcome((x \div 2) + 128 * (x \div 128), FALSE, FALSE, x % 2 = 1)
Srl(x)  == Outcome(x \div 2, FALSE, FALSE, x % 2 = 1)
Swap(x) == Outcome(16 * (x % 16) + (x \div 16), FALSE, FALSE, FALSE)

\* Bits, for the operations that work bit by bit.
Bit == 0 .. 7
Weight == [i \in Bit |-> CASE i = 0 -> 1  [] i = 1 -> 2  [] i = 2 -> 4  [] i = 3 -> 8
                           [] i = 4 -> 16 [] i = 5 -> 32 [] i = 6 -> 64 [] i = 7 -> 128]
BitSet(x)  == {i \in Bit : (x \div Weight[i]) % 2 = 1}
ByteOf(on) ==
    Num(0 \in on) + 2 * Num(1 \in on) + 4 * Num(2 \in on) + 8 * Num(3 \in on)
    + 16 * Num(4 \in on) + 32 * Num(5 \in on) + 64 * Num(6 \in on) + 128 * Num(7 \in on)

And(x, y) == Outcome(ByteOf(BitSet(x) \cap BitSet(y)), FALSE, TRUE, FALSE)
Or(x, y)  == Outcome(ByteOf(BitSet(x) \cup BitSet(y)), FALSE, FALSE, FALSE)
Xor(x, y) == Outcome(ByteOf((BitSet(x) \cup BitSet(y)) \ (BitSet(x) \cap BitSet(y))),
                     FALSE, FALSE, FALSE)
Res(i, x) == ByteOf(BitSet(x) \ {i})
Set(i, x) == ByteOf(BitSet(x) \cup {i})

\* BIT: the bit is tested, the carry kept.
BitTest(i, x, k) ==
    [zero |-> i \notin BitSet(x), subtract |-> FALSE, half_carry |-> TRUE, carry |-> k]

\* A plausible slip: only the high digit is looked at, so 0x9A to 0x9F pass.
Bug_DaaHighDigit(x, g) ==
    LET low  == g.half_carry \/ (~g.subtract /\ x % 16 > 9)
        high == g.carry \/ (~g.subtract /\ x \div 16 > 9)
        fix  == 6 * Num(low) + 96 * Num(high)
        v    == (IF g.subtract THEN x - fix ELSE x + fix) % 256
    IN [value |-> v,
        flags |-> [zero |-> v = 0, subtract |-> g.subtract,
                   half_carry |-> FALSE, carry |-> g.carry \/ high]]

\* daa(): what ADD, ADC, SUB or SBC left is corrected to two decimal digits.
\* (correction << 2) & 0x100 is the presence of 0x60; 153 is 0x99.
DaaOutcome(x, g) ==
    LET low  == g.half_carry \/ (~g.subtract /\ x % 16 > 9)
        high == g.carry \/ (~g.subtract /\ x > 153)
        fix  == 6 * Num(low) + 96 * Num(high)
        v    == (IF g.subtract THEN x - fix ELSE x + fix) % 256
    IN [value |-> v,
        flags |-> [zero |-> v = 0, subtract |-> g.subtract,
                   half_carry |-> FALSE, carry |-> g.carry \/ high]]

\* ADD HL,rr keeps the zero flag.
AddWords(x, y, zero) ==
    [value |-> (x + y) % WordSize,
     flags |-> [zero |-> zero, subtract |-> FALSE,
                half_carry |-> (x % (16 * 256)) + (y % (16 * 256)) >= 16 * 256, carry |-> x + y >= WordSize]]

\* A plausible slip: the carries are those of bits 11 and 15, as for ADD HL.
Bug_WordCarries(w, e) ==
    [value |-> (w + e) % WordSize,
     flags |-> [zero |-> FALSE, subtract |-> FALSE,
                half_carry |-> (w % (16 * 256)) + e >= 16 * 256, carry |-> w + e >= WordSize]]

\* ADD SP,e8 and LD HL,SP+e8: where w ^ e ^ result has bit 4 or 8, a carry
\* went into that bit.
Odd(n) == n % 2 = 1
CarryInto(weight, w, e, result) ==
    Odd((w \div weight) + (e \div weight) + (result \div weight))
AddOffset(w, e) ==
    LET result == (w + e) % WordSize IN
    [value |-> result,
     flags |-> [zero |-> FALSE, subtract |-> FALSE,
                half_carry |-> CarryInto(16, w, e, result),
                carry |-> CarryInto(256, w, e, result)]]

\* static_cast<signed_byte_t>
Signed(y) == IF y > 127 THEN y - 256 ELSE y

-------------------------------------------------------------------------------
(* The instructions.                                                       *)

Take(outcome)  == a' = outcome.value /\ f' = outcome.flags
Elsewhere(set) == f' \in set /\ UNCHANGED a

\* The four whose result DAA corrects.
Arithmetic(y) ==
    \E k \in {FALSE, f.carry} : Take(Add(a, y, k)) \/ Take(Sub(a, y, k))

\* ADD A,A and ADC A,A.  (SUB and SBC read `other` first: see Arithmetic.)
DoubleA == \E k \in {FALSE, f.carry} : Take(Double(a, k))

\* SUB A, SBC A,A and the logic with A itself, as with any other register.
Logic(y) == Take(And(a, y)) \/ Take(Or(a, y)) \/ Take(Xor(a, y))

Compare(y) == Take(Cp(a, y))

\* The instructions on one register or byte of memory that hold x.
Unary(x) ==
    {Inc(x, f.carry), Dec(x, f.carry), Rlc(x), Rl(x, f.carry), Rrc(x), Rr(x, f.carry),
     Sla(x), Sra(x), Srl(x), Swap(x)}

UnaryOnA == \E outcome \in Unary(a) : Take(outcome)

UnaryElsewhere(x) == Elsewhere({outcome.flags : outcome \in Unary(x)})

\* RLCA, RLA, RRCA, RRA: as the rotations of A, but the zero flag is cleared.
RotateA ==
    \E outcome \in {Rlc(a), Rl(a, f.carry), Rrc(a), Rr(a, f.carry)} :
        a' = outcome.value /\ f' = [outcome.flags EXCEPT !.zero = FALSE]

TestBit(x) == Elsewhere({BitTest(i, x, f.carry) : i \in Bit})

ResSet == \E i \in Bit : a' \in {Res(i, a), Set(i, a)} /\ UNCHANGED f

CPL == a' = 255 - a /\ f' = [f EXCEPT !.subtract = TRUE, !.half_carry = TRUE]

DAA == Take(DaaOutcome(a, f))

SetCarry(k) == f' = [f EXCEPT !.subtract = FALSE, !.half_carry = FALSE, !.carry = k] /\ UNCHANGED a

SCF == SetCarry(TRUE)
CCF == SetCarry(~f.carry)

\* LD A,.. and LDH A,..
LoadA(x) == a' = x /\ UNCHANGED f

\* POP AF
PopAF(x) == a' = x /\ f' \in Flags

\* The sixteen-bit additions, on HL and SP.
AddToHL(x, y) == Elsewhere({AddWords(x, y, f.zero).flags})
AddToSP(w, e) == Elsewhere({AddOffset(w, e).flags})

\* Arithmetic, Logic and Compare with A as the operand are among these, but
\* for ADD A,A and ADC A,A.
Next ==
    \/ \E y \in Operands : Arithmetic(y) \/ Logic(y) \/ Compare(y)
    \/ \E k \in {FALSE, f.carry} : Take(Sub(a, a, k))
    \/ Logic(a) \/ Compare(a)
    \/ DoubleA
    \/ UnaryOnA
    \/ \E x \in Operands : UnaryElsewhere(x) \/ TestBit(x) \/ LoadA(x) \/ PopAF(x)
    \/ TestBit(a)
    \/ RotateA
    \/ ResSet
    \/ CPL
    \/ DAA
    \/ SCF
    \/ CCF
    \/ \E x, y \in Operands :
         \/ AddToHL(256 * x + y, 256 * y + x)
         \/ AddToSP(256 * x + y, Signed(y))

Spec == Init /\ [][Next]_vars

-------------------------------------------------------------------------------
(* What a program may rely on, whatever the accumulator and the flags are. *)

\* opcode_internal.cc:203-399, 611-639: SUB and SBC take back what ADD and ADC
\* added and borrow exactly where those carried, out of the digit and out of
\* the byte, so that a difference of several bytes undoes a sum; and CP, which
\* subtracts nothing, leaves the flags of SUB.
SubUndoesAdd ==
    \A y \in Operands :
        /\ \A k \in BOOLEAN :
             LET sum        == Add(a, y, k)
                 difference == Sub(sum.value, y, k)
             IN /\ difference.value = a
                /\ difference.flags.carry = sum.flags.carry
                /\ difference.flags.half_carry = sum.flags.half_carry
        /\ Cp(a, y).flags = Sub(a, y, FALSE).flags

\* opcode_internal.cc:111-201, 501-597: a rotation to the right undoes one to
\* the left, carry included; SWAP undoes itself; a shift is a rotation that
\* takes in a 0.
RotatesUndone ==
    /\ LET left == Rl(a, f.carry) IN
         /\ Rr(left.value, left.flags.carry).value = a
         /\ Rr(left.value, left.flags.carry).flags.carry = f.carry
    /\ Rrc(Rlc(a).value).value = a
    /\ Swap(Swap(a).value).value = a
    /\ Sla(a) = Rl(a, FALSE)
    /\ Srl(a) = Rr(a, FALSE)

\* opcode_internal.cc:44-56, 242-269: ADD HL,rr is ADD on the low bytes and
\* then ADC on the high ones; ADD SP,e8 and LD HL,SP+e8 have the carries of an
\* ADD on the low bytes alone, whatever the sign of e8.
WordsAsBytes ==
    \A x, y \in Operands :
        /\ LET word == AddWords(256 * y + a, 256 * x + y, f.zero)
               low  == Add(a, y, FALSE)
               high == Add(y, x, low.flags.carry)
           IN /\ word.value = 256 * high.value + low.value
              /\ word.flags.half_carry = high.flags.half_carry
              /\ word.flags.carry = high.flags.carry
        /\ LET offset == AddOffset(256 * x + a, Signed(y))
               low    == Add(a, y, FALSE)
           IN /\ offset.flags.half_carry = low.flags.half_carry
              /\ offset.flags.carry = low.flags.carry

\* opcode_names.hh:154 calls opcode 0x87 "ADD A,A", the instruction that 0x80 to
\* 0x86 and 0xC6 apply to other operands: it adds A as they would add a byte of
\* A's value.
DoublesAsAdd == \A k \in BOOLEAN : Double(a, k) = Add(a, a, k)
===============================================================================
