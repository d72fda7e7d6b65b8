------------------------------ MODULE AluProofs -------------------------------
(***************************************************************************)
(* Proofs about DecimalAlu: the accumulator stays a byte, DAA leaves the   *)
(* decimal result, and the relations between the instructions that         *)
(* SubUndoesAdd, RotatesUndone and WordsAsBytes state; and where ADD A,A   *)
(* is no addition.                                                         *)
(***************************************************************************)
EXTENDS DecimalAlu, TLAPS

-------------------------------------------------------------------------------
(* Two decimal digits, added or subtracted, and corrected by DAA.          *)

\* The two digits of a decimal byte.
LEMMA TwoDigits ==
    ASSUME NEW x \in Byte, IsDecimal(x)
    PROVE  /\ x \div 16 \in 0 .. 9 /\ x % 16 \in 0 .. 9
           /\ x = 16 * (x \div 16) + (x % 16)
           /\ Digits(x) \in 0 .. 99
BY DEF IsDecimal, Digits, Byte

\* A byte put together from two digits.
LEMMA FromDigits ==
    ASSUME NEW p \in 0 .. 9, NEW q \in 0 .. 9
    PROVE  IsDecimal(16 * p + q) /\ Digits(16 * p + q) = 10 * p + q
BY DEF IsDecimal, Digits, Byte

\* opcode_internal.cc:203-312, 738-764: ADD or ADC and then DAA.
LEMMA AddThenDaa ==
    ASSUME NEW x \in Byte, IsDecimal(x), NEW y \in Byte, IsDecimal(y), NEW k \in BOOLEAN
    PROVE  LET n == Digits(x) + (Digits(y) + Num(k))
               r == DaaOutcome(Add(x, y, k).value, Add(x, y, k).flags)
           IN /\ IsDecimal(r.value)
              /\ Digits(r.value) = n % 100
              /\ r.flags.carry = (n > 99)
<1> DEFINE p == x \div 16
           q == x % 16
           u == y \div 16
           v == y % 16
           c == Num(k)
           sum == x + y + c
           low == q + v + c
           out == DaaOutcome(Add(x, y, k).value, Add(x, y, k).flags)
<1>1. p \in 0 .. 9 /\ q \in 0 .. 9 /\ u \in 0 .. 9 /\ v \in 0 .. 9 /\ c \in 0 .. 1
  BY TwoDigits DEF Num
<1>2. x = 16 * p + q /\ y = 16 * u + v
  BY TwoDigits
<1>3. Digits(x) = 10 * p + q /\ Digits(y) = 10 * u + v
  BY DEF Digits
<1> DEFINE n    == 10 * p + q + 10 * u + v + c
           byte == sum % 256
           hc   == low > 15
           cy   == sum > 255
           fixLow  == 6 * Num(hc \/ byte % 16 > 9)
           fixHigh == 96 * Num(cy \/ byte > 153)
           res  == (byte + (fixLow + fixHigh)) % 256
<1>4. /\ Add(x, y, k).value = byte
      /\ Add(x, y, k).flags.subtract = FALSE
      /\ Add(x, y, k).flags.half_carry = hc
      /\ Add(x, y, k).flags.carry = cy
  BY DEF Add, Outcome
<1>5. out.value = res /\ out.flags.carry = (cy \/ byte > 153)
  <2>1. \A b \in Nat, g \in Flags :
          ~g.subtract =>
            /\ DaaOutcome(b, g).value
                 = (b + (6 * Num(g.half_carry \/ b % 16 > 9) + 96 * Num(g.carry \/ b > 153))) % 256
            /\ DaaOutcome(b, g).flags.carry = (g.carry \/ b > 153)
    BY DEF DaaOutcome, Flags
  <2>2. byte \in Nat /\ Add(x, y, k).flags \in Flags
    BY <1>1, <1>2 DEF Add, Outcome, Flags, Num
  <2> DEFINE s == Add(x, y, k)
  <2>3. s.flags \in Flags /\ s.value \in Nat /\ s.value = byte /\ s.flags.subtract = FALSE
        /\ s.flags.half_carry = hc /\ s.flags.carry = cy
    BY <1>4, <2>2
  <2>4. out = DaaOutcome(s.value, s.flags)
    OBVIOUS
  <2> HIDE DEF s, out, byte, hc, cy
  <2>5. ~s.flags.subtract
    BY <2>3
  <2>6. /\ DaaOutcome(s.value, s.flags).value
             = (s.value + (6 * Num(s.flags.half_carry \/ s.value % 16 > 9)
                           + 96 * Num(s.flags.carry \/ s.value > 153))) % 256
        /\ DaaOutcome(s.value, s.flags).flags.carry = (s.flags.carry \/ s.value > 153)
    BY <2>1, <2>3, <2>5
  <2> QED
    BY <2>3, <2>4, <2>6
<1> HIDE DEF p, q, u, v, c, out
<1>6. sum = 16 * (p + u) + low /\ low \in 0 .. 19 /\ p + u \in 0 .. 18
  BY <1>1, <1>2
<1>7. (cy \/ byte > 153) = (n > 99)
  BY <1>1, <1>6
<1>8. \E hd, ld \in 0 .. 9 : res = 16 * hd + ld /\ 10 * hd + ld = n % 100
  <2> DEFINE t == p + u
  <2>1. n = 10 * t + low
    BY <1>1
  <2> HIDE DEF t
  <2>2. CASE low < 10
    <3>1. CASE t < 10
      <4>1. byte = 16 * t + low /\ byte % 16 = low /\ fixLow = 0 /\ fixHigh = 0
        BY <1>6, <2>2, <3>1 DEF Num, t
      <4> QED
        BY <4>1, <2>1, <2>2, <3>1, <1>6 DEF t
    <3>2. CASE t >= 10
      <4>1. fixLow = 0 /\ fixHigh = 96 /\ res = 16 * (t - 10) + low
        BY <1>6, <2>2, <3>2 DEF Num, t
      <4> QED
        BY <4>1, <2>1, <2>2, <3>2, <1>6 DEF t
    <3> QED
      BY <3>1, <3>2, <1>6 DEF t
  <2>3. CASE low >= 10
    <3>1. CASE t < 9
      <4>1. fixLow = 6 /\ fixHigh = 0 /\ res = 16 * (t + 1) + (low - 10)
        BY <1>6, <2>3, <3>1 DEF Num, t
      <4> QED
        BY <4>1, <2>1, <2>3, <3>1, <1>6 DEF t
    <3>2. CASE t >= 9
      <4>1. fixLow = 6 /\ fixHigh = 96 /\ res = 16 * (t - 9) + (low - 10)
        BY <1>6, <2>3, <3>2 DEF Num, t
      <4> QED
        BY <4>1, <2>1, <2>3, <3>2, <1>6 DEF t
    <3> QED
      BY <3>1, <3>2, <1>6 DEF t
  <2> QED
    BY <2>2, <2>3, <1>6
<1>9. IsDecimal(res) /\ Digits(res) = n % 100
  BY <1>8, FromDigits
<1>10. Digits(x) + (Digits(y) + Num(k)) = n
  BY <1>1, <1>3 DEF c
<1> HIDE DEF n, res, byte, cy
<1> QED
  BY <1>5, <1>7, <1>9, <1>10 DEF out

\* opcode_internal.cc:314-399, 738-764: SUB or SBC and then DAA.
LEMMA SubThenDaa ==
    ASSUME NEW x \in Byte, IsDecimal(x), NEW y \in Byte, IsDecimal(y), NEW k \in BOOLEAN
    PROVE  LET n == Digits(x) - (Digits(y) + Num(k))
               r == DaaOutcome(Sub(x, y, k).value, Sub(x, y, k).flags)
           IN /\ IsDecimal(r.value)
              /\ Digits(r.value) = n % 100
              /\ r.flags.carry = (n < 0)
<1> DEFINE p == x \div 16
           q == x % 16
           u == y \div 16
           v == y % 16
           c == Num(k)
           diff == x - y - c
           low == q - v - c
           n == 10 * p + q - 10 * u - v - c
           byte == diff % 256
           hc == low < 0
           cy == diff < 0
           res == (byte - (6 * Num(hc) + 96 * Num(cy))) % 256
           s == Sub(x, y, k)
           out == DaaOutcome(s.value, s.flags)
<1>1. p \in 0 .. 9 /\ q \in 0 .. 9 /\ u \in 0 .. 9 /\ v \in 0 .. 9 /\ c \in 0 .. 1
  BY TwoDigits DEF Num
<1>2. x = 16 * p + q /\ y = 16 * u + v
  BY TwoDigits
<1>3. Digits(x) = 10 * p + q /\ Digits(y) = 10 * u + v
  BY DEF Digits
<1>4. /\ s.flags \in Flags /\ s.value \in Nat /\ s.value = byte /\ s.flags.subtract = TRUE
      /\ s.flags.half_carry = hc /\ s.flags.carry = cy
  <2>1. s.value = byte /\ s.flags = [zero |-> byte = 0, subtract |-> TRUE,
                                      half_carry |-> hc, carry |-> cy]
    BY DEF Sub, Outcome
  <2>2. byte \in Nat
    BY <1>1, <1>2
  <2> HIDE DEF s, byte
  <2> QED
    BY <2>1, <2>2 DEF Flags
<1>5. out.value = res /\ out.flags.carry = cy
  <2>1. \A b \in Nat, g \in Flags :
          g.subtract =>
            /\ DaaOutcome(b, g).value = (b - (6 * Num(g.half_carry) + 96 * Num(g.carry))) % 256
            /\ DaaOutcome(b, g).flags.carry = g.carry
    BY DEF DaaOutcome, Flags
  <2> HIDE DEF s, byte, hc, cy
  <2>2. s.flags.subtract
    BY <1>4
  <2>3. /\ out.value = (s.value - (6 * Num(s.flags.half_carry) + 96 * Num(s.flags.carry))) % 256
        /\ out.flags.carry = s.flags.carry
    BY <1>4, <2>1, <2>2
  <2> QED
    BY <1>4, <2>3
<1>6. Digits(x) - (Digits(y) + Num(k)) = n
  BY <1>1, <1>3
<1> HIDE DEF p, q, u, v, c, s, out
<1>7. diff = 16 * (p - u) + low /\ low \in -10 .. 9 /\ p - u \in -9 .. 9
  BY <1>1, <1>2
<1>8. cy = (n < 0)
  BY <1>1, <1>7
<1>9. \E hd, ld \in 0 .. 9 : res = 16 * hd + ld /\ 10 * hd + ld = n % 100
  <2> DEFINE t == p - u
  <2>1. n = 10 * t + low
    BY <1>1
  <2> HIDE DEF t
  <2>2. CASE low >= 0
    <3>1. CASE t >= 0
      <4>1. res = 16 * t + low
        BY <1>7, <2>2, <3>1 DEF Num, t
      <4> QED
        BY <4>1, <2>1, <2>2, <3>1, <1>7 DEF t
    <3>2. CASE t < 0
      <4>1. res = 16 * (t + 10) + low
        BY <1>7, <2>2, <3>2 DEF Num, t
      <4> QED
        BY <4>1, <2>1, <2>2, <3>2, <1>7 DEF t
    <3> QED
      BY <3>1, <3>2, <1>7 DEF t
  <2>3. CASE low < 0
    <3>1. CASE t > 0
      <4>1. res = 16 * (t - 1) + (low + 10)
        BY <1>7, <2>3, <3>1 DEF Num, t
      <4> QED
        BY <4>1, <2>1, <2>3, <3>1, <1>7 DEF t
    <3>2. CASE t <= 0
      <4>1. res = 16 * (t + 9) + (low + 10)
        BY <1>7, <2>3, <3>2 DEF Num, t
      <4> QED
        BY <4>1, <2>1, <2>3, <3>2, <1>7 DEF t
    <3> QED
      BY <3>1, <3>2, <1>7 DEF t
  <2> QED
    BY <2>2, <2>3, <1>7
<1>10. IsDecimal(res) /\ Digits(res) = n % 100
  BY <1>9, FromDigits
<1> HIDE DEF n, res, cy
<1> QED
  BY <1>5, <1>6, <1>8, <1>10 DEF out, s

-------------------------------------------------------------------------------
(* Every instruction leaves a byte and a flag register.                    *)

LEMMA NumType == \A b : Num(b) \in {0, 1}
BY DEF Num

LEMMA Cut == \A n \in Int : n % 256 \in Byte
BY DEF Byte

LEMMA ByteOfType == \A on : ByteOf(on) \in Byte
BY NumType DEF ByteOf, Byte

LEMMA ArithmeticType ==
    ASSUME NEW x \in Byte, NEW y \in Byte, NEW k \in BOOLEAN
    PROVE  /\ Add(x, y, k) \in [value : Byte, flags : Flags]
           /\ Sub(x, y, k) \in [value : Byte, flags : Flags]
           /\ Cp(x, y) \in [value : Byte, flags : Flags]
           /\ Double(x, k) \in [value : Byte, flags : Flags]
<1>1. x + y + Num(k) \in Int /\ x - y - Num(k) \in Int /\ 2 * x + Num(k) \in Int
  BY NumType DEF Byte
<1>2. (x + y + Num(k)) % 256 \in Byte /\ (x - y - Num(k)) % 256 \in Byte
      /\ (2 * x + Num(k)) % 256 \in Byte
  BY <1>1, Cut
<1>3. Add(x, y, k) \in [value : Byte, flags : Flags]
  BY <1>2 DEF Add, Outcome, Flags
<1>4. Sub(x, y, k) \in [value : Byte, flags : Flags]
  BY <1>2 DEF Sub, Outcome, Flags
<1>5. Double(x, k) \in [value : Byte, flags : Flags]
  BY <1>2 DEF Double, Outcome, Flags
<1> QED
  BY <1>3, <1>4, <1>5 DEF Cp, Flags

LEMMA LogicType ==
    ASSUME NEW x \in Byte, NEW y \in Byte
    PROVE  /\ And(x, y) \in [value : Byte, flags : Flags]
           /\ Or(x, y) \in [value : Byte, flags : Flags]
           /\ Xor(x, y) \in [value : Byte, flags : Flags]
<1>1. And(x, y) \in [value : Byte, flags : Flags]
  BY ByteOfType DEF And, Outcome, Flags
<1>2. Or(x, y) \in [value : Byte, flags : Flags]
  BY ByteOfType DEF Or, Outcome, Flags
<1>3. Xor(x, y) \in [value : Byte, flags : Flags]
  BY ByteOfType DEF Xor, Outcome, Flags
<1> QED
  BY <1>1, <1>2, <1>3

LEMMA UnaryType ==
    ASSUME NEW x \in Byte, NEW k \in BOOLEAN
    PROVE  /\ Inc(x, k) \in [value : Byte, flags : Flags]
           /\ Dec(x, k) \in [value : Byte, flags : Flags]
           /\ Rlc(x) \in [value : Byte, flags : Flags]
           /\ Rl(x, k) \in [value : Byte, flags : Flags]
           /\ Rrc(x) \in [value : Byte, flags : Flags]
           /\ Rr(x, k) \in [value : Byte, flags : Flags]
           /\ Sla(x) \in [value : Byte, flags : Flags]
           /\ Sra(x) \in [value : Byte, flags : Flags]
           /\ Srl(x) \in [value : Byte, flags : Flags]
           /\ Swap(x) \in [value : Byte, flags : Flags]
<1>1. Inc(x, k) \in [value : Byte, flags : Flags]
  BY DEF Inc, Outcome, Flags, Byte
<1>2. Dec(x, k) \in [value : Byte, flags : Flags]
  BY DEF Dec, Outcome, Flags, Byte
<1>3. Rlc(x) \in [value : Byte, flags : Flags]
  BY DEF Rlc, Outcome, Flags, Byte
<1>4. Rl(x, k) \in [value : Byte, flags : Flags]
  BY NumType DEF Rl, Outcome, Flags, Byte
<1>5. Rrc(x) \in [value : Byte, flags : Flags]
  BY DEF Rrc, Outcome, Flags, Byte
<1>6. Rr(x, k) \in [value : Byte, flags : Flags]
  BY NumType DEF Rr, Outcome, Flags, Byte
<1>7. Sla(x) \in [value : Byte, flags : Flags]
  BY DEF Sla, Outcome, Flags, Byte
<1>8. Sra(x) \in [value : Byte, flags : Flags]
  BY DEF Sra, Outcome, Flags, Byte
<1>9. Srl(x) \in [value : Byte, flags : Flags]
  BY DEF Srl, Outcome, Flags, Byte
<1>10. Swap(x) \in [value : Byte, flags : Flags]
  BY DEF Swap, Outcome, Flags, Byte
<1> QED
  BY <1>1, <1>2, <1>3, <1>4, <1>5, <1>6, <1>7, <1>8, <1>9, <1>10

LEMMA DaaType ==
    ASSUME NEW x \in Byte, NEW g \in Flags
    PROVE  DaaOutcome(x, g) \in [value : Byte, flags : Flags]
<1>1. DaaOutcome(x, g).value \in Byte
  BY NumType, Cut DEF DaaOutcome, Byte
<1>2. DaaOutcome(x, g).flags \in Flags
  BY DEF DaaOutcome, Flags
<1> QED
  BY <1>1, <1>2 DEF DaaOutcome

\* A step of Alu keeps the accumulator and the flags what they are.
LEMMA NextType ==
    ASSUME TypeOK, Next
    PROVE  TypeOK'
<1> USE OperandsAssumption
<1>1. a \in Byte /\ f \in Flags /\ f.carry \in BOOLEAN /\ f.zero \in BOOLEAN
  BY DEF TypeOK, Flags
<1>2. ASSUME NEW outcome \in [value : Byte, flags : Flags], Take(outcome)
      PROVE  TypeOK'
  BY <1>2 DEF Take, TypeOK
<1>3. ASSUME NEW flags \in Flags, f' = flags, UNCHANGED a
      PROVE  TypeOK'
  BY <1>1, <1>3 DEF TypeOK
<1>4. ASSUME NEW y \in Byte, Arithmetic(y) \/ Logic(y) \/ Compare(y)
      PROVE  TypeOK'
  BY <1>1, <1>2, <1>4, ArithmeticType, LogicType DEF Arithmetic, Logic, Compare
<1>5. ASSUME NEW k \in {FALSE, f.carry}, Take(Sub(a, a, k)) \/ Take(Double(a, k))
      PROVE  TypeOK'
  BY <1>1, <1>2, <1>5, ArithmeticType
<1>6. CASE UnaryOnA
  BY <1>1, <1>2, <1>6, UnaryType DEF UnaryOnA, Unary
<1>7. ASSUME NEW x \in Byte, UnaryElsewhere(x)
      PROVE  TypeOK'
  BY <1>1, <1>3, <1>7, UnaryType DEF UnaryElsewhere, Unary, Elsewhere
<1>8. ASSUME NEW x \in Byte, TestBit(x)
      PROVE  TypeOK'
  <2>1. \A i : BitTest(i, x, f.carry) \in Flags
    BY <1>1 DEF BitTest, Flags
  <2> QED
    BY <1>3, <1>8, <2>1 DEF TestBit, Elsewhere
<1>9. ASSUME NEW x \in Byte, LoadA(x) \/ PopAF(x)
      PROVE  TypeOK'
  BY <1>1, <1>9 DEF LoadA, PopAF, TypeOK
<1>10. CASE RotateA
  <2>1. PICK outcome \in {Rlc(a), Rl(a, f.carry), Rrc(a), Rr(a, f.carry)} :
          a' = outcome.value /\ f' = [outcome.flags EXCEPT !.zero = FALSE]
    BY <1>10 DEF RotateA
  <2>2. outcome \in [value : Byte, flags : Flags]
    BY <1>1, UnaryType
  <2> QED
    BY <2>1, <2>2 DEF TypeOK, Flags
<1>11. CASE ResSet
  BY <1>1, <1>11, ByteOfType DEF ResSet, Res, Set, TypeOK
<1>12. CASE CPL
  <2>1. a' \in Byte
    BY <1>1, <1>12 DEF CPL, Byte
  <2>2. f' \in Flags
    BY <1>1, <1>12 DEF CPL, Flags
  <2> QED
    BY <2>1, <2>2 DEF TypeOK
<1>13. CASE DAA
  BY <1>1, <1>2, <1>13, DaaType DEF DAA
<1>14. CASE SCF \/ CCF
  BY <1>1, <1>14 DEF SCF, CCF, SetCarry, TypeOK, Flags
<1>15. ASSUME NEW x, NEW y, AddToHL(x, y) \/ AddToSP(x, y)
       PROVE  TypeOK'
  <2>1. AddWords(x, y, f.zero).flags \in Flags /\ AddOffset(x, y).flags \in Flags
    BY <1>1 DEF AddWords, AddOffset, CarryInto, Odd, Flags
  <2> QED
    BY <1>3, <1>15, <2>1 DEF AddToHL, AddToSP, Elsewhere
<1> QED
  BY <1>1, <1>4, <1>5, <1>6, <1>7, <1>8, <1>9, <1>10, <1>11, <1>12, <1>13, <1>14, <1>15
  DEF Next, DoubleA

-------------------------------------------------------------------------------
(* Decimal arithmetic.  DaaIsDecimal speaks of the states after DAA; the   *)
(* strengthening adds those before it: DAA will give the right number.     *)

DaaWillBeDecimal ==
    decimal = "due" =>
        LET r == DaaOutcome(a, f) IN
        IsDecimal(r.value) /\ Digits(r.value) = number.value /\ r.flags.carry = number.carry

DecimalInv == TypeOKDecimal /\ DaaIsDecimal /\ DaaWillBeDecimal

LEMMA DecimalStep ==
    ASSUME DecimalInv, DecimalNext
    PROVE  DecimalInv'
<1> USE OperandsAssumption
<1>1. a \in Byte /\ f \in Flags /\ f.carry \in BOOLEAN /\ number \in Shown
  BY DEF DecimalInv, TypeOKDecimal, TypeOK, Flags
<1>2. CASE Calculate
  <2>1. PICK y \in Operands, k \in {FALSE, f.carry} :
          /\ IsDecimal(y)
          /\ \/ Take(Add(a, y, k)) /\ number' = Sum(number.value, Digits(y) + Num(k))
             \/ Take(Sub(a, y, k)) /\ number' = Difference(number.value, Digits(y) + Num(k))
    BY <1>2 DEF Calculate
  <2>2. y \in Byte /\ k \in BOOLEAN /\ decimal = "done" /\ decimal' = "due"
        /\ IsDecimal(a) /\ number.value = Digits(a)
    BY <1>1, <1>2, <2>1 DEF Calculate, DecimalInv, DaaIsDecimal
  <2>3. Digits(a) \in Nat /\ Digits(y) \in Nat /\ Num(k) \in {0, 1}
    BY <1>1, <2>1, <2>2, TwoDigits, NumType
  <2>4. CASE Take(Add(a, y, k)) /\ number' = Sum(number.value, Digits(y) + Num(k))
    <3>1. number' = [value |-> (Digits(a) + (Digits(y) + Num(k))) % 100,
                     carry |-> Digits(a) + (Digits(y) + Num(k)) > 99]
      BY <2>2, <2>4 DEF Sum
    <3>2. TypeOKDecimal'
      <4>1. a' \in Byte /\ f' \in Flags
        BY <1>1, <2>2, <2>4, ArithmeticType DEF Take
      <4>2. number' \in Shown
        BY <2>3, <3>1 DEF Shown
      <4> QED
        BY <2>2, <4>1, <4>2 DEF TypeOKDecimal, TypeOK
    <3>3. DaaOutcome(a', f') = DaaOutcome(Add(a, y, k).value, Add(a, y, k).flags)
      BY <2>4 DEF Take
    <3>4. DaaWillBeDecimal'
      BY <1>1, <2>1, <2>2, <3>1, <3>3, AddThenDaa DEF DaaWillBeDecimal
    <3> QED
      BY <2>2, <3>2, <3>4 DEF DecimalInv, DaaIsDecimal
  <2>5. CASE Take(Sub(a, y, k)) /\ number' = Difference(number.value, Digits(y) + Num(k))
    <3>1. number' = [value |-> (Digits(a) - (Digits(y) + Num(k))) % 100,
                     carry |-> Digits(a) - (Digits(y) + Num(k)) < 0]
      BY <2>2, <2>5 DEF Difference
    <3>2. TypeOKDecimal'
      <4>1. a' \in Byte /\ f' \in Flags
        BY <1>1, <2>2, <2>5, ArithmeticType DEF Take
      <4>2. number' \in Shown
        BY <2>3, <3>1 DEF Shown
      <4> QED
        BY <2>2, <4>1, <4>2 DEF TypeOKDecimal, TypeOK
    <3>3. DaaOutcome(a', f') = DaaOutcome(Sub(a, y, k).value, Sub(a, y, k).flags)
      BY <2>5 DEF Take
    <3>4. DaaWillBeDecimal'
      BY <1>1, <2>1, <2>2, <3>1, <3>3, SubThenDaa DEF DaaWillBeDecimal
    <3> QED
      BY <2>2, <3>2, <3>4 DEF DecimalInv, DaaIsDecimal
  <2> QED
    BY <2>1, <2>4, <2>5
<1>3. CASE Adjust
  <2>1. a' = DaaOutcome(a, f).value /\ f' = DaaOutcome(a, f).flags
    BY <1>3 DEF Adjust, DAA, Take
  <2>2. TypeOKDecimal'
    BY <1>1, <1>3, <2>1, DaaType DEF Adjust, TypeOKDecimal, TypeOK
  <2>3. DaaIsDecimal'
    BY <1>3, <2>1 DEF Adjust, DecimalInv, DaaWillBeDecimal, DaaIsDecimal
  <2> QED
    BY <1>3, <2>2, <2>3 DEF Adjust, DecimalInv, DaaWillBeDecimal
<1>4. CASE LoadDecimal
  <2>1. PICK x \in Operands :
          IsDecimal(x) /\ LoadA(x) /\ number' = [value |-> Digits(x), carry |-> f.carry]
    BY <1>4 DEF LoadDecimal
  <2>2. x \in Byte /\ a' = x /\ f' = f /\ decimal' = "done" /\ Digits(x) \in 0 .. 99
    BY <1>4, <2>1, TwoDigits DEF LoadDecimal, LoadA
  <2>3. TypeOKDecimal'
    BY <1>1, <2>1, <2>2 DEF TypeOKDecimal, TypeOK, Shown
  <2> QED
    BY <2>1, <2>2, <2>3 DEF DecimalInv, DaaIsDecimal, DaaWillBeDecimal
<1>5. CASE ChangeCarry
  <2>1. PICK k \in {TRUE, ~f.carry} : SetCarry(k) /\ number' = [number EXCEPT !.carry = k]
    BY <1>5 DEF ChangeCarry
  <2>2. k \in BOOLEAN /\ a' = a /\ decimal = "done" /\ decimal' = "done"
    BY <1>1, <1>5, <2>1 DEF ChangeCarry, SetCarry
  <2>3. f' \in Flags /\ f'.carry = k
    BY <1>1, <2>1, <2>2 DEF SetCarry, Flags
  <2>4. number' \in Shown /\ number'.value = number.value /\ number'.carry = k
    BY <1>1, <2>1, <2>2 DEF Shown
  <2>5. TypeOKDecimal'
    BY <1>1, <2>2, <2>3, <2>4 DEF TypeOKDecimal, TypeOK
  <2>6. DaaIsDecimal'
    BY <2>2, <2>3, <2>4 DEF DecimalInv, DaaIsDecimal
  <2> QED
    BY <2>2, <2>5, <2>6 DEF DecimalInv, DaaWillBeDecimal
<1>6. CASE Otherwise
  <2>1. TypeOK' /\ decimal' = "none" /\ number' = Zero
    BY <1>6, NextType DEF Otherwise, DecimalInv, TypeOKDecimal
  <2> QED
    BY <2>1 DEF DecimalInv, TypeOKDecimal, DaaIsDecimal, DaaWillBeDecimal, Zero, Shown
<1> QED
  BY <1>2, <1>3, <1>4, <1>5, <1>6 DEF DecimalNext

LEMMA DecimalInvariant == DecimalSpec => []DecimalInv
<1>1. DecimalInit => DecimalInv
  <2>1. IsDecimal(0) /\ Digits(0) = 0
    BY DEF IsDecimal, Digits, Byte
  <2> QED
    BY <2>1 DEF DecimalInit, Init, Zero, NoFlags, DecimalInv, TypeOKDecimal, TypeOK, Flags,
                Byte, Shown, DaaIsDecimal, DaaWillBeDecimal
<1>2. DecimalInv /\ [DecimalNext]_dvars => DecimalInv'
  <2> SUFFICES ASSUME DecimalInv, [DecimalNext]_dvars
               PROVE  DecimalInv'
    OBVIOUS
  <2>1. CASE DecimalNext
    BY <2>1, DecimalStep
  <2>2. CASE UNCHANGED dvars
    BY <2>2 DEF dvars, vars, DecimalInv, TypeOKDecimal, TypeOK, DaaIsDecimal, DaaWillBeDecimal
  <2> QED
    BY <2>1, <2>2
<1> QED
  BY <1>1, <1>2, PTL DEF DecimalSpec

\* The accumulator is a byte and the calculator shows two digits, always.
THEOREM TypeCorrect == DecimalSpec => []TypeOKDecimal
BY DecimalInvariant, PTL DEF DecimalInv

\* opcode_internal.cc:738-764 with 203-399: DAA leaves the two digits and the
\* carry of every decimal addition or subtraction, for all operands.
THEOREM DaaCorrect == DecimalSpec => []DaaIsDecimal
BY DecimalInvariant, PTL DEF DecimalInv

-------------------------------------------------------------------------------
(* Relations between the instructions.                                     *)

LEMMA SubUndoesAddOnBytes ==
    ASSUME NEW x \in Byte, NEW y \in Byte, NEW k \in BOOLEAN
    PROVE  LET sum        == Add(x, y, k)
               difference == Sub(sum.value, y, k)
           IN /\ difference.value = x
              /\ difference.flags.carry = sum.flags.carry
              /\ difference.flags.half_carry = sum.flags.half_carry
<1> DEFINE c == Num(k)
           v == (x + y + c) % 256
<1>1. c \in {0, 1}
  BY NumType
<1>2. /\ Add(x, y, k).value = v
      /\ Add(x, y, k).flags.carry = (x + y + c > 255)
      /\ Add(x, y, k).flags.half_carry = ((x % 16) + (y % 16) + c > 15)
  BY DEF Add, Outcome
<1>3. /\ Sub(v, y, k).value = (v - y - c) % 256
      /\ Sub(v, y, k).flags.carry = (v - y - c < 0)
      /\ Sub(v, y, k).flags.half_carry = ((v % 16) - (y % 16) - c < 0)
  BY DEF Sub, Outcome
<1> HIDE DEF c
<1>4. v = IF x + y + c > 255 THEN x + y + c - 256 ELSE x + y + c
  BY <1>1 DEF Byte
<1>5. (v - y - c) % 256 = x /\ (v - y - c < 0) = (x + y + c > 255)
  BY <1>1, <1>4 DEF Byte
<1>6. ((v % 16) - (y % 16) - c < 0) = ((x % 16) + (y % 16) + c > 15)
  BY <1>1, <1>4 DEF Byte
<1> QED
  BY <1>2, <1>3, <1>5, <1>6

\* opcode_internal.cc:203-399, 611-639: SUB and SBC undo ADD and ADC, borrows
\* and carries included, and CP leaves the flags of SUB.
THEOREM SubtractionCorrect == DecimalSpec => []SubUndoesAdd
<1>1. TypeOKDecimal => SubUndoesAdd
  <2> SUFFICES ASSUME TypeOKDecimal, NEW y \in Operands
               PROVE  /\ \A k \in BOOLEAN :
                           LET sum        == Add(a, y, k)
                               difference == Sub(sum.value, y, k)
                           IN /\ difference.value = a
                              /\ difference.flags.carry = sum.flags.carry
                              /\ difference.flags.half_carry = sum.flags.half_carry
                      /\ Cp(a, y).flags = Sub(a, y, FALSE).flags
    BY DEF SubUndoesAdd
  <2>1. a \in Byte /\ y \in Byte
    BY OperandsAssumption DEF TypeOKDecimal, TypeOK
  <2>2. Cp(a, y).flags = Sub(a, y, FALSE).flags
    <3>1. (a = y) <=> ((a - y) % 256 = 0)
      BY <2>1 DEF Byte
    <3>2. a - y - Num(FALSE) = a - y /\ (a % 16) - (y % 16) - Num(FALSE) = (a % 16) - (y % 16)
      BY <2>1 DEF Num, Byte
    <3>3. (a < y) = (a - y < 0) /\ (a % 16 < y % 16) = ((a % 16) - (y % 16) < 0)
      BY <2>1 DEF Byte
    <3> QED
      BY <3>1, <3>2, <3>3 DEF Cp, Sub, Outcome
  <2> QED
    BY <2>1, <2>2, SubUndoesAddOnBytes
<1> QED
  BY <1>1, TypeCorrect, PTL

\* opcode_internal.cc:111-201, 501-597: rotations undo each other.
THEOREM RotationsCorrect == DecimalSpec => []RotatesUndone
<1>1. TypeOKDecimal => RotatesUndone
  <2> SUFFICES ASSUME TypeOKDecimal
               PROVE  RotatesUndone
    OBVIOUS
  <2>1. a \in Byte /\ f.carry \in BOOLEAN
    BY DEF TypeOKDecimal, TypeOK, Flags
  <2>2. /\ Rl(a, f.carry).value = ((2 * a) % 256) + Num(f.carry)
        /\ Rl(a, f.carry).flags.carry = (a > 127)
    BY DEF Rl, Outcome
  <2>3. \A x, k : /\ Rr(x, k).value = (x \div 2) + 128 * Num(k)
                  /\ Rr(x, k).flags.carry = (x % 2 = 1)
    BY DEF Rr, Outcome
  <2>4. LET x == ((2 * a) % 256) + Num(f.carry) IN
          /\ (x \div 2) + 128 * Num(a > 127) = a
          /\ (x % 2 = 1) = f.carry
    BY <2>1 DEF Byte, Num
  <2>5. Rrc(Rlc(a).value).value = a
    BY <2>1 DEF Rrc, Rlc, Outcome, Byte
  <2>6. Swap(Swap(a).value).value = a
    BY <2>1 DEF Swap, Outcome, Byte
  <2>7. Sla(a) = Rl(a, FALSE) /\ Srl(a) = Rr(a, FALSE)
    BY <2>1 DEF Sla, Rl, Srl, Rr, Num, Byte
  <2> QED
    BY <2>2, <2>3, <2>4, <2>5, <2>6, <2>7 DEF RotatesUndone
<1> QED
  BY <1>1, TypeCorrect, PTL

\* A carry into bit 8 of w + e is a carry out of the low bytes, whatever the
\* sign of e; n and m are the digits above.
LEMMA ParityOfCarry ==
    ASSUME NEW w \in Word, NEW e \in Int, e >= -128, e <= 127
    PROVE  /\ CarryInto(16, w, e, (w + e) % WordSize) = ((w % 16) + (e % 16) > 15)
           /\ CarryInto(256, w, e, (w + e) % WordSize) = ((w % 256) + (e % 256) > 255)
<1>1. w \in Nat /\ w < WordSize /\ WordSize \in Nat
  BY DEF Word, WordSize
<1>2. \E j \in Int : (w + e) % WordSize = w + e + WordSize * j
  BY <1>1 DEF WordSize
<1>3. PICK j \in Int : (w + e) % WordSize = w + e + WordSize * j
  BY <1>2
<1>4. CarryInto(16, w, e, (w + e) % WordSize) = ((w % 16) + (e % 16) > 15)
  <2> DEFINE p == w \div 16
             q == w % 16
             u == e \div 16
             v == e % 16
             k == IF q + v > 15 THEN 1 ELSE 0
  <2>1. /\ w = 16 * p + q /\ e = 16 * u + v /\ p \in Int /\ u \in Int
        /\ q \in 0 .. 15 /\ v \in 0 .. 15 /\ k \in {0, 1}
    BY <1>1
  <2> HIDE DEF p, q, u, v
  <2>2. w + e + WordSize * j = 16 * (p + u + 256 * (16 * j)) + (q + v)
    BY <2>1 DEF WordSize
  <2>3. (w + e + WordSize * j) \div 16 = p + u + 256 * (16 * j) + k
    BY <2>1, <2>2
  <2>4. p + u + (p + u + 256 * (16 * j) + k) = 2 * (p + u + 128 * (16 * j)) + k
    BY <2>1
  <2>5. (p + u + (p + u + 256 * (16 * j) + k)) % 2 = k
    BY <2>1, <2>4
  <2>6. CarryInto(16, w, e, (w + e) % WordSize) = (k = 1)
    BY <1>3, <2>3, <2>5 DEF CarryInto, Odd, p, u
  <2> QED
    BY <2>6 DEF q, v
<1>5. CarryInto(256, w, e, (w + e) % WordSize) = ((w % 256) + (e % 256) > 255)
  <2> DEFINE p == w \div 256
             q == w % 256
             u == e \div 256
             v == e % 256
             k == IF q + v > 255 THEN 1 ELSE 0
  <2>1. /\ w = 256 * p + q /\ e = 256 * u + v /\ p \in Int /\ u \in Int
        /\ q \in 0 .. 255 /\ v \in 0 .. 255 /\ k \in {0, 1}
    BY <1>1
  <2> HIDE DEF p, q, u, v
  <2>2. w + e + WordSize * j = 256 * (p + u + 256 * j) + (q + v)
    BY <2>1 DEF WordSize
  <2>3. (w + e + WordSize * j) \div 256 = p + u + 256 * j + k
    BY <2>1, <2>2
  <2>4. p + u + (p + u + 256 * j + k) = 2 * (p + u + 128 * j) + k
    BY <2>1
  <2>5. (p + u + (p + u + 256 * j + k)) % 2 = k
    BY <2>1, <2>4
  <2>6. CarryInto(256, w, e, (w + e) % WordSize) = (k = 1)
    BY <1>3, <2>3, <2>5 DEF CarryInto, Odd, p, u
  <2> QED
    BY <2>6 DEF q, v
<1> QED
  BY <1>4, <1>5

\* opcode_internal.cc:44-56, 242-269: the sixteen-bit additions are those on
\* their bytes, one after the other, with the carry between them.
THEOREM WordsCorrect == DecimalSpec => []WordsAsBytes
<1>1. TypeOKDecimal => WordsAsBytes
  <2> SUFFICES ASSUME TypeOKDecimal, NEW x \in Operands, NEW y \in Operands
               PROVE  /\ LET word == AddWords(256 * y + a, 256 * x + y, f.zero)
                             low  == Add(a, y, FALSE)
                             high == Add(y, x, low.flags.carry)
                         IN /\ word.value = 256 * high.value + low.value
                            /\ word.flags.half_carry = high.flags.half_carry
                            /\ word.flags.carry = high.flags.carry
                      /\ LET offset == AddOffset(256 * x + a, Signed(y))
                             low    == Add(a, y, FALSE)
                         IN /\ offset.flags.half_carry = low.flags.half_carry
                            /\ offset.flags.carry = low.flags.carry
    BY DEF WordsAsBytes
  <2> DEFINE c == a + y > 255
             h == 256 * y + a
             r == 256 * x + y
  <2>1. a \in Byte /\ x \in Byte /\ y \in Byte
    BY OperandsAssumption DEF TypeOKDecimal, TypeOK
  <2>2. /\ Add(a, y, FALSE).value = (a + y) % 256
        /\ Add(a, y, FALSE).flags.carry = c
        /\ Add(a, y, FALSE).flags.half_carry = ((a % 16) + (y % 16) > 15)
    BY <2>1 DEF Add, Outcome, Num, Byte
  <2>3. /\ Add(y, x, c).value = (y + x + Num(c)) % 256
        /\ Add(y, x, c).flags.carry = (y + x + Num(c) > 255)
        /\ Add(y, x, c).flags.half_carry = ((y % 16) + (x % 16) + Num(c) > 15)
    BY DEF Add, Outcome
  <2>4. /\ AddWords(h, r, f.zero).value = (h + r) % WordSize
        /\ AddWords(h, r, f.zero).flags.carry = (h + r >= WordSize)
        /\ AddWords(h, r, f.zero).flags.half_carry = ((h % (16 * 256)) + (r % (16 * 256)) >= 16 * 256)
    BY DEF AddWords
  <2>5. (h + r) % WordSize = 256 * ((y + x + Num(c)) % 256) + ((a + y) % 256)
    BY <2>1 DEF Num, Byte, WordSize
  <2>6. (h + r >= WordSize) = (y + x + Num(c) > 255)
    BY <2>1 DEF Num, Byte, WordSize
  <2>7. ((h % (16 * 256)) + (r % (16 * 256)) >= 16 * 256) = ((y % 16) + (x % 16) + Num(c) > 15)
    <3>1. h % (16 * 256) = 256 * (y % 16) + a /\ r % (16 * 256) = 256 * (x % 16) + y
      BY <2>1 DEF Byte
    <3> QED
      BY <2>1, <3>1 DEF Num, Byte
  <2>8. /\ AddOffset(256 * x + a, Signed(y)).flags.half_carry = ((a % 16) + (y % 16) > 15)
        /\ AddOffset(256 * x + a, Signed(y)).flags.carry = c
    <3>1. 256 * x + a \in Word /\ Signed(y) \in Int /\ Signed(y) >= -128 /\ Signed(y) <= 127
      <4>1. 256 * x + a \in Word
        <5>1. a \in Int /\ a >= 0 /\ a <= 255 /\ x \in Int /\ x >= 0 /\ x <= 255
          BY <2>1 DEF Byte
        <5>2. 256 * x + a >= 0 /\ 256 * x + a < WordSize /\ 256 * x + a \in Int
              /\ WordSize \in Int
          BY <5>1 DEF WordSize
        <5> QED
          BY <5>1, <5>2 DEF Word
      <4>2. y \in Int /\ y >= 0 /\ y <= 255
        BY <2>1 DEF Byte
      <4> QED
        BY <4>1, <4>2 DEF Signed
    <3>2. (256 * x + a) % 16 = a % 16 /\ (256 * x + a) % 256 = a
      BY <2>1 DEF Byte
    <3>3. Signed(y) % 16 = y % 16 /\ Signed(y) % 256 = y
      BY <2>1 DEF Signed, Byte
    <3>4. /\ CarryInto(16, 256 * x + a, Signed(y), (256 * x + a + Signed(y)) % WordSize)
               = ((a % 16) + (y % 16) > 15)
          /\ CarryInto(256, 256 * x + a, Signed(y), (256 * x + a + Signed(y)) % WordSize) = c
      BY <3>1, <3>2, <3>3, ParityOfCarry
    <3> QED
      BY <3>4 DEF AddOffset
  <2> HIDE DEF c
  <2>9. Add(y, x, Add(a, y, FALSE).flags.carry) = Add(y, x, c)
    BY <2>2
  <2>10. AddWords(h, r, f.zero).value = 256 * Add(y, x, c).value + Add(a, y, FALSE).value
    <3>1. Add(y, x, c).value = (y + x + Num(c)) % 256 /\ Add(a, y, FALSE).value = (a + y) % 256
      BY <2>2, <2>3
    <3> HIDE DEF h, r
    <3>2. AddWords(h, r, f.zero).value = 256 * ((y + x + Num(c)) % 256) + ((a + y) % 256)
      BY <2>4, <2>5
    <3> QED
      BY <3>1, <3>2
  <2>11. /\ AddWords(h, r, f.zero).flags.carry = Add(y, x, c).flags.carry
         /\ AddWords(h, r, f.zero).flags.half_carry = Add(y, x, c).flags.half_carry
    BY <2>3, <2>4, <2>6, <2>7
  <2>12. /\ AddOffset(256 * x + a, Signed(y)).flags.carry = Add(a, y, FALSE).flags.carry
         /\ AddOffset(256 * x + a, Signed(y)).flags.half_carry = Add(a, y, FALSE).flags.half_carry
    BY <2>2, <2>8
  <2> QED
    BY <2>9, <2>10, <2>11, <2>12
<1> QED
  BY <1>1, TypeCorrect, PTL

-------------------------------------------------------------------------------
(* How far ADD A,A and ADC A,A are from an addition.                       *)

\* The half carry is that of the old nibble and the new one: wrong for five of
\* the sixteen nibbles, too early in the lower half and too late in the upper.
LEMMA DoubleOnBytes ==
    ASSUME NEW x \in Byte, NEW k \in BOOLEAN
    PROVE  Double(x, k) = Add(x, x, k) <=> x % 16 \notin (6 - Num(k)) .. (10 - Num(k))
<1> DEFINE c     == Num(k)
           n     == x % 16
           sum   == (2 * x + c) % 256
           early == n + (sum % 16) + c > 15
           due   == n + n + c > 15
           carry == 2 * x + c > 255
<1>1. c \in {0, 1}
  BY NumType
<1>2. x \in 0 .. 255 /\ n \in 0 .. 15
  BY DEF Byte
<1>3. sum % 16 = IF n < 8 THEN 2 * n + c ELSE 2 * n + c - 16
  <2> HIDE DEF c
  <2> QED
    BY <1>1, <1>2
<1>4. (early <=> due) <=> n \notin (6 - c) .. (10 - c)
  <2> HIDE DEF c, sum
  <2> QED
    BY <1>1, <1>2, <1>3
<1>5. Double(x, k) = Outcome(sum, FALSE, early, carry)
  BY DEF Double
<1>6. Add(x, x, k) = Outcome(sum, FALSE, due, carry)
  <2>1. x + x + c = 2 * x + c
    BY <1>1, <1>2
  <2> QED
    BY <2>1 DEF Add
<1>7. early \in BOOLEAN /\ due \in BOOLEAN
  OBVIOUS
<1>8. (6 - Num(k)) .. (10 - Num(k)) = (6 - c) .. (10 - c)
  OBVIOUS
<1> HIDE DEF early, due, carry, sum, c
<1>9. Outcome(sum, FALSE, early, carry) = Outcome(sum, FALSE, due, carry) <=> (early <=> due)
  <2>1. Outcome(sum, FALSE, early, carry) = Outcome(sum, FALSE, due, carry) => early = due
    <3> SUFFICES ASSUME Outcome(sum, FALSE, early, carry) = Outcome(sum, FALSE, due, carry)
                 PROVE  early = due
      OBVIOUS
    <3>1. \A h : Outcome(sum, FALSE, h, carry).flags.half_carry = h
      BY DEF Outcome
    <3>2. Outcome(sum, FALSE, early, carry).flags.half_carry
            = Outcome(sum, FALSE, due, carry).flags.half_carry
      OBVIOUS
    <3>3. Outcome(sum, FALSE, early, carry).flags.half_carry = early
      BY <3>1, Zenon
    <3>4. Outcome(sum, FALSE, due, carry).flags.half_carry = due
      BY <3>1, Zenon
    <3> QED
      BY <3>2, <3>3, <3>4, Zenon
  <2> QED
    BY <1>7, <2>1
<1>10. Double(x, k) = Add(x, x, k) <=> n \notin (6 - c) .. (10 - c)
  BY <1>4, <1>5, <1>6, <1>9, Zenon
<1> QED
  BY <1>8, <1>10, Zenon

\* opcode_internal.cc:203-235, 272-301: ADD A,A and ADC A,A are additions exactly
\* while the low nibble of A is outside 5 to 10; nothing else is wrong in them.
THEOREM DoublesOutsideNibble == DecimalSpec => [](DoublesAsAdd <=> a % 16 \notin 5 .. 10)
<1>1. TypeOKDecimal => (DoublesAsAdd <=> a % 16 \notin 5 .. 10)
  <2> SUFFICES ASSUME TypeOKDecimal
               PROVE  DoublesAsAdd <=> a % 16 \notin 5 .. 10
    OBVIOUS
  <2>1. a \in Byte /\ a % 16 \in 0 .. 15
    BY DEF TypeOKDecimal, TypeOK, Byte
  <2>2. /\ Double(a, FALSE) = Add(a, a, FALSE)
              <=> a % 16 \notin (6 - Num(FALSE)) .. (10 - Num(FALSE))
        /\ Double(a, TRUE) = Add(a, a, TRUE)
              <=> a % 16 \notin (6 - Num(TRUE)) .. (10 - Num(TRUE))
    BY <2>1, DoubleOnBytes, Zenon
  <2>3. Num(FALSE) = 0 /\ Num(TRUE) = 1
    BY DEF Num
  <2> DEFINE plain == Double(a, FALSE) = Add(a, a, FALSE)
             carried == Double(a, TRUE) = Add(a, a, TRUE)
             n == a % 16
  <2>4. DoublesAsAdd <=> plain /\ carried
    BY Zenon DEF DoublesAsAdd
  <2>5. (plain <=> n \notin 6 .. 10) /\ (carried <=> n \notin 5 .. 9)
    <3> HIDE DEF plain, carried
    <3>1. 6 - Num(FALSE) = 6 /\ 10 - Num(FALSE) = 10 /\ 6 - Num(TRUE) = 5 /\ 10 - Num(TRUE) = 9
      BY DEF Num
    <3> QED
      BY <2>2, <3>1, Zenon DEF plain, carried
  <2>6. n \notin 5 .. 10 <=> n \notin 6 .. 10 /\ n \notin 5 .. 9
    BY <2>1
  <2> HIDE DEF plain, carried, n
  <2>7. DoublesAsAdd <=> n \notin 5 .. 10
    BY <2>4, <2>5, <2>6, Zenon
  <2> QED
    BY <2>7 DEF n
<1> QED
  BY <1>1, TypeCorrect, PTL
===============================================================================
