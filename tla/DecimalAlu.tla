------------------------------ MODULE DecimalAlu ------------------------------
(***************************************************************************)
(* Alu in step with a two-digit decimal calculator: what a program expects *)
(* of ADD, ADC, SUB and SBC on bytes of two decimal digits when DAA        *)
(* follows at once.                                                        *)
(***************************************************************************)
EXTENDS Alu

VARIABLES
    decimal,   \* "done": a is decimal; "due": it will be after DAA; "none"
    number     \* what the calculator shows, and its carry or borrow

dvars == <<vars, decimal, number>>

Digits(x)    == 10 * (x \div 16) + (x % 16)
IsDecimal(x) == x \in Byte /\ x % 16 < 10 /\ x \div 16 < 10

Shown == [value : 0 .. 99, carry : BOOLEAN]

Sum(n, m)        == [value |-> (n + m) % 100, carry |-> n + m > 99]
Difference(n, m) == [value |-> (n - m) % 100, carry |-> n - m < 0]

TypeOKDecimal ==
    /\ TypeOK
    /\ decimal \in {"done", "due", "none"}
    /\ number \in Shown

Zero == [value |-> 0, carry |-> FALSE]

DecimalInit == Init /\ decimal = "done" /\ number = Zero

Calculate ==
    /\ decimal = "done"
    /\ decimal' = "due"
    /\ \E y \in Operands, k \in {FALSE, f.carry} :
         /\ IsDecimal(y)
         /\ \/ Take(Add(a, y, k)) /\ number' = Sum(number.value, Digits(y) + Num(k))
            \/ Take(Sub(a, y, k)) /\ number' = Difference(number.value, Digits(y) + Num(k))

Adjust ==
    /\ decimal = "due"
    /\ decimal' = "done"
    /\ DAA
    /\ UNCHANGED number

LoadDecimal ==
    /\ decimal' = "done"
    /\ \E x \in Operands :
         /\ IsDecimal(x)
         /\ LoadA(x)
         /\ number' = [value |-> Digits(x), carry |-> f.carry]

ChangeCarry ==
    /\ decimal = "done"
    /\ \E k \in {TRUE, ~f.carry} : SetCarry(k) /\ number' = [number EXCEPT !.carry = k]
    /\ UNCHANGED decimal

\* The program computes something else, or does not mean the above as decimal.
Otherwise == Next /\ decimal' = "none" /\ number' = Zero

DecimalNext == Calculate \/ Adjust \/ LoadDecimal \/ ChangeCarry \/ Otherwise

DecimalSpec == DecimalInit /\ [][DecimalNext]_dvars

-------------------------------------------------------------------------------

\* opcode_internal.cc:738-764 with 203-399: two-digit decimal numbers may be
\* added and subtracted in chains of any length, with or without the carry of
\* the step before: DAA always leaves the digits and the carry of the result.
DaaIsDecimal ==
    decimal = "done" =>
        IsDecimal(a) /\ Digits(a) = number.value /\ f.carry = number.carry
===============================================================================
