SPECIFICATION DecimalSpec
CONSTANT Operands = {0, 1, 9, 15, 69, 80, 85, 128, 153, 255}
INVARIANTS
    TypeOKDecimal
    SubUndoesAdd
    RotatesUndone
    WordsAsBytes
    DaaIsDecimal
