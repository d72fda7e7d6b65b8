SPECIFICATION BalancedSpec
CONSTANTS
    ByteSize = 3
    Ram = {2, 3, 4, 5}
    Bottom = 2
    Top = 6
    IfAddress = 7
    IeAddress = 8
    Vector <- MCVector
    RstTargets = {0}
    BitsOf <- MCBitsOf
    Requests <- MCRequests
    PlainCycles = {1}
INVARIANT StackInStep
PROPERTY RefinesCallStack
