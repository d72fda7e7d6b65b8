SPECIFICATION TimedSpec
CONSTANTS
    ByteSize = 2
    Ram = {0, 1}
    IfAddress = 2
    IeAddress = 3
    Vector <- MCVector
    RstTargets = {0, 3}
    BitsOf <- MCBitsOf
    Requests <- MCRequests
    PlainCycles = {1}
INVARIANT BranchesTakeLonger
