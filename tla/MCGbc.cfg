SPECIFICATION FairSpec
CONSTANTS
    MCycles = {0, 1}
    ClocksPerCycle = 2
    Headless = FALSE
    Keys = {"A"}
    Selections <- MCSelections
    Controls <- MCControls
    MaxEvents = 2
    TimerByteSize = 2
    TimerDivPeriod = 4
    TimerDIVIDERS <- MCDIVIDERS
    PpuByteSize = 3
    ClocksOam = 2
    ClocksVram = 2
    ClocksHblank = 2
    VisibleLines = 1
    VblankLines = 1
    CommonClocks = 4
INVARIANTS
    TypeOK
    InLockstep
    NoStuckKey
PROPERTIES
    PartsKeepTime
    KeysArrive
    SigintReturns
    CloseReturns
\* The loop returns.
CHECK_DEADLOCK FALSE
