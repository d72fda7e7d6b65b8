SPECIFICATION FairSpec
CONSTANTS
    ByteSize = 3
    DivPeriod = 3
    DIVIDERS <- MCDIVIDERS
    TickCycles = {0, 1, 2, 3}
    MaxBacklog = 8
INVARIANT TypeOK
PROPERTIES
    RefinesIntervalTimer
    Punctual
    BacklogNeverGrows
    KeepsInterrupting
