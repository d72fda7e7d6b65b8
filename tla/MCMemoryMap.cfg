SPECIFICATION MCSpec
CONSTANTS
    Address <- MCAddress
    Values = {0, 192, 254, 255}
    DeviceValues = {5}
    BOOT <- MCBOOT
    CARTRIDGE <- MCCARTRIDGE
    MaxStored = 2
INVARIANTS
    TypeOK
    LoadsYieldThePicture
