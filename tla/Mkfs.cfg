SPECIFICATION FairSpec
CONSTANTS
    Cpus = {c1, c2}
    LoopDevices = 2
    PageSectors = 2
    DeviceSectors = 5
    RelayCapacity = 3
    ChannelCapacity = 1
    Ops <- MCOps
    MaxOps = 3
    MaxAttempts = 1
INVARIANTS
    OwnLoopDevice
    ReplayComplete
    OnlyTouched
PROPERTY
    MkfsReturns
