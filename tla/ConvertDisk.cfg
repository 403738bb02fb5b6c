SPECIFICATION FairSpec
CONSTANTS
    EtcKinds <- AllKinds
    MaxRuns = 2
INVARIANTS
    SafeTeardown
    NothingLeft
    
    EtcRestored
PROPERTY
    TrapEnds
