SPECIFICATION FairSpec
CONSTANTS
    Commands = {"c1", "c2"}
    Files = {"f1", "f2"}
    Jobs <- MCJobs
    Contents <- MCContents
    InitialFiles <- MCFiles
    InitialDevs <- MCDevs
    InitialSecrets <- MCSecrets
    Order <- MCOrder
    MaxAttempts = 3
    MaxChanges = 1
INVARIANTS
    OneConfiguration
    

    
