SPECIFICATION Spec
CONSTANTS
    FileInfos <- MCFileInfos
    Tree <- MCTree
    Order <- MCOrder
    Listed <- MCListed
    BlockSize = 2
    BlockCacheSize = 1
    HandleCacheSize = 0
    PageSize = 9
    ReadRanges <- MCRanges
    Contents <- MCContents
    Replacements <- MCReplacements
    MaxChanges = 1
INVARIANTS
    ReadExact
    ListingComplete
    OnlyRecorded
