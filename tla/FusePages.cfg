SPECIFICATION Spec
CONSTANTS
    FileInfos <- MCFileInfos
    Tree <- MCTree
    Order <- MCOrder
    Listed <- MCListed
    BlockSize = 2
    BlockCacheSize = 1
    HandleCacheSize = 1
    PageSize = 3
    ReadRanges <- NoRanges
    Contents <- NoContents
    Replacements <- NoReplacements
    MaxChanges = 0
INVARIANT
    ListingComplete
