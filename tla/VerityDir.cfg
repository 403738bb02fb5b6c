SPECIFICATION Spec
CONSTANTS
    Paths <- MCPaths
    MetaNamed <- NoNames
    MetaInside = FALSE
    Contents <- MCContents
    WalkErrors = FALSE
    Openers = {o1, o2}
    MaxFormats = 2
    MaxChanges = 1
CHECK_DEADLOCK FALSE
INVARIANTS
    AsFormatted
    
    
