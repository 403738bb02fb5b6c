SPECIFICATION FairSpec
CONSTANTS
  Images <- MCImages
  UserData <- MCUserData
  BindDirs <- MCDirs
  MaxBoots = 4
  MaxFaults = 2
INVARIANTS
  WritesAsConfigured
  RunsOnVerity
  StagesAgree
  OriginsComplete
PROPERTIES
  
  BootsAgain
CHECK_DEADLOCK FALSE
