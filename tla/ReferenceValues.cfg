SPECIFICATION Spec
CONSTANTS
    Main = c1
    Commands = {c1, c2}
    Devices = 2
    Udev = TRUE
    MaxKills = 1
    Requests <- MCRequests
INVARIANTS
    KeepsDevice
    
    
    
