SPECIFICATION Spec
CONSTANTS
    r1 = r1
    r2 = r2
    r3 = r3
    a = a
    b = b
    c = c
    Runs = {r1, r2, r3}
    Inputs = {a, b, c}
    InputOf <- TwoOfOne
    Devices = 2
    OneAtATime = TRUE
    Writes = 2
    MaxKills = 2
INVARIANTS
    OutputIsOwn
