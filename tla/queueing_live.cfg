SPECIFICATION FairSpec
CONSTANTS
    e1 = e1
    e2 = e2
    e3 = e3
    Entries <- ThreeEntries
    MaxRetx = 1
    BpDiffThresh = 2
    MaxSends = 4
    ControlOps = "never"
    RadioMayRefuse = FALSE
PROPERTIES
    BacklogDrains
INVARIANTS
    NoStall
