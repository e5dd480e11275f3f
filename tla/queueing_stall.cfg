SPECIFICATION Spec
CONSTANTS
    e1 = e1
    e2 = e2
    e3 = e3
    Entries <- TwoEntries
    MaxRetx = 2
    BpDiffThresh = 2
    MaxSends = 4
    ControlOps = "quiet"
    RadioMayRefuse = TRUE
SYMMETRY Symmetry
INVARIANT NoStall
