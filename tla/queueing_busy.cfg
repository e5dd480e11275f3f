SPECIFICATION Spec
CONSTANTS
    e1 = e1
    e2 = e2
    e3 = e3
    Entries <- TwoEntries
    MaxRetx = 2
    BpDiffThresh = 2
    MaxSends = 3
    ControlOps = "never"
    RadioMayRefuse = TRUE
SYMMETRY Symmetry
INVARIANTS
    BusyMeansSending
