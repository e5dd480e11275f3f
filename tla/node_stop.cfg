SPECIFICATION Spec
CONSTANTS
    e1 = e1  e2 = e2  e3 = e3  i1 = i1  i2 = i2
    Entries <- TwoEntries
    MaxRetx = 1
    BpDiffThresh = 2
    MaxSends = 65000
    RadioMayRefuse = FALSE
    Infos <- TwoInfos
    NFragments = 3
    MaxFrags = 2
    FakeLink = TRUE
    ControlOps = "anytime"
    Root = FALSE
    MaxFrames = 4
SYMMETRY Symmetry
PROPERTY StopWaits
