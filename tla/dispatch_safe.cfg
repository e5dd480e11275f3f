SPECIFICATION Spec
CONSTANTS
    i1 = i1  i2 = i2  i3 = i3
    Infos <- ThreeInfos
    NFragments = 4
    Kinds = {"data"}
    MaxFrags = 3
    FakeLink = FALSE
    ControlOps = "anytime"
SYMMETRY Symmetry
INVARIANTS BuffersConserved RefcountsExact DoneFindsHead IidReturnedOnce
PROPERTY StopWaits
