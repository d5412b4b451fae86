SPECIFICATION Spec
CONSTANTS
    Programs <- MCPrograms
    Raws = {5, 12}
    FrameMax = 40
    BufLen = 90
    Fuel = 200
INVARIANTS
    CodeMeansFunction
    FinalizeKeepsMeaning
    SlotsDisjoint
CHECK_DEADLOCK FALSE
