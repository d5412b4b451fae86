CONSTANTS
    WordBits = 3
    MaxBlocks = 4
    FuncTypes <- MCFuncTypes
    NumParams <- MCNumParams
    MaxCalls <- MCMaxCalls
    LocalNames <- MCLocalNames
    SymbolNames <- MCSymbolNames
    SharedNames <- MCSharedNames
SPECIFICATION Spec
CHECK_DEADLOCK FALSE
INVARIANTS
    ListsWellFormed
    OperandsMeanTheirValues
    RefsFollowRename
    NamesDistinct
    SwitchMeansCases
    FoldedAsComputed
