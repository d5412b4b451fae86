CONSTANTS
    Jits <- MCJits
    TypeTable <- MCTypeTable
    Targets = {1, 2}
    ModulesOf <- MCModulesOf
    CodeCap = 8
    EpochRange = 3
    MaxInvalidate = 2
    MaxTop = 2
SPECIFICATION Spec
CHECK_DEADLOCK FALSE
INVARIANTS PublishedIsCompiled NothingOutlivesInvalidation
