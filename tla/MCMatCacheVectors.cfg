CONSTANTS
    Jits <- MCJits
    TypeTable <- VectorTypeTable
    Targets = {1, 2}
    ModulesOf <- VectorModulesOf
    CodeCap = 8
    EpochRange = 3
    MaxInvalidate = 2
    MaxTop = 2
SPECIFICATION Spec
CHECK_DEADLOCK FALSE
INVARIANTS PublishedIsCompiled
