CONSTANTS
    Texts <- MCTexts
    Target <- MCTarget
    Backend = 1
    MaxTries = 1
    LibcName <- MCLibc
    Stubs <- MCStubs
    MainName <- main
    StartName <- start
    ExitName <- MCExit
    FflushName <- MCFflush
    Kinds = {"link", "own", "import"}
SPECIFICATION Spec
INVARIANTS  SelectionClosed ImportAllOrNothing ReferencesReachMeaning NoBodyTwice  FileIsSound
CHECK_DEADLOCK FALSE
