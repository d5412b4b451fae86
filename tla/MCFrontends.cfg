CONSTANTS
    Modules <- MCModules
    Texts <- MCTexts
    ParserScope = 9
    Names <- MCNames
    Files <- MCFiles
    WasmFiles <- MCWasmFiles
    Sessions <- MCSessions
    Arguments <- MCArguments
    MaxStack = 8
    MaxCtrl = 5
SPECIFICATION AnySpec
CHECK_DEADLOCK FALSE
INVARIANTS
    DumpMeansModule
    ParsedMeansText
    DecodedMeansModule
    FunctionsMeanWasm
    ReplayedMeansModule
    RefusedIffTooDeep
PROPERTIES
    RecordsReadAsWritten
