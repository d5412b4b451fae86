CONSTANTS
    Modules <- NoInputs
    Texts <- NoInputs
    ParserScope = 9
    Names <- MCNames
    Files <- NoInputs
    WasmFiles <- MCMixedFiles
    Sessions <- MCSessions
    Arguments <- MCArguments
    MaxStack = 8
    MaxCtrl = 5
SPECIFICATION AnySpec
CHECK_DEADLOCK FALSE
INVARIANT FunctionsMeanWasm
