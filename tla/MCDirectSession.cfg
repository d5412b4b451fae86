SPECIFICATION Spec
CONSTANTS
    f = f
    g = g
    x = x
    Names <- MCNames
    FuncNames = {f, g}
    OtherNames = {x}
    HostNames = {}
    LibNames = {x}
    NULL = NULL
    CodeCap = 7
    Builtins = 1
    Align = 2
    MaxCalls = 1
    MaxBegins = 3
    LazyJit = FALSE
SYMMETRY FuncSymmetry
INVARIANTS
    UnboundIsPending
    BlobsMatchCode
    OpenFunctionsKept
    LookupBindsAll
    CallsMatchLookup
    NoStaleCode
    LateBindingAtLookup
