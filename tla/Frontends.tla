-------------------------------- MODULE Frontends -------------------------------
(***************************************************************************)
(* The frontends of the registry over one input: the one that matches it   *)
(* reads it, and the others do nothing.                                    *)
(***************************************************************************)
EXTENDS BcFront, Wasm

allVars == << frontVars, wasmVars >>

---------------------------------------------------------------------------
(* lr_frontend_detect: what begins like a WebAssembly file is one, else    *)
(* what begins like bitcode is that, and the rest is text.                 *)

NoWasm == wfile = EmptyWasm /\ wnames = <<>> /\ wphase = "" /\ wcur = ByteCursor(<<>>) /\ wtab = EmptyWasm
          /\ wmod = EmptyIr /\ wat = 0 /\ wctx = NoCtx /\ wses = EmptyIr
NoText == /\ src = NoModule /\ todo = << "done", 1 >> /\ text = <<>> /\ at = 1 /\ p = NewParser(ParserScope)
          /\ file = NoFile /\ phase = "" /\ r = NewReader /\ d = NewDecoder(ParserScope, <<>>)
          /\ frames = <<>> /\ last = NoRecord

lr_frontend_detect == (FrontInit /\ NoWasm) \/ (NoText /\ WasmInit)

(* The steps of the readers, and what each leaves to the others.           *)
TextStep(A) == A /\ UNCHANGED << bcVars, wasmVars >>
BcStep(A) == A /\ UNCHANGED wasmVars
WasmStep(A) == A /\ UNCHANGED frontVars

AnyNext ==
    \/ TextStep(DumpTypes) \/ TextStep(DumpGlobal) \/ TextStep(DumpDeclares) \/ TextStep(DumpFunc)
    \/ TextStep(DumpEnd) \/ TextStep(ParseText)
    \/ BcStep(WriteFile) \/ BcStep(Scan) \/ BcStep(PassOver) \/ BcStep(EnterInfo) \/ BcStep(EnterPlain)
    \/ BcStep(EnterTypes) \/ BcStep(EnterConstants) \/ BcStep(EnterBody) \/ BcStep(EndBlock)
    \/ BcStep(DefineAbbrev) \/ BcStep(InfoEntry) \/ BcStep(ModuleRecord) \/ BcStep(TypeRecord)
    \/ BcStep(ConstantRecord) \/ BcStep(BodyRecord) \/ BcStep(SymtabRecord) \/ BcStep(TopEntry)
    \/ BcStep(CutShort) \/ BcStep(DropBody) \/ BcStep(Refuse) \/ BcStep(EndFile)
    \/ WasmStep(DecodeSection) \/ WasmStep(DecodeEnd) \/ WasmStep(DeclareFuncs) \/ WasmStep(StartFunc)
    \/ WasmStep(ConvertBranch) \/ WasmStep(ConvertOperation) \/ WasmStep(EndFunc)
    \/ WasmStep(ReplayStart) \/ WasmStep(ReplayFunc) \/ WasmStep(ReplayEnd)

AnySpec == lr_frontend_detect /\ [][AnyNext]_allVars
=================================================================================
