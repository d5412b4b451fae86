---------------------------------- MODULE Wasm ----------------------------------
(***************************************************************************)
(* A WebAssembly file on its way into a session: decoded section by        *)
(* section, converted instruction by instruction, replayed function by     *)
(* function.  A file is given by what it contains; how that is written as  *)
(* bytes and what it does when it runs is stated here after the definition *)
(* of WebAssembly, not after the code.                                     *)
(***************************************************************************)
EXTENDS WasmToIr

CONSTANTS
    WasmFiles,  \* [w |-> tables with parsed bodies, pad |-> numbers as long as they may be]
    Sessions,   \* the names that sessions have interned before
    Arguments   \* what the functions are called with

VARIABLES
    wfile,   \* the file
    wnames,  \* what the session had interned
    wphase,  \* decode, declare, convert, replay, done, failed
    wcur,    \* the decoder's cursor
    wtab,    \* the decoded tables
    wmod,    \* the module that is built
    wat,     \* the function that is converted or replayed
    wctx,    \* its converter, if any
    wses     \* the session's module
wasmVars == << wfile, wnames, wphase, wcur, wtab, wmod, wat, wctx, wses >>

---------------------------------------------------------------------------
(* The file as bytes.  An instruction is its opcode, a number, a block     *)
(* type and up to two bodies.                                              *)

Instr(op, n, t, a, b) == [op |-> op, n |-> n, t |-> t, a |-> a, b |-> b]

RECURSIVE Unsigned(_), Signed(_)
Unsigned(n) == IF n < 128 THEN << n >> ELSE << 128 + (n % 128) >> \o Unsigned(n \div 128)
Signed(n) == IF n \in -64..63 THEN << n % 128 >> ELSE << 128 + (n % 128) >> \o Signed(n \div 128)
Padded(b, len, neg) ==
    [i \in 1..len |-> IF i = len THEN (IF i = Len(b) THEN b[i] ELSE IF neg THEN 127 ELSE 0)
                      ELSE IF i < Len(b) THEN b[i] ELSE IF i = Len(b) THEN b[i] + 128
                      ELSE IF neg THEN 255 ELSE 128]
U32(n, pad) == IF pad THEN Padded(Unsigned(n), 5, FALSE) ELSE Unsigned(n)
S32(n, pad) == IF pad THEN Padded(Signed(n), 5, n < 0) ELSE Signed(n)
S64(n, pad) == IF pad THEN Padded(Signed(n), 10, n < 0) ELSE Signed(n)
Listed(items, pad) == U32(Len(items), pad) \o FlattenSeq(items)
Name(b, pad) == U32(Len(b), pad) \o b

RECURSIVE Code(_, _)
Code(body, pad) ==
    IF body = <<>> THEN <<>>
    ELSE LET y == Head(body)
             imm == CASE y.op \in {2, 3, 4} ->
                         << y.t >> \o Code(y.a, pad)
                           \o (IF y.b # <<>> THEN << 5 >> \o Code(y.b, pad) ELSE <<>>) \o << 11 >>
                      [] y.op \in {12, 13, 16, 32, 33, 34} -> U32(y.n, pad)
                      [] y.op \in {40, 41, 54, 55} -> U32(2, pad) \o U32(y.n, pad)
                      [] y.op = 65 -> S32(y.n, pad)
                      [] y.op = 66 -> S64(y.n, pad)
                      [] OTHER -> <<>>
         IN  << y.op >> \o imm \o Code(Tail(body), pad)
Body(code, pad) == Code(code.body, pad) \o << 11 >>

Section(id, content, pad) == << id >> \o U32(Len(content), pad) \o content
Encoded(seq, Enc(_)) == [i \in DOMAIN seq |-> Enc(seq[i])]

Encode(f) ==
    LET p == f.pad
        type(t) == << 96 >> \o Listed(Encoded(t.params, LAMBDA b : << b >>), p)
                           \o Listed(Encoded(t.results, LAMBDA b : << b >>), p)
        import(i) == Name(<< 101 >>, p) \o Name(i.name, p) \o << i.kind >>
                       \o (CASE i.kind = 0 -> U32(i.type, p) [] i.kind = 2 -> << 1 >> \o U32(1, p) \o U32(200, p)
                             [] i.kind = 3 -> << 127, 0 >>)
        mem(l) == << Len(l) - 1 >> \o FlattenSeq(Encoded(l, LAMBDA n : U32(n, p)))
        init(t, n) == << IF t = 126 THEN 66 ELSE 65 >> \o (IF t = 126 THEN S64(n, p) ELSE S32(n, p)) \o << 11 >>
        global(g) == << g.type, IF g.mutable THEN 1 ELSE 0 >> \o init(g.type, g.init)
        export(e) == Name(e.name, p) \o << e.kind >> \o U32(e.index, p)
        code(k) == LET groups == Listed(Encoded(k.groups, LAMBDA g : U32(g.count, p) \o << g.type >>), p)
                   IN  U32(Len(groups \o Body(k, p)), p) \o groups \o Body(k, p)
        data(d) == U32(IF d.mem = 0 THEN 0 ELSE 2, p) \o (IF d.mem = 0 THEN <<>> ELSE U32(d.mem, p))
                     \o init(127, d.offset) \o Name(d.bytes, p)
    IN  Magic \o Section(1, Listed(Encoded(f.w.types, type), p), p)
          \o Section(2, Listed(Encoded(f.w.imports, import), p), p)
          \o Section(3, Listed(Encoded(f.w.funcs, LAMBDA t : U32(t, p)), p), p)
          \o Section(5, Listed(Encoded(f.w.memories, mem), p), p)
          \o Section(0, << 1, 110, 9, 9 >>, p)
          \o Section(6, Listed(Encoded(f.w.globals, global), p), p)
          \o Section(7, Listed(Encoded(f.w.exports, export), p), p)
          \o Section(10, Listed(Encoded(f.w.codes, code), p), p)
          \o Section(11, Listed(Encoded(f.w.data, data), p), p)

---------------------------------------------------------------------------
(* The steps.                                                              *)

NoCtx == [f |-> << >>, failed |-> FALSE]

WasmInit ==
    /\ wfile \in WasmFiles /\ wnames \in Sessions
    /\ wphase = "decode" /\ wcur = decode_start(Encode(wfile)) /\ wtab = EmptyWasm
    /\ wmod = EmptyIr /\ wat = 0 /\ wctx = NoCtx /\ wses = [EmptyIr EXCEPT !.syms = wnames]

DecodeSection ==
    /\ wphase = "decode" /\ ~wcur.failed /\ wcur.pos <= Len(wcur.data)
    /\ LET r == decode_section(wcur, wtab) IN wcur' = r.c /\ wtab' = r.v
    /\ UNCHANGED << wfile, wnames, wphase, wmod, wat, wctx, wses >>

DecodeEnd ==
    /\ wphase = "decode" /\ (wcur.failed \/ wcur.pos > Len(wcur.data))
    /\ wphase' = IF wcur.failed THEN "failed" ELSE "declare"
    /\ UNCHANGED << wfile, wnames, wcur, wtab, wmod, wat, wctx, wses >>

(* The functions, imports first, before any body is converted.  A type     *)
(* that is not there ends the conversion.                                  *)
DeclareFuncs ==
    /\ wphase = "declare"
    /\ LET imported == FoldLeft(LAMBDA acc, i : DeclareImport(acc, wtab, i), wmod, FuncImports(wtab))
       IN  wmod' = FoldLeft(LAMBDA acc, i : CreateFunc(acc, wtab, i), imported, [i \in DOMAIN wtab.funcs |-> i])
    /\ wphase' = IF wmod'.failed THEN "failed" ELSE "convert"
    /\ wat' = 1
    /\ UNCHANGED << wfile, wnames, wcur, wtab, wctx, wses >>

(* Bodies belong to the functions behind the imports.                      *)
FuncAt(i) == Len(FuncImports(wtab)) + i
BodyLeft == wat <= Len(wtab.funcs) /\ wat <= Len(wtab.codes) /\ FuncAt(wat) <= Len(wmod.funcs)

StartFunc ==
    /\ wphase = "convert" /\ wctx = NoCtx /\ BodyLeft
    /\ wctx' = convert_start(wmod.funcs[FuncAt(wat)], wtab.codes[wat])
    /\ UNCHANGED << wfile, wnames, wphase, wcur, wtab, wmod, wat, wses >>

Converting == wphase = "convert" /\ wctx # NoCtx /\ ~wctx.failed /\ wctx.c.pos <= Len(wctx.c.data)
ConvertInst(ops) ==
    /\ Converting /\ Opcode(wctx) \in ops
    /\ wctx' = convert_inst(wctx, wtab)
    /\ UNCHANGED << wfile, wnames, wphase, wcur, wtab, wmod, wat, wses >>
ConvertBranch == ConvertInst(0..16)
ConvertOperation == ConvertInst(17..255)

EndFunc ==
    /\ wphase = "convert" /\ wctx # NoCtx /\ (wctx.failed \/ wctx.c.pos > Len(wctx.c.data))
    /\ IF wctx.failed THEN wphase' = "failed" /\ UNCHANGED << wmod, wat, wctx >>
       ELSE /\ wmod' = [wmod EXCEPT !.funcs[FuncAt(wat)] = convert_end(wctx).f]
            /\ wat' = wat + 1 /\ wctx' = NoCtx /\ UNCHANGED wphase
    /\ UNCHANGED << wfile, wnames, wcur, wtab, wses >>

(* The session interns all names, then takes one function after the other. *)
ReplayStart ==
    /\ wphase = "convert" /\ wctx = NoCtx /\ ~BodyLeft
    /\ wphase' = "replay" /\ wat' = 1 /\ wses' = InternAll(wses, wmod.funcs)
    /\ UNCHANGED << wfile, wnames, wcur, wtab, wmod, wctx >>

ReplayFunc ==
    /\ wphase = "replay" /\ wat <= Len(wmod.funcs)
    /\ wses' = IF IsDecl(wmod.funcs[wat]) THEN AddFunc(wses, wmod.funcs[wat])
            ELSE replay_function_to_session(wmod.funcs[wat], wses, wmod)
    /\ wat' = wat + 1
    /\ UNCHANGED << wfile, wnames, wphase, wcur, wtab, wmod, wctx >>

ReplayEnd ==
    /\ wphase = "replay" /\ wat > Len(wmod.funcs)
    /\ wphase' = "done" /\ UNCHANGED << wfile, wnames, wcur, wtab, wmod, wat, wctx, wses >>

WasmNext ==
    \/ DecodeSection \/ DecodeEnd \/ DeclareFuncs \/ StartFunc \/ ConvertBranch \/ ConvertOperation
    \/ EndFunc \/ ReplayStart \/ ReplayFunc \/ ReplayEnd

WasmSpec == WasmInit /\ [][WasmNext]_wasmVars

---------------------------------------------------------------------------
(* What a function does: the calls and the memory accesses it makes, and   *)
(* how it ends.  Words are 8 and 16 bits here.  A callee, the memory and   *)
(* the operators that no test tells apart otherwise are fixed functions.   *)

WordBits(t) == CASE t = I1 -> 2 [] t = I32 -> 8 [] OTHER -> 16
Wrapped(t, n) == LowBits(n, WordBits(t))
WordOf(vt, n) == Wrapped(wasm_to_lr_type(vt), n)
Weight(seq) == FoldLeft(LAMBDA acc, n : (3 * acc + n) % 1000, Len(seq), seq)

BinOps == << "sdiv", "udiv", "srem", "urem", "and", "or", "xor", "shl", "ashr", "lshr" >>
Compute(op, t, a, b) ==
    Wrapped(t, CASE op = "add" -> a + b [] op = "sub" -> a - b [] op = "mul" -> a * b
              [] OTHER -> 3 * a + 5 * b + 11 * SelectInSeq(BinOps, LAMBDA o : o = op))
Compare(pred, t, a, b) ==
    LET u(n) == n % (2 ^ WordBits(t))
        holds == CASE pred = "eq" -> a = b [] pred = "ne" -> a # b
                   [] pred = "slt" -> a < b [] pred = "sgt" -> a > b
                   [] pred = "sle" -> a <= b [] pred = "sge" -> a >= b
                   [] pred = "ult" -> u(a) < u(b) [] pred = "ugt" -> u(a) > u(b)
                   [] pred = "ule" -> u(a) <= u(b) [] pred = "uge" -> u(a) >= u(b)
    IN  IF holds THEN 1 ELSE 0
CallValue(t, name, args) == Wrapped(t, Weight(name) + 7 * Weight(args))
MemoryValue(t, addr, before) == Wrapped(t, 5 * addr + Len(before))

(* How a run ended: ret, trap, or stuck, if it does not end.               *)
Outcome(r) == IF r.out = "stuck" THEN [out |-> "stuck"] ELSE [out |-> r.out, val |-> r.val, tr |-> r.tr]
Laps == 4           \* how often a run that ends goes back to a loop
BlockFuel == 30          \* the blocks it may enter meanwhile

---------------------------------------------------------------------------
(* The meaning of WebAssembly code.  A branch leaves as many blocks as its *)
(* depth says; the block that is left keeps its results and nothing else.  *)

WasmFuncType(t, i) ==
    LET imps == FuncImports(t)
    IN  t.types[(IF i < Len(imps) THEN imps[i + 1].type ELSE t.funcs[i - Len(imps) + 1]) + 1]
WasmFuncName(t, i) ==
    LET imps == FuncImports(t) IN IF i < Len(imps) THEN imps[i + 1].name ELSE FuncName(t, i - Len(imps) + 1)

OpNames == << "add", "sub", "mul", "sdiv", "udiv", "srem", "urem", "and", "or", "xor", "shl", "ashr", "lshr" >>
PredNames == << "eq", "ne", "slt", "ult", "sgt", "ugt", "sle", "ule", "sge", "uge" >>

Pop(r, n) == SubSeq(r.st, 1, Len(r.st) - n)
PushValue(r, n, v) == [r EXCEPT !.st = Append(Pop(r, n), v)]
Arg(r, n) == r.st[Len(r.st) - n]

ExecValue(r, y, t) ==
    CASE y.op \in {0, 15} ->
           [r EXCEPT !.out = IF y.op = 0 THEN "trap" ELSE "ret",
                     !.val = IF y.op = 15 /\ r.rt # <<>> THEN Arg(r, 0) ELSE 0]
      [] y.op = 1 -> r
      [] y.op = 12 -> [r EXCEPT !.out = "br", !.depth = y.n]
      [] y.op = 13 -> LET q == [r EXCEPT !.st = Pop(r, 1)]
                      IN  IF Arg(r, 0) # 0 THEN [q EXCEPT !.out = "br", !.depth = y.n] ELSE q
      [] y.op = 16 -> LET ft == WasmFuncType(t, y.n)
                          n == Len(ft.params)
                          args == SubSeq(r.st, Len(r.st) - n + 1, Len(r.st))
                          name == WasmFuncName(t, y.n)
                          q == [r EXCEPT !.tr = Append(@, << "call", name, args >>), !.st = Pop(r, n)]
                      IN  IF ft.results = <<>> THEN q
                          ELSE PushValue(q, 0, CallValue(wasm_to_lr_type(ft.results[1]), name, args))
      [] y.op = 26 -> [r EXCEPT !.st = Pop(r, 1)]
      [] y.op = 27 -> PushValue(r, 3, IF Arg(r, 0) # 0 THEN Arg(r, 2) ELSE Arg(r, 1))
      [] y.op = 32 -> PushValue(r, 0, r.loc[y.n + 1])
      [] y.op = 33 -> [r EXCEPT !.loc[y.n + 1] = Arg(r, 0), !.st = Pop(r, 1)]
      [] y.op = 34 -> [r EXCEPT !.loc[y.n + 1] = Arg(r, 0)]
      [] y.op \in {40, 41} ->
           LET ty == IF y.op = 41 THEN I64 ELSE I32
               addr == Wrapped(I32, Arg(r, 0) + y.n)
           IN  [PushValue(r, 1, MemoryValue(ty, addr, r.tr)) EXCEPT !.tr = Append(@, << "load", ty, addr >>)]
      [] y.op \in {54, 55} ->
           [r EXCEPT !.st = Pop(r, 2),
                     !.tr = Append(@, << "store", IF y.op = 55 THEN I64 ELSE I32,
                                         Wrapped(I32, Arg(r, 1) + y.n), Arg(r, 0) >>)]
      [] y.op = 65 -> PushValue(r, 0, Wrapped(I32, y.n))
      [] y.op = 66 -> PushValue(r, 0, Wrapped(I64, y.n))
      [] y.op \in {69, 80} -> PushValue(r, 1, IF Arg(r, 0) = 0 THEN 1 ELSE 0)
      [] y.op \in 70..79 -> PushValue(r, 2, Compare(PredNames[y.op - 69], I32, Arg(r, 1), Arg(r, 0)))
      [] y.op \in 81..90 -> PushValue(r, 2, Compare(PredNames[y.op - 80], I64, Arg(r, 1), Arg(r, 0)))
      [] y.op \in 106..118 -> PushValue(r, 2, Compute(OpNames[y.op - 105], I32, Arg(r, 1), Arg(r, 0)))
      [] y.op \in 124..136 -> PushValue(r, 2, Compute(OpNames[y.op - 123], I64, Arg(r, 1), Arg(r, 0)))
      [] y.op = 167 -> PushValue(r, 1, Wrapped(I32, Arg(r, 0)))
      [] y.op = 172 -> r
      [] y.op = 173 -> PushValue(r, 1, Arg(r, 0) % 256)

(* The end of a block that began with the stack st.                        *)
Leave(r, st, t) ==
    LET kept == IF t = 64 \/ r.out # "go" THEN st ELSE Append(st, Last(r.st))
    IN  IF r.out = "go" THEN [r EXCEPT !.st = kept]
        ELSE IF r.out = "br" /\ r.depth = 0 THEN [r EXCEPT !.out = "go", !.st = kept]
        ELSE IF r.out = "br" THEN [r EXCEPT !.depth = @ - 1] ELSE r

RECURSIVE Exec(_, _, _)
Exec(r, body, t) ==
    IF body = <<>> \/ r.out # "go" THEN r
    ELSE LET y == Head(body)
             st == IF y.op = 4 THEN Pop(r, 1) ELSE r.st
             inner == Exec([r EXCEPT !.st = st],
                           IF y.op = 4 /\ Arg(r, 0) = 0 THEN y.b ELSE y.a, t)
             again == y.op = 3 /\ inner.out = "br" /\ inner.depth = 0
         IN  IF y.op \notin {2, 3, 4} THEN Exec(ExecValue(r, y, t), Tail(body), t)
             ELSE IF again
             THEN Exec([inner EXCEPT !.out = IF inner.laps = 0 THEN "stuck" ELSE "go",
                                     !.laps = @ - 1, !.st = st], body, t)
             ELSE Exec(Leave(inner, st, y.t), Tail(body), t)

(* The i-th function with a body.                                          *)
WasmRun(t, i, args) ==
    LET ft == t.types[t.funcs[i] + 1]
        zeros == [j \in DOMAIN Declared(t.codes[i].groups) |-> 0]
        r == Exec([out |-> "go", depth |-> 0, val |-> 0, tr |-> <<>>, st |-> <<>>, laps |-> Laps, rt |-> ft.results,
                   loc |-> [j \in DOMAIN ft.params |-> WordOf(ft.params[j], args[j])] \o zeros],
                  t.codes[i].body, t)
    IN  Outcome(IF r.out \in {"go", "br"}
                THEN [r EXCEPT !.out = "ret", !.val = IF ft.results = <<>> THEN 0 ELSE Last(r.st)]
                ELSE r)

---------------------------------------------------------------------------
(* The meaning of the IR that the converter makes.                         *)

Garbage == 77       \* what a register or slot holds before it is written

ValueIn(r, o) == IF o.k = "imm" THEN Wrapped(o.t, o.n) ELSE IF o.n \in DOMAIN r.regs THEN r.regs[o.n] ELSE Garbage
SetReg(r, d, v) == [r EXCEPT !.regs = (d :> v) @@ @]

IrStep(r, inst, syms) ==
    LET v(i) == ValueIn(r, inst.o[i])
        slot(i) == inst.o[i].n \in DOMAIN r.slots
        t == inst.t
    IN  CASE inst.op = "alloca" -> [r EXCEPT !.slots = (inst.d :> Garbage) @@ @]
          [] inst.op = "load" /\ slot(1) -> SetReg(r, inst.d, r.slots[inst.o[1].n])
          [] inst.op = "load" /\ ~slot(1) ->
               [SetReg(r, inst.d, MemoryValue(t, v(1), r.tr)) EXCEPT !.tr = Append(@, << "load", t, v(1) >>)]
          [] inst.op = "store" /\ slot(2) -> [r EXCEPT !.slots[inst.o[2].n] = v(1)]
          [] inst.op = "store" /\ ~slot(2) ->
               [r EXCEPT !.tr = Append(@, << "store", inst.o[1].t, v(2), v(1) >>)]
          [] inst.op = "inttoptr" -> SetReg(r, inst.d, v(1))
          [] inst.op = "icmp" -> SetReg(r, inst.d, Compare(inst.p, inst.o[1].t, v(1), v(2)))
          [] inst.op = "select" -> SetReg(r, inst.d, IF v(1) # 0 THEN v(2) ELSE v(3))
          [] inst.op = "trunc" -> SetReg(r, inst.d, Wrapped(t, v(1)))
          [] inst.op = "sext" -> SetReg(r, inst.d, v(1))
          [] inst.op = "zext" -> SetReg(r, inst.d, v(1) % (2 ^ WordBits(inst.o[1].t)))
          [] inst.op = "call" ->
               LET name == syms[inst.o[1].s]
                   args == [i \in 1..(Len(inst.o) - 1) |-> v(i + 1)]
                   q == [r EXCEPT !.tr = Append(@, << "call", name, args >>)]
               IN  IF t = Void THEN q ELSE SetReg(q, inst.d, CallValue(t, name, args))
          [] inst.op = "ret" -> [r EXCEPT !.out = "ret", !.val = v(1)]
          [] inst.op = "retvoid" -> [r EXCEPT !.out = "ret"]
          [] inst.op = "unreachable" -> [r EXCEPT !.out = "trap"]
          [] inst.op = "br" -> [r EXCEPT !.out = "jump", !.to = inst.o[1].n]
          [] inst.op = "condbr" -> [r EXCEPT !.out = "jump", !.to = IF v(1) # 0 THEN inst.o[2].n ELSE inst.o[3].n]
          [] OTHER -> SetReg(r, inst.d, Compute(inst.op, t, v(1), v(2)))

RunBlock(r, f, syms) ==
    FoldLeft(LAMBDA acc, inst : IF acc.out = "go" THEN IrStep(acc, inst, syms) ELSE acc,
             [r EXCEPT !.out = "go"], f.blocks[r.to].insts)
RECURSIVE IrExec(_, _, _)
IrExec(r, f, syms) ==
    IF r.out # "jump" THEN r
    ELSE IF r.fuel = 0 THEN [r EXCEPT !.out = "stuck"]
    ELSE IrExec(RunBlock([r EXCEPT !.fuel = @ - 1], f, syms), f, syms)

IrRun(f, args, syms) ==
    Outcome(IrExec([out |-> "jump", to |-> 1, val |-> 0, tr |-> <<>>, fuel |-> BlockFuel, slots |-> << >>,
                    regs |-> [r \in 0..(Len(f.params) - 1) |-> Wrapped(f.params[r + 1], args[r + 1])]],
                   f, syms))

---------------------------------------------------------------------------
(* Properties.                                                             *)

HasBody == DOMAIN wfile.w.codes

(* The functions that convert_func_body makes do what the file says, for   *)
(* every argument: the same calls and memory accesses in the same order,   *)
(* the same result, a trap where there is one.                             *)
FunctionsMeanWasm ==
    wphase = "convert" =>
        \A i \in {j \in HasBody : j < wat} : \A args \in Arguments :
            IrRun(wmod.funcs[FuncAt(i)], args, wmod.syms) = WasmRun(wfile.w, i, args)

(* After lr_wasm_to_session the session's functions of these names do the  *)
(* same, whatever names the session had before.                            *)
ReplayedMeansModule ==
    wphase = "done" =>
        \A i \in HasBody : \A args \in Arguments :
            \E f \in Range(wses.funcs) :
                /\ f.name = WasmFuncName(wfile.w, Len(FuncImports(wfile.w)) + i - 1)
                /\ IrRun(f, args, wses.syms) = WasmRun(wfile.w, i, args)

(* The nesting of code, and the operands it needs on top of h.             *)
RECURSIVE Nesting(_)
Nesting(body) ==
    Max({0} \cup {1 + Max({Nesting(body[i].a), Nesting(body[i].b)}) :
                  i \in {j \in DOMAIN body : body[j].op \in {2, 3, 4}}})

Effect(y, t) ==
    CASE y.op = 16 -> Len(WasmFuncType(t, y.n).results) - Len(WasmFuncType(t, y.n).params)
      [] y.op \in {32, 65, 66} -> 1
      [] y.op \in {13, 26, 33} \cup (70..79) \cup (81..90) \cup (106..118) \cup (124..136) -> -1
      [] y.op \in {27, 54, 55} -> -2
      [] OTHER -> 0
RECURSIVE Need(_, _, _)
Need(body, h, t) ==
    IF body = <<>> THEN h
    ELSE LET y == Head(body)
             h0 == IF y.op = 4 THEN h - 1 ELSE h
             h1 == IF y.op \in {2, 3, 4} THEN h0 + (IF y.t = 64 THEN 0 ELSE 1) ELSE h + Effect(y, t)
         IN  Max({h, Need(y.a, h0, t), Need(y.b, h0, t)}
                 \cup (IF y.op \in {0, 12, 15} THEN {} ELSE {Need(Tail(body), h1, t)}))

MissingType(t) ==
    \E n \in Range(t.funcs) \cup {imp.type : imp \in Range(FuncImports(t))} : n >= Len(t.types)

(* A file is refused exactly when a function nests deeper, or needs more   *)
(* operands at a time, than the converter has room for, or when a function *)
(* has a type that is not there: nothing valid is refused below the limits *)
(* of ctrl_push and vpush.                                                 *)
RefusedIffTooDeep ==
    LET deep == \E i \in HasBody :
                  \/ Nesting(wfile.w.codes[i].body) + 1 > MaxCtrl
                  \/ Need(wfile.w.codes[i].body, 0, wfile.w) > MaxStack
        bad == MissingType(wfile.w) \/ deep
    IN  /\ wphase = "failed" => bad
        /\ wphase \in {"replay", "done"} => ~bad
=================================================================================
