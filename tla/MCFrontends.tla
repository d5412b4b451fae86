------------------------------- MODULE MCFrontends ------------------------------
(***************************************************************************)
(* Small modules and texts: each has every kind of instruction, operand    *)
(* and initial value somewhere, and the definitions come in every order.   *)
(* The WebAssembly files are those of WasmInputs.                          *)
(***************************************************************************)
EXTENDS Frontends

S(name) == <<name, 0>>
L(name, scope) == <<name, scope>>
R(n, t) == VRegOp(n, t)
C(n) == ImmOp(n, I32)
B(n) == BlockOp(n)
G(sym) == GlobalOp(sym, 0, Ptr)
Cmp(pr, dest, a, b) == [InstOf(IF IsFp(a.t) THEN "fcmp" ELSE "icmp", dest, I1, << a, b >>) EXCEPT !.p = pr]
Blk(insts) == BlockOf(NoName, insts)
Named(label, insts) == BlockOf(<<label, 0>>, insts)
Indexed(op, dest, t, o, idx) == [InstOf(op, dest, t, o) EXCEPT !.idx = idx]
Ret(o) == InstOf("ret", 0, Void, << o >>)
RetVoid == InstOf("retvoid", 0, Void, <<>>)

Inner == NamedStruct("inner", << I8, I32 >>)
Outer == NamedStruct("outer", << I16, Inner, Array(2, I16) >>)
Pair == Struct(<< I32, Double >>)
Vec == Vector(2, I32)

(* A loop that counts, with two phis that exchange values.                 *)
LoopFunc ==
    FuncOf(S("loop"), I32, << I32, I32 >>, << 0, 1 >>, FALSE, <<
        Named("start", << InstOf("br", 0, Void, << B(2) >>) >>),
        Blk(<< InstOf("phi", 2, I32, << R(0, I32), B(1), R(3, I32), B(2) >>),
               InstOf("phi", 3, I32, << R(1, I32), B(1), R(2, I32), B(2) >>),
               Cmp("slt", 4, R(2, I32), C(9)),
               InstOf("condbr", 0, Void, << R(4, I1), B(2), B(3) >>) >>),
        Named("done", << Ret(R(3, I32)) >>) >>)

(* Addresses: fields, a narrow register, zeros that are left out.          *)
GepFunc ==
    FuncOf(S("gep"), Void, << Ptr, I32 >>, << 0, 1 >>, FALSE, <<
        Blk(<< InstOf("gep", 2, Outer, << R(0, Ptr), ImmOp(0, I64), ImmOp(2, I64), R(1, I32) >>),
               InstOf("load", 3, I16, << R(2, Ptr) >>),
               InstOf("gep", 4, I32, << R(0, Ptr), R(1, I32), ImmOp(0, I64) >>),
               InstOf("store", 0, Void, << C(5), R(4, Ptr) >>),
               InstOf("store", 0, Void, << C(6), GlobalOp(S("tab"), 8, Ptr) >>) >>),
        Blk(<< RetVoid >>) >>)

(* Casts that do nothing, and literals that are long in decimal.           *)
CastFunc ==
    FuncOf(S("cast"), Double, << I32, Double, Ptr >>, << 0, 1, 2 >>, FALSE, <<
        Blk(<< InstOf("bitcast", 3, I32, << R(0, I32) >>),
               InstOf("fsub", 4, Double, << R(1, Double), FpOp(2, Double) >>),
               InstOf("bitcast", 5, Ptr, << R(2, Ptr) >>),
               InstOf("sext", 6, I64, << R(3, I32) >>),
               InstOf("ptrtoint", 7, I64, << R(5, Ptr) >>),
               InstOf("add", 8, I64, << R(6, I64), R(7, I64) >>),
               InstOf("store", 0, Void, << FpOp(6, Float), R(5, Ptr) >>),
               InstOf("store", 0, Void, << GlobalOp(S("tab"), 4, I64), R(5, Ptr) >>),
               InstOf("fmul", 9, Double, << R(4, Double), FpOp(5, Double) >>),
               InstOf("fneg", 10, Double, << R(9, Double) >>),
               Ret(R(10, Double)) >>) >>)

(* Calls: variadic, to what is declared nowhere, through a register.       *)
CallFunc(callee) ==
    FuncOf(S("calls"), Void, << Ptr >>, << 0 >>, FALSE, <<
        Blk(<< [InstOf("call", 1, I32, << G(S("printf")), G(S("str")), R(0, Ptr) >>) EXCEPT
                  !.va = TRUE, !.fixed = 1],
               InstOf("call", 0, Void, << G(S("ext")), R(1, I32) >>),
               InstOf("call", 2, Ptr, << R(0, Ptr), NullOp(Ptr) >>),
               InstOf("call", 3, I32, << G(callee), C(1), C(2) >>),
               InstOf("store", 0, Void, << R(3, I32), R(2, Ptr) >>),
               RetVoid >>) >>)

(* Aggregates and vectors by value.                                        *)
AggFunc ==
    FuncOf(S("agg"), Pair, << Pair, Vec, I1 >>, << 0, 1, 2 >>, FALSE, <<
        Blk(<< Indexed("extractvalue", 3, I32, << R(0, Pair) >>, << 0 >>),
               Indexed("extractvalue", 4, I32, << R(1, Vec) >>, << 1 >>),
               InstOf("select", 5, I32, << R(2, I1), R(3, I32), R(4, I32) >>),
               Indexed("insertvalue", 6, Pair, << R(0, Pair), R(5, I32) >>, << 0 >>),
               Indexed("insertvalue", 7, Vec, << R(1, Vec), C(3) >>, << 0 >>),
               InstOf("alloca", 8, Vec, <<>>),
               InstOf("store", 0, Void, << R(7, Vec), R(8, Ptr) >>),
               InstOf("bitcast", 9, Pair, << R(6, Pair) >>),
               Cmp("oeq", 10, FpOp(3, Double), FpOp(8, Double)),
               InstOf("condbr", 0, Void, << R(10, I1), B(2), B(3) >>) >>),
        Blk(<< Ret(R(9, Pair)) >>),
        Blk(<< InstOf("unreachable", 0, Void, <<>>) >>) >>)

(* Two local functions of one name from two units.                         *)
LocalFunc(scope, n) ==
    FuncOf(L("helper", scope), I32, << I32, I32 >>, << 0, 1 >>, FALSE,
           << Blk(<< InstOf("add", 2, I32, << R(0, I32), C(n) >>), Ret(R(2, I32)) >>) >>)

(* Functions of one instruction, over the kinds of operands it may have.   *)
OneInst(x, t) ==
    FuncOf(S("one"), t, << I32, Ptr, Double, I16 >>, << 0, 1, 2, 3 >>, FALSE, << Blk(<< x, Ret(R(4, t)) >>) >>)

IntOperands == {R(0, I32), C(0), C(-3), C(70000), UndefOp(I32)}
WideOperands == {ImmOp(1, I64), GlobalOp(S("tab"), 0, I64), GlobalOp(S("str"), 2, I64)}
FpOperands == {R(2, Double), FpOp(0, Double), FpOp(3, Double), FpOp(4, Double), ImmOp(0, Double)}
Pointers == {R(1, Ptr), NullOp(Ptr), G(S("str")), G(S("tab")), GlobalOp(S("str"), 1, Ptr), ImmOp(0, Ptr)}
Indices == {ImmOp(1, I64), ImmOp(0, I64), C(1), R(0, I32), R(3, I16)}

OneInsts ==
    {OneInst(InstOf(op, 4, I32, << x, y >>), I32) : op \in {"add", "sub", "lshr"}, x, y \in IntOperands}
      \cup {OneInst(InstOf("xor", 4, I64, << x, y >>), I64) : x, y \in WideOperands}
      \cup {OneInst(InstOf(op, 4, Double, << x, y >>), Double) : op \in {"fadd", "fdiv"}, x, y \in FpOperands}
      \cup {OneInst(Cmp("eq", 4, x, y), I1) : x, y \in Pointers}
      \cup {OneInst(InstOf("load", 4, I8, << x >>), I8) : x \in Pointers \ {NullOp(Ptr), ImmOp(0, Ptr)}}
      \cup {OneInst(InstOf(c[1], 4, c[3], << c[2] >>), c[3]) :
               c \in {<<"sext", R(0, I32), I64>>, <<"zext", R(3, I16), I32>>, <<"trunc", R(0, I32), I8>>,
                      <<"bitcast", R(1, Ptr), Ptr>>,
                      <<"zext", R(0, I32), I32>>, <<"trunc", R(0, I32), I1>>,
                      <<"fptrunc", R(2, Double), Float>>, <<"fptosi", R(2, Double), I32>>,
                      <<"sitofp", R(0, I32), Double>>, <<"inttoptr", R(0, I32), Ptr>>}}
      \cup {OneInst(InstOf("gep", 4, t, << R(1, Ptr), i >>), Ptr) : t \in {I32, Outer, Vec}, i \in Indices}
      \cup {OneInst(InstOf("gep", 4, Outer, << b, i, ImmOp(1, I64), ImmOp(1, j) >>), Ptr) :
               b \in Pointers, i \in Indices, j \in {I32, I64}}
      \cup {OneInst(InstOf("gep", 4, Array(3, Inner), << R(1, Ptr), i, j, ImmOp(k, I32) >>), Ptr) :
               i, j \in Indices, k \in 0..1}
      \cup {OneInst(InstOf("gep", 4, Double, << R(1, Ptr), i, j >>), Ptr) :
               i \in Indices, j \in {ImmOp(0, I64), NullOp(I64), C(0)}}

Str == GlobalOf(S("str"), Array(3, I8), TRUE, FALSE, << 104, 105, 0 >>, <<>>)
Tab == GlobalOf(S("tab"), Struct(<< I8, Ptr, Array(2, Inner), Double >>), FALSE, FALSE,
                Overwrite(Overwrite(Zeros(40), 0, << 7 >>), 20, << 2, 1 >>) \o << >>,
                << RelocOf(8, S("str"), 1) >>)
Ptrs == GlobalOf(S("ptrs"), Array(2, Ptr), FALSE, FALSE, Zeros(16),
                 << RelocOf(0, S("str"), 0), RelocOf(8, S("tab"), 0) >>)
Ext == GlobalOf(S("environ"), Ptr, FALSE, TRUE, <<>>, <<>>)
Zero == GlobalOf(S("zero"), Outer, FALSE, FALSE, <<>>, <<>>)
Printf == GlobalOf(S("printf"), FuncType(I32, << Ptr >>, TRUE), FALSE, TRUE, <<>>, <<>>)

Orders(seq) == {[i \in DOMAIN seq |-> seq[f[i]]] : f \in Permutations(DOMAIN seq)}

MCModules ==
    {[m |-> ModuleOf(g, << f >>), keep |-> FALSE] :
        g \in Orders(<< Str, Tab, Ptrs >>), f \in {LoopFunc, GepFunc, CastFunc, AggFunc}}
      \cup {[m |-> ModuleOf(<< Str, Tab >>, << f >>), keep |-> FALSE] : f \in OneInsts}
      \cup {[m |-> ModuleOf(<< Str, Ext, Zero, Printf >>, fs), keep |-> TRUE] :
               fs \in Orders(<< LocalFunc(3, 10), LocalFunc(4, 20), CallFunc(L("helper", 4)) >>)}
      \cup {[m |-> ModuleOf(<< Zero >>, fs), keep |-> FALSE] : fs \in Orders(<< LoopFunc, GepFunc, AggFunc >>)}

---------------------------------------------------------------------------
(* Text as LLVM and compilers write it.                                    *)

V(name) == <<name, 0>>
N(n) == <<"", n>>
LV(name, t) == Local(V(name), t)
Op(op, dest, t, o) == InstLine(InstOf(op, dest, t, o))
TypeLine(name, t) == << Line("type", S(name), t) >>
GlobalLine(name, link, t, init) == << [Line("global", S(name), t) EXCEPT !.link = link, !.init = << init >>] >>
Define(name, link, t, params, body) ==
    << [Line("define", S(name), t) EXCEPT !.link = link, !.params = params] >> \o body
      \o << Line("end", NoName, Void) >>
Declare(name, t, params) == << [Line("declare", S(name), t) EXCEPT !.params = params] >>
LabelLine(l) == Line("label", l, Void)
K(n, t) == IntLit(n, t)

(* The entry block has no label, later ones have numbers, parameters too;  *)
(* a value is used in the text before it is defined.                       *)
NumberedFunc ==
    Define("numbered", "", I32, << Local(NoName, I32) >>, <<
        Op("br", NoName, Void, << Label(N(3)) >>),
        LabelLine(N(2)),
        Op("add", N(4), I32, << Local(N(5), I32), K(1, I32) >>),
        Op("br", NoName, Void, << Label(N(6)) >>),
        LabelLine(N(3)),
        Op("mul", N(5), I32, << Local(N(0), I32), K(3, I32) >>),
        Op("br", NoName, I1, << Word("false", I1), Label(N(2)), Label(N(7)) >>),
        LabelLine(N(7)),
        Op("br", NoName, Void, << Label(N(6)) >>),
        LabelLine(N(6)),
        Op("phi", N(8), I32, << Local(N(4), I32), Label(N(2)), Local(N(5), I32), Label(N(7)) >>),
        Op("ret", NoName, I32, << Local(N(8), I32) >>) >>)

(* The entry block is called %0 by a phi.                                  *)
EntryPhiFunc ==
    Define("entryphi", "", I32, <<>>, <<
        Op("br", NoName, Void, << Label(V("l")) >>),
        LabelLine(V("l")),
        Op("phi", V("n"), I32, << K(1, I32), Label(N(0)), LV("m", I32), Label(V("l")) >>),
        Op("add", V("m"), I32, << LV("n", I32), K(1, I32) >>),
        InstLine([InstOf("icmp", V("c"), I32, << LV("m", I32), K(3, I32) >>) EXCEPT !.p = "ne"]),
        Op("br", NoName, I1, << LV("c", I1), Label(V("l")), Label(V("e")) >>),
        LabelLine(V("e")),
        Op("ret", NoName, I32, << LV("m", I32) >>) >>)

SwitchFunc ==
    Define("sw", "", I32, << LV("x", I32) >>, <<
        LabelLine(V("entry")),
        Op("switch", NoName, I32, << LV("x", I32), Label(V("other")), K(1, I32), Label(V("one")),
                                     K(2, I32), Label(V("two")) >>),
        LabelLine(V("one")), Op("ret", NoName, I32, << K(10, I32) >>),
        LabelLine(V("two")),
        Op("switch", NoName, I32, << LV("x", I32), Label(V("other")) >>),
        LabelLine(V("other")), Op("ret", NoName, I32, << LV("x", I32) >>) >>)

(* The same names as above with other types.                               *)
OtherFunc(link) ==
    Define("other", link, Double, << LV("x", Double) >>, <<
        LabelLine(V("entry")),
        Op("fneg", V("one"), Double, << LV("x", Double) >>),
        Op("br", NoName, Void, << Label(V("two")) >>),
        LabelLine(V("two")),
        Op("phi", V("y"), Double, << LV("one", Double), Label(V("entry")) >>),
        Op("ret", NoName, Double, << LV("y", Double) >>) >>)

(* Constants: stored by the field, packed into a register, folded.         *)
Big == Struct(<< I32, TypeRef("t"), Ptr >>)
ConstFunc ==
    Define("const", "", Void, << LV("q", Ptr), LV("i", I16) >>, <<
        Op("store", NoName, Struct(<< I32, Ptr, I8 >>),
           << AggExpr(<< K(7, I32), Ref(S("g"), Ptr), K(1, I8) >>, Struct(<< I32, Ptr, I8 >>)), LV("q", Ptr) >>),
        Op("store", NoName, Struct(<< I8, I16 >>),
           << AggExpr(<< K(3, I8), K(4, I16) >>, Struct(<< I8, I16 >>)), LV("q", Ptr) >>),
        Op("store", NoName, Vector(2, I8),
           << AggExpr(<< K(3, I8), K(4, I8) >>, Vector(2, I8)), LV("q", Ptr) >>),
        Op("load", V("a"), I32, << GepExpr(Big, Ref(S("g"), Ptr), << K(0, I32), K(1, I32), K(1, I32) >>, Ptr) >>),
        Op("getelementptr", V("b"), Array(4, I16), << LV("q", Ptr), K(0, I64), LV("i", I16) >>),
        Op("store", NoName, I64, << CastExpr("ptrtoint", Ref(S("other"), Ptr), I64), LV("b", Ptr) >>),
        Op("extractvalue", V("c"), TypeRef("t"), << LV("d", TypeRef("t")) >>),
        Op("retvoid", NoName, Void, <<>>) >>)

(* %d is a load that comes before its use in the text.                     *)
WithLoad(lines) ==
    LET i == SelectInSeq(lines, LAMBDA x : x.inst.op = "extractvalue")
        fixed == [lines EXCEPT ![i].inst.idx = << 1 >>]
    IN  SubSeq(fixed, 1, i - 1) \o << Op("load", V("d"), TypeRef("t"), << LV("q", Ptr) >>) >>
          \o SubSeq(fixed, i, Len(fixed))

Types == << TypeLine("u", Struct(<< TypeRef("t"), I8 >>)), TypeLine("t", Struct(<< I16, I32 >>)) >>
Globals ==
    << GlobalLine("g", "private", Big,
           AggExpr(<< K(5, I32), AggExpr(<< K(1, I16), K(2, I32) >>, TypeRef("t")), Ref(S("h"), Ptr) >>, Big)),
       GlobalLine("h", "", Array(2, Ptr),
           AggExpr(<< GepExpr(TypeRef("u"), Ref(S("g"), Ptr), << K(0, I32), K(1, I32) >>, Ptr),
                      CastExpr("inttoptr", K(16, I64), Ptr) >>, Array(2, Ptr))) >>

MCTexts ==
    {FlattenSeq(ts \o gs \o fs) : ts \in Orders(Types), gs \in Orders(Globals),
         fs \in Orders(<< WithLoad(ConstFunc), OtherFunc("internal"),
                          Declare("f", Void, <<>>) \o Declare("f", Void, <<>>) >>)}
      \cup {FlattenSeq(fs) : fs \in Orders(<< NumberedFunc, SwitchFunc, EntryPhiFunc, OtherFunc("") >>)}

---------------------------------------------------------------------------
(* Modules in bitcode files.  Local symbols have the scope of their unit.  *)

St(val, addr) == InstOf("store", 0, Void, << val, addr >>)
Bin(op, n, a, b) == InstOf(op, n, a.t, << a, b >>)
Cast(op, n, a, t) == InstOf(op, n, t, << a >>)
Br(b) == InstOf("br", 0, Void, << B(b) >>)
CondBr(c, b1, b2) == InstOf("condbr", 0, Void, << c, B(b1), B(b2) >>)
DeclareFn(name, ret, params, va) == FuncOf(S(name), ret, params, [i \in DOMAIN params |-> i - 1], va, <<>>)
Half == Struct(<< I8, I16 >>)

(* Every result is stored.                                                 *)
Stored(insts, addr) ==
    FlattenSeq([i \in DOMAIN insts |-> << insts[i], St(R(insts[i].d, ResultOf(insts[i])), addr) >>])

IntsFunc ==
    LET x == R(0, I32)
        q == R(2, Ptr)
    IN  FuncOf(S("ints"), I64, << I32, I64, Ptr >>, << 0, 1, 2 >>, FALSE, <<
        Named("start", Stored(<< Bin("add", 3, x, C(-5)), Bin("sub", 4, C(0), x), Bin("mul", 5, R(3, I32), C(70000)),
                    Bin("udiv", 6, x, R(4, I32)), Bin("srem", 7, x, C(7)), Bin("shl", 8, R(1, I64), ImmOp(3, I64)),
                    Bin("ashr", 9, R(8, I64), R(1, I64)), Bin("xor", 10, x, C(-1)), Cmp("slt", 11, x, R(5, I32)),
                    Bin("and", 12, R(11, I1), ImmOp(1, I1)), InstOf("select", 13, I32, << R(12, I1), x, R(7, I32) >>) >>, q)
                \o << Bin("or", 14, R(9, I64), GlobalOp(S("tab"), 0, I64)), Ret(R(14, I64)) >>) >>)

CastsFunc ==
    LET x == R(0, I32)
        q == R(1, Ptr)
    IN  FuncOf(S("cast"), Void, << I32, Ptr, Double >>, << 0, 1, 2 >>, FALSE, <<
        Blk(Stored(<< Cast("trunc", 3, x, I8), Cast("zext", 4, R(3, I8), I32), Cast("sext", 5, x, I64),
                    Cast("ptrtoint", 6, q, I64), Cast("inttoptr", 7, R(6, I64), Ptr), Cast("fptosi", 8, R(2, Double), I32),
                    Cast("uitofp", 9, R(8, I32), Double), Cast("fptrunc", 10, R(9, Double), Float),
                    Cast("fpext", 11, R(10, Float), Double), Cast("bitcast", 12, R(11, Double), I64) >>, q)
              \o << St(UndefOp(I32), q), St(AggExpr(<< ImmOp(3, I8), ImmOp(4, I16) >>, Half), q), RetVoid >>) >>)

FloatsFunc ==
    LET y == R(0, Double)
        q == R(1, Ptr)
    IN  FuncOf(S("floats"), Float, << Double, Ptr, Pair >>, << 0, 1, 2 >>, FALSE, <<
        Blk(Stored(<< Bin("fadd", 3, y, FpOp(6, Double)), Bin("fdiv", 4, FpOp(0, Double), R(3, Double)),
                    Bin("frem", 5, y, y), InstOf("fneg", 6, Double, << R(5, Double) >>), Cmp("oeq", 7, y, R(6, Double)),
                    Cmp("uno", 8, y, FpOp(2, Double)), Indexed("extractvalue", 9, I32, << R(2, Pair) >>, << 0 >>),
                    Indexed("insertvalue", 10, Pair, << R(2, Pair), R(6, Double) >>, << 1 >>),
                    InstOf("select", 11, Double, << R(8, I1), R(4, Double), R(5, Double) >>),
                    InstOf("alloca", 12, Pair, <<>>), InstOf("alloca", 13, I32, << R(9, I32) >>) >>, q)
              \o << InstOf("load", 14, Float, << R(12, Ptr) >>), Ret(R(14, Float)) >>) >>)

(* Several cases go to one target, the default too; another one is entered *)
(* by one case and from elsewhere.                                         *)
CasesFunc ==
    FuncOf(S("cases"), I32, << I32 >>, << 0 >>, FALSE, <<
        Blk(<< InstOf("switch", 0, Void, << R(0, I32), B(3), C(1), B(2), C(4), B(3), C(7), B(2), C(9), B(4) >>) >>),
        Named("one", << InstOf("phi", 1, I32, << C(10), B(1), C(10), B(1) >>), Br(4) >>),
        Blk(<< InstOf("phi", 2, I32, << C(30), B(1), C(30), B(1) >>),
               InstOf("switch", 0, Void, << R(2, I32), B(4) >>) >>),
        Blk(<< InstOf("phi", 3, I32, << C(40), B(1), R(1, I32), B(2), R(2, I32), B(3) >>), Ret(R(3, I32)) >>) >>)

(* Values are used in the records before they are defined, and what is in  *)
(* between has another type.                                               *)
AheadFunc ==
    FuncOf(S("ahead"), Double, << Ptr, I1, Double, I32 >>, << 0, 1, 2, 3 >>, FALSE, <<
        Blk(<< Br(4) >>),
        Blk(<< InstOf("phi", 4, Double, << R(7, Double), B(4) >>), St(R(6, I32), R(0, Ptr)),
               Bin("fadd", 5, R(4, Double), R(7, Double)), Ret(R(5, Double)) >>),
        Blk(<< InstOf("unreachable", 0, Void, <<>>) >>),
        Blk(<< Bin("add", 6, R(3, I32), C(1)), InstOf("fneg", 7, Double, << R(2, Double) >>),
               CondBr(R(1, I1), 2, 3) >>) >>)

VaFunc ==
    FuncOf(S("va"), I32, << Ptr >>, << 0 >>, TRUE, <<
        Blk(<< InstOf("va_arg", 1, I32, << R(0, Ptr) >>), InstOf("va_arg", 2, Pair, << R(0, Ptr) >>),
               InstOf("call", 0, Void, << G(S("llvm.lifetime.start")), ImmOp(4, I64), R(0, Ptr) >>),
               InstOf("freeze", 3, I32, << R(1, I32) >>), Cmp("eq", 4, R(0, Ptr), NullOp(Ptr)),
               CondBr(R(4, I1), 2, 3) >>),
        Blk(<< Ret(R(3, I32)) >>), Blk(<< InstOf("unreachable", 0, Void, <<>>) >>) >>)

FenceFunc ==
    FuncOf(L("fences", 1), I32, << I32 >>, << 0 >>, FALSE, <<
        Blk(<< Bin("add", 1, R(0, I32), C(3)), InstOf("fence", 0, Void, <<>>), Ret(R(1, I32)) >>) >>)

CalleesOf == << DeclareFn("printf", I32, << Ptr >>, TRUE), DeclareFn("ext", Void, << I32 >>, FALSE) >>
Hints == << DeclareFn("llvm.lifetime.start", Void, << I64, Ptr >>, FALSE) >>
Text6 == GlobalOf(L("text", 1), Array(5, I8), TRUE, FALSE, << 72, 105, 95, 55, 0 >>, <<>>)
Raw == GlobalOf(L("_copy_t", 1), Array(3, I8), TRUE, FALSE, << 1, 200, 3 >>, <<>>)
Data == GlobalOf(S("data"), Array(3, I16), TRUE, FALSE, << 255, 0, 2, 1, 0, 0 >>, <<>>)
Lanes == GlobalOf(S("lanes"), Vector(2, I16), FALSE, FALSE, << 1, 0, 2, 0 >>, <<>>)
Zeroed == GlobalOf(S("zero"), Outer, FALSE, FALSE, Zeros(lr_type_size(Outer)), <<>>)
Count == GlobalOf(S("count"), I32, FALSE, FALSE, << 254, 255, 255, 255 >>, <<>>)

(* TLC's integers have 32 bits: what is packed into a register is small.   *)
BcTab == [Tab EXCEPT !.bytes = Overwrite(Overwrite(Zeros(40), 0, << 7 >>), 24, << 5 >>)]

BcGlobals == ModuleOf(<< Text6, BcTab, Raw, Ext, Data, Str, Lanes, Zeroed, Ptrs, Count >>, << LoopFunc, GepFunc >>)
BcInsts == ModuleOf(<< Str, BcTab >>, << IntsFunc, CastsFunc, FloatsFunc >>)
BcCalls == ModuleOf(<< Str >>, CalleesOf \o << CallFunc(L("helper", 1)), LocalFunc(1, 10) >>)
BcFlow == ModuleOf(<< Count >>, << FenceFunc, AheadFunc, CasesFunc >> \o Hints \o << VaFunc >>)
BcSmall == ModuleOf(<< Count >>, << LocalFunc(1, 10), LoopFunc >>)

MCNames ==
    << "str", "tab", "ptrs", "environ", "zero", "printf", "ext", "helper", "loop", "gep", "calls", "cast", "ints", "floats",
       "cases", "ahead", "va", "fences", "text", "_copy_t", "data", "lanes", "count", "llvm.lifetime.start", "start",
       "done", "one", "inner", "outer" >>

Shapes == {Shape(FALSE, FALSE, FALSE), Shape(TRUE, FALSE, FALSE), Shape(TRUE, TRUE, TRUE)}

MCFiles ==
    [m : {BcGlobals, BcInsts, BcCalls, BcFlow, BcSmall}, shape : Shapes, fate : {"whole"}]
      \cup [m : {BcSmall}, shape : {Shape(TRUE, FALSE, FALSE)}, fate : {"padded", "cut"}]

---------------------------------------------------------------------------
WasmIn == INSTANCE WasmInputs
MCWasmFiles == WasmIn!GoodFiles
MCMixedFiles == WasmIn!MixedFiles
MCSessions == WasmIn!KnownNames
MCArguments == WasmIn!TwoArguments
NoInputs == {}
================================================================================
