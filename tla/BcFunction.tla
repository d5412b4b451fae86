------------------------------- MODULE BcFunction -------------------------------
(***************************************************************************)
(* The function blocks of bc_decode.c: one definition for each kind of     *)
(* record, then what is done to a function after its last record.  Blocks  *)
(* are counted from 1 here and from 0 in the records.  The callback of the *)
(* streaming interface is left out.                                        *)
(***************************************************************************)
EXTENDS BcDecode

bc_type_is_fp(t) == IsFp(t) \/ (t.k = "vector" /\ IsFp(t.sub[1]))

Mapped(table, n, other) == IF n \in DOMAIN table THEN table[n] ELSE other
FpBinops == (0 :> "fadd") @@ (1 :> "fsub") @@ (2 :> "fmul") @@ (4 :> "fdiv") @@ (5 :> "frem")
IntBinops ==
    << "sub", "mul", "udiv", "sdiv", "urem", "srem", "shl", "lshr", "ashr", "and", "or", "xor" >>
bc_map_binop(opc, fp) == IF fp THEN Mapped(FpBinops, opc, "fadd") ELSE Mapped(IntBinops, opc, "add")

Casts ==
    << "zext", "sext", "fptoui", "fptosi", "uitofp", "sitofp", "fptrunc", "fpext", "ptrtoint", "inttoptr" >>
bc_map_cast(opc) == IF opc = 0 THEN "trunc" ELSE Mapped(Casts, opc, "bitcast")

IcmpPreds == << "eq", "ne", "ugt", "uge", "ult", "ule", "sgt", "sge", "slt", "sle" >>
FcmpPreds == << "false", "oeq", "ogt", "oge", "olt", "ole", "one", "ord",
                "uno", "ueq", "ugt", "uge", "ult", "ule", "une", "true" >>
bc_map_icmp_pred(n) == Mapped(IcmpPreds, (IF n >= 32 THEN n - 32 ELSE n) + 1, "")
bc_map_fcmp_pred(n) == Mapped(FcmpPreds, n + 1, "")

---------------------------------------------------------------------------
(* Values in records.  A cursor is the place in the record, the values     *)
(* that were read and why the reading stopped.                             *)

Cursor(at) == [at |-> at, vals |-> <<>>, bad |-> ""]
Val(id, t) == [id |-> id, t |-> t]

(* Numbers count back from the next value; ahead they wrap around.         *)
bc_resolve_rel_value_id(d, raw) == IF d.version >= 1 THEN (d.id - raw) % Wrap ELSE raw

bc_record_get_value(d, rec, c, t) ==
    IF c.bad # "" THEN c
    ELSE IF c.at > Len(rec) THEN [c EXCEPT !.bad = "missing value"]
    ELSE [c EXCEPT !.at = @ + 1, !.vals = Append(@, Val(bc_resolve_rel_value_id(d, rec[c.at]), t))]

(* A value that is known has its type; for one that is ahead the type      *)
(* follows in the record.                                                  *)
Typed(d, rec, c) ==
    LET id == Last(c.vals).id
        typed(t) == [c EXCEPT !.vals[Len(c.vals)] = Val(id, t)]
    IN  IF c.bad # "" THEN c
        ELSE IF id < d.id THEN (IF id < Len(d.lv) THEN typed(d.lv[id + 1].t) ELSE [c EXCEPT !.bad = "backward"])
        ELSE IF c.at > Len(rec) THEN [c EXCEPT !.bad = "missing type"]
        ELSE IF ~HasType(d, rec[c.at]) THEN [c EXCEPT !.bad = "type"]
        ELSE [typed(bc_get_type(d, rec[c.at])) EXCEPT !.at = @ + 1]
bc_record_get_value_type_pair(d, rec, c) == IF c.bad # "" THEN c ELSE Typed(d, rec, bc_record_get_value(d, rec, c, I32))

(* What stands at the cursor after n more words.                           *)
At(rec, c, n) == rec[c.at + n]
Left(rec, c) == Len(rec) + 1 - c.at

MakeOp(d, v) == bc_make_operand_from_value(d, v.id, v.t, TRUE)
RECURSIVE MakeOps(_, _)
MakeOps(d, vs) == IF vs = <<>> THEN Res(d, <<>>) ELSE LET r == MakeOp(d, Head(vs)) IN Prepend(<< r.o >>, MakeOps(r.p, Tail(vs)))

(* A second operand of the type of the first one.                          *)
AlikeAfter(r, v) == LET s == MakeOp(r.p, [v EXCEPT !.t = r.o.t]) IN Res(s.p, << r.o, s.o >>)
MakeAlike(d, vs) == AlikeAfter(MakeOp(d, vs[1]), vs[2])

bc_resolve_phi_value_id(d, base, rel) ==
    CASE rel = INT64_MIN -> {}
      [] rel < 0 -> {base - rel}
      [] d.version >= 1 -> IF rel > base THEN {} ELSE {base - rel}
      [] OTHER -> {rel}

---------------------------------------------------------------------------
(* The value a record defines.                                             *)

bc_define_vreg_value(d, t) ==
    LET e == ExtendTo(d, d.id, I32, TRUE)
    IN  IF e.lv[d.id + 1].k # "vreg" THEN Fail(e) ELSE [e EXCEPT !.lv[d.id + 1].t = t]

DefineConst(d, t, op) ==
    [ExtendTo(d, d.id, I32, FALSE) EXCEPT !.lv[d.id + 1] = ConstValue(t, op), !.id = @ + 1]
bc_define_undef_value(d, t) == DefineConst(d, t, UndefOp(t))
bc_define_alias_value(d, t, op) == DefineConst(d, t, [op EXCEPT !.t = t])

bc_emit_inst(d, inst) == lr_block_append(d, inst)

(* The instruction whose result is the value that has just been defined.   *)
EmitResult(e, inst) ==
    IF e.err THEN e ELSE bc_emit_inst([e EXCEPT !.id = @ + 1], [inst EXCEPT !.d = e.lv[e.id + 1].n])
DefineInst(d, t, inst) == EmitResult(bc_define_vreg_value(d, t), inst)
DefineOver(r, t, inst) == DefineInst(r.p, t, [inst EXCEPT !.o = r.o])
Inst(op, t, o) == InstOf(op, 0, t, o)

EndWith(d, inst) == [bc_emit_inst(d, inst) EXCEPT !.cur = @ + 1]

---------------------------------------------------------------------------
(* Records.  c is a cursor that has read what the record begins with.      *)

First(d, rec) == bc_record_get_value_type_pair(d, rec, Cursor(1))
PairThenValue(d, rec) == bc_record_get_value(d, rec, First(d, rec), I32)
TwoPairs(d, rec) == bc_record_get_value_type_pair(d, rec, First(d, rec))

RetOver(r) == EndWith(r.p, Inst("ret", r.o.t, << r.o >>))
InstRet(d, rec) ==
    IF rec = <<>> THEN EndWith(d, Inst("retvoid", Void, <<>>))
    ELSE LET c == First(d, rec) IN IF c.bad # "" THEN Fail(d) ELSE RetOver(MakeOp(d, c.vals[1]))

BrOver(r, rec) == EndWith(r.p, Inst("condbr", Void, << r.o, BlockOp(rec[1] + 1), BlockOp(rec[2] + 1) >>))
InstBr(d, rec) ==
    CASE Len(rec) = 1 -> EndWith(d, Inst("br", Void, << BlockOp(rec[1] + 1) >>))
      [] Len(rec) >= 3 -> BrOver(MakeOp(d, Val(bc_resolve_rel_value_id(d, rec[3]), I1)), rec)
      [] OTHER -> [d EXCEPT !.cur = @ + 1]

InstUnreachable(d) == EndWith(d, Inst("unreachable", Void, <<>>))

BinopOver(r, opc) == DefineOver(r, r.o[1].t, Inst(bc_map_binop(opc, bc_type_is_fp(r.o[1].t)), r.o[1].t, <<>>))
InstBinop(d, rec) ==
    LET c == PairThenValue(d, rec)
    IN  IF c.bad # "" \/ Left(rec, c) < 1 THEN Fail(d) ELSE BinopOver(MakeAlike(d, c.vals), At(rec, c, 0))

CastInst(r, t, opc) == DefineOver(Res(r.p, << r.o >>), t, Inst(bc_map_cast(opc), t, <<>>))
InstCast(d, rec) ==
    LET c == First(d, rec)
    IN  IF c.bad # "" \/ Left(rec, c) < 2 \/ ~HasType(d, At(rec, c, 0)) THEN Fail(d)
        ELSE CastInst(MakeOp(d, c.vals[1]), bc_get_type(d, At(rec, c, 0)), At(rec, c, 1))

(* The two numberings of predicates overlap: which one is meant follows    *)
(* from the type, the other one is taken where it has no such number.      *)
CmpOver(r, n) ==
    LET fp == bc_type_is_fp(r.o[1].t)
        f == bc_map_fcmp_pred(n)
        i == bc_map_icmp_pred(n)
        isf == IF fp THEN f # "" ELSE i = ""
        pred == IF isf THEN f ELSE i
    IN  IF pred = "" THEN Fail(r.p)
        ELSE DefineOver(r, I1, [Inst(IF isf THEN "fcmp" ELSE "icmp", I1, <<>>) EXCEPT !.p = pred])
InstCmp(d, rec) ==
    LET c == PairThenValue(d, rec)
    IN  IF c.bad # "" \/ Left(rec, c) < 1 THEN Fail(d) ELSE CmpOver(MakeAlike(d, c.vals), At(rec, c, 0))

(* A phi has its register before its operands are read.                    *)
RECURSIVE PhiPairs(_, _, _, _)
PhiPairs(d, base, t, words) ==
    IF Len(words) < 2 THEN Res(d, <<>>)
    ELSE LET ids == bc_resolve_phi_value_id(d, base, bc_decode_signed_vbr(words[1]))
             r == MakeOp(d, Val(CHOOSE id \in ids : TRUE, t))
         IN  IF ids = {} THEN Res(Fail(d), <<>>)
             ELSE Prepend(<< r.o, BlockOp(words[2] + 1) >>, PhiPairs(r.p, base, t, SubSeq(words, 3, Len(words))))
PhiOver(r, dest, t) == IF r.p.err THEN r.p ELSE bc_emit_inst(r.p, InstOf("phi", dest, t, r.o))
PhiDefined(e, t, words) ==
    IF e.err THEN e
    ELSE PhiOver(PhiPairs([e EXCEPT !.id = @ + 1], e.id, t, words), e.lv[e.id + 1].n, t)
InstPhi(d, rec) ==
    IF rec = <<>> THEN Fail(d)
    ELSE IF ~HasType(d, rec[1]) \/ (Len(rec) % 2 = 0 /\ ~bc_type_is_fp(bc_get_type(d, rec[1]))) THEN Fail(d)
    ELSE PhiDefined(bc_define_vreg_value(d, bc_get_type(d, rec[1])), bc_get_type(d, rec[1]), Tail(rec))

(* The number of elements is the only operand that is not relative.        *)
InstAlloca(d, rec) ==
    IF Len(rec) \notin {4, 5} \/ ~HasType(d, rec[1]) THEN Fail(d)
    ELSE DefineOver(MakeOps(d, << Val(rec[3], TypeOr(d, rec[2], I64)) >>), Ptr,
                    Inst("alloca", bc_get_type(d, rec[1]), <<>>))

LoadOver(r, t) == DefineOver(r, t, Inst("load", t, <<>>))
InstLoad(d, rec) ==
    LET c == First(d, rec)
        explicit == Left(rec, c) = 3
    IN  IF c.bad # "" \/ Left(rec, c) \notin {2, 3} THEN Fail(d)
        ELSE IF explicit /\ ~HasType(d, At(rec, c, 0)) THEN Fail(d)
        ELSE LoadOver(MakeOps(d, << [c.vals[1] EXCEPT !.t = Ptr] >>), IF explicit THEN bc_get_type(d, At(rec, c, 0)) ELSE I8)

StoreOver(r) == bc_emit_inst(r.p, Inst("store", Void, r.o))
InstStore(d, rec, old) ==
    LET c == IF old THEN bc_record_get_value(d, rec, First(d, rec), I64) ELSE TwoPairs(d, rec)
    IN  IF c.bad # "" \/ Left(rec, c) # 2 THEN Fail(d)
        ELSE StoreOver(MakeOps(d, << c.vals[2], [c.vals[1] EXCEPT !.t = Ptr] >>))

(* An argument of a variadic function: the list holds the address of the   *)
(* next one, which goes on by a multiple of eight bytes.                   *)
Stride(t) == AlignUp(IF lr_type_size(t) < 8 THEN 8 ELSE lr_type_size(t), 8)
NewInst(d, op, t, o) == Res(bc_emit_inst(lr_vreg_new(d), InstOf(op, d.next, t, o)), VRegOp(d.next, t))
VaNext(d, cursor, list, t) ==
    LET n == NewInst(d, "ptrtoint", I64, << cursor >>)
        s == NewInst(n.p, "add", I64, << n.o, ImmOp(Stride(t), I64) >>)
        a == NewInst(s.p, "inttoptr", Ptr, << s.o >>)
    IN  bc_emit_inst(a.p, Inst("store", Void, << a.o, list >>))
VaLoad(cursor, list, t) ==
    LET e == DefineInst(cursor.p, t, Inst("load", t, << cursor.o >>))
    IN  IF e.err THEN e ELSE VaNext(e, cursor.o, list, t)
VaArgOver(r, t) == VaLoad(NewInst(r.p, "load", Ptr, << r.o >>), r.o, t)
InstVaArg(d, rec) ==
    IF Len(rec) < 3 \/ ~HasType(d, rec[3]) THEN Fail(d)
    ELSE VaArgOver(MakeOp(d, Val(bc_resolve_rel_value_id(d, rec[2]), TypeOr(d, rec[1], Ptr))), bc_get_type(d, rec[3]))

---------------------------------------------------------------------------
(* Addresses.  The indices are read as values with types; if the record    *)
(* ends too early that way, all of it is read again as values alone.  What *)
(* the first attempt added stays.                                          *)

IndexInto(r) == canonicalize_gep_index(r.p, r.o)
GepOps(p, o, bad) == [p |-> p, o |-> o, bad |-> bad]

RECURSIVE GepPairs(_, _, _, _, _), PairIndexed(_, _, _, _, _)
GepPairs(d, rec, at, n, ops) ==
    LET c == bc_record_get_value_type_pair(d, rec, Cursor(at))
    IN  IF n = 0 THEN GepOps(d, ops, "")
        ELSE IF c.bad # "" THEN GepOps(d, ops, c.bad)
        ELSE PairIndexed(IndexInto(MakeOp(d, c.vals[1])), rec, c.at, n, ops)
PairIndexed(r, rec, at, n, ops) == GepPairs(r.p, rec, at, n - 1, Append(ops, r.o))

RECURSIVE GepValues(_, _, _, _, _), ValueIndexed(_, _, _, _, _)
GepValues(d, rec, at, n, ops) ==
    LET id == bc_resolve_rel_value_id(d, rec[at])
    IN  IF n = 0 THEN GepOps(d, ops, "")
        ELSE IF at > Len(rec) THEN GepOps(d, ops, "missing value")
        ELSE ValueIndexed(IndexInto(MakeOp(d, Val(id, IF id < Len(d.lv) THEN d.lv[id + 1].t ELSE I64))),
                          rec, at + 1, n, ops)
ValueIndexed(r, rec, at, n, ops) == GepValues(r.p, rec, at, n - 1, Append(ops, r.o))

GepFinish(x, src) ==
    IF x.bad # "" THEN Fail(x.p) ELSE DefineInst(x.p, Ptr, Inst("gep", src, x.o))
GepValuesFrom(base, rec, n) == GepValues(base.p, rec, 4, n, << base.o >>)
GepRetry(x, rec, n, src) ==
    IF x.bad \in {"missing type", "missing value"}
    THEN GepFinish(GepValuesFrom(MakeOp(x.p, Val(bc_resolve_rel_value_id(x.p, rec[3]), Ptr)), rec, n), src)
    ELSE GepFinish(x, src)
GepPairsFrom(base, rec, c, src) ==
    GepRetry(GepPairs(base.p, rec, c.at, Left(rec, c), << base.o >>), rec, Left(rec, c), src)
InstGep(d, rec) ==
    LET c == bc_record_get_value_type_pair(d, rec, Cursor(3))
        bare == Val(bc_resolve_rel_value_id(d, rec[3]), Ptr)
        src == bc_get_type(d, rec[2])
    IN  IF Len(rec) < 3 \/ ~HasType(d, rec[2]) THEN Fail(d)
        ELSE IF c.bad # "" THEN GepFinish(GepValuesFrom(MakeOp(d, bare), rec, Len(rec) - 3), src)
        ELSE GepPairsFrom(MakeOp(d, c.vals[1]), rec, c, src)

---------------------------------------------------------------------------
(* Calls.                                                                  *)

bc_call_is_nop_intrinsic(op) == op.k = "global" /\ op.s[1] \in {"llvm.lifetime.start", "llvm.lifetime.end"}

(* The function of that name; in a module there is only one.               *)
bc_find_module_function(d, sym) == {i \in DOMAIN d.mod.funcs : d.mod.funcs[i].name = sym}

bc_resolve_call_callee_func(d, id, op) ==
    LET v == d.lv[id + 1]
    IN  IF v.k = "func" THEN {v.n}
        ELSE IF v.k = "global" THEN bc_find_module_function(d, v.s)
        ELSE IF op.k = "global" THEN bc_find_module_function(d, op.s) ELSE {}

(* Arguments beyond the fixed ones bring their types.                      *)
RECURSIVE ExtraArgs(_, _, _)
ExtraArgs(d, rec, c) ==
    IF c.bad # "" \/ c.at > Len(rec) THEN c ELSE ExtraArgs(d, rec, bc_record_get_value_type_pair(d, rec, c))

CallInst(r, sig, callees) ==
    LET known == {f \in {r.p.mod.funcs[i] : i \in callees} : f.va}
        fixed == IF known = {} THEN Len(sig.sub) - 1 ELSE Len((CHOOSE f \in known : TRUE).params)
        inst == [Inst("call", sig.sub[1], r.o) EXCEPT !.va = sig.n = 1 \/ known # {}, !.fixed = fixed]
    IN  IF sig.sub[1].k = "void" THEN bc_emit_inst(r.p, inst) ELSE DefineInst(r.p, sig.sub[1], inst)

CallArgs(callee, c, rec, sig, callees) ==
    LET fixed == FoldLeft(LAMBDA x, t : bc_record_get_value(callee.p, rec, x, t), [c EXCEPT !.vals = <<>>], Tail(sig.sub))
        all == IF sig.n = 1 THEN ExtraArgs(callee.p, rec, fixed) ELSE fixed
    IN  IF all.bad # "" \/ all.at <= Len(rec) THEN Fail(callee.p)
        ELSE CallInst(Prepend(<< callee.o >>, MakeOps(callee.p, all.vals)), sig, callees)

CallOver(callee, c, rec, explicit) ==
    LET v == callee.p.lv[c.vals[1].id + 1]
        f == callee.p.mod.funcs[v.n]
        sig == IF explicit # {} THEN explicit
               ELSE IF v.t.k = "func" THEN {v.t}
               ELSE IF v.k = "func" THEN {FuncType(f.ret, f.params, f.va)} ELSE {}
        the == CHOOSE s \in sig : TRUE
    IN  IF sig = {} THEN Fail(callee.p)
        ELSE IF Left(rec, c) < Len(the.sub) - 1 THEN Fail(callee.p)
        ELSE IF bc_call_is_nop_intrinsic(callee.o) THEN callee.p
        ELSE CallArgs(callee, c, rec, the, bc_resolve_call_callee_func(callee.p, c.vals[1].id, callee.o))

(* Attributes, flags, then if the flags say so more flags and the type of  *)
(* the function, then what is called.                                      *)
InstCall(d, rec) ==
    LET bit(n) == (rec[2] \div 2 ^ n) % 2
        at == 3 + bit(17)
        typed == bit(15) = 1
        c == bc_record_get_value_type_pair(d, rec, Cursor(at + bit(15)))
        t == bc_get_type(d, rec[at])
    IN  IF Len(rec) < 2 THEN Fail(d)
        ELSE IF typed /\ (at > Len(rec) \/ ~HasType(d, rec[at])) THEN Fail(d)
        ELSE IF typed /\ t.k # "func" THEN Fail(d)
        ELSE IF c.bad # "" THEN Fail(d)
        ELSE CallOver(MakeOp(d, c.vals[1]), c, rec, IF typed THEN {t} ELSE {})

---------------------------------------------------------------------------
(* Selections, vectors and aggregates.                                     *)

(* vs: the value if true, the one if false, the condition.                 *)
SelectArms(arms, cond) == DefineOver(Res(arms.p, << cond >> \o arms.o), arms.o[1].t, Inst("select", arms.o[1].t, <<>>))
SelectOver(cond, vs) == SelectArms(MakeAlike(cond.p, vs), cond.o)
SelectWith(d, rec, c) ==
    IF c.bad # "" \/ Left(rec, c) # 0 THEN Fail(d) ELSE SelectOver(MakeOp(d, c.vals[3]), c.vals)
InstSelect(d, rec) == SelectWith(d, rec, bc_record_get_value(d, rec, PairThenValue(d, rec), I1))
InstVSelect(d, rec) == SelectWith(d, rec, bc_record_get_value_type_pair(d, rec, PairThenValue(d, rec)))

(* Elements of vectors are not supported: their values are undefined.      *)
InstExtractElt(d, rec) ==
    LET c == TwoPairs(d, rec)
        t == c.vals[1].t
    IN  IF c.bad # "" THEN Fail(d) ELSE bc_define_undef_value(d, IF t.k = "vector" THEN t.sub[1] ELSE I32)
(* insertelement and shufflevector.                                        *)
InstVector(d, rec) ==
    LET c == bc_record_get_value_type_pair(d, rec, PairThenValue(d, rec))
    IN  IF c.bad # "" THEN Fail(d) ELSE bc_define_undef_value(d, c.vals[1].t)

RECURSIVE PartAt(_, _)
PartAt(t, idx) ==
    IF idx = <<>> THEN t
    ELSE PartAt(IF t.k = "struct" /\ Head(idx) < Len(t.sub) THEN t.sub[Head(idx) + 1]
                ELSE IF IsSeq(t) THEN t.sub[1] ELSE t, Tail(idx))

PartOver(r, op, t, idx) == DefineOver(r, t, [Inst(op, t, <<>>) EXCEPT !.idx = idx])
InstExtractValue(d, rec) ==
    LET c == First(d, rec)
        idx == SubSeq(rec, c.at, Len(rec))
    IN  IF c.bad # "" THEN Fail(d)
        ELSE PartOver(MakeOps(d, c.vals), "extractvalue", PartAt(c.vals[1].t, idx), idx)
InsertOver(r, idx) == PartOver(r, "insertvalue", r.o[1].t, idx)
InstInsertValue(d, rec) ==
    LET c == TwoPairs(d, rec)
    IN  IF c.bad # "" THEN Fail(d) ELSE InsertOver(MakeOps(d, c.vals), SubSeq(rec, c.at, Len(rec)))

NegOver(r) == DefineOver(r, r.o[1].t, Inst("fneg", r.o[1].t, <<>>))
InstUnop(d, rec) ==
    LET c == First(d, rec) IN IF c.bad # "" \/ Left(rec, c) < 1 THEN Fail(d) ELSE NegOver(MakeOps(d, c.vals))

(* A frozen value is another name of the value.                            *)
FreezeOver(r, t) == bc_define_alias_value(r.p, t, r.o)
InstFreeze(d, rec) ==
    LET c == First(d, rec)
    IN  IF c.bad # "" \/ Left(rec, c) # 0 THEN Fail(d) ELSE FreezeOver(MakeOp(d, c.vals[1]), c.vals[1].t)

---------------------------------------------------------------------------
(* A switch becomes a chain of comparisons in blocks of their own.  edges  *)
(* are the jumps out of the chain: block and target.                       *)

Edge(target, pred) == [target |-> target, pred |-> pred]

RECURSIVE SwitchTests(_, _, _, _, _, _, _), SwitchTest(_, _, _, _, _, _, _)
SwitchTests(d, val, t, dflt, words, test, edges) ==
    IF words = <<>> THEN Res(d, Append(edges, Edge(dflt, test)))
    ELSE IF words[2] >= d.nb THEN Res(Fail(d), edges)
    ELSE SwitchTest(MakeOp(d, Val(words[1], t)), val, t, dflt, words, test, edges)
SwitchTest(r, val, t, dflt, words, test, edges) ==
    LET more == Len(words) > 2
        d == IF more THEN lr_block_create(r.p, <<"bb.sw", Len(r.p.fn.blocks)>>) ELSE r.p
        other == IF more THEN Len(d.fn.blocks) ELSE dflt
        v == d.next
        insts == << [InstOf("icmp", v, I1, << val, r.o >>) EXCEPT !.p = "eq"],
                    Inst("condbr", Void, << VRegOp(v, I1), BlockOp(words[2] + 1), BlockOp(other) >>) >>
        e == [lr_vreg_new(d) EXCEPT !.fn.blocks[test].insts = @ \o insts]
    IN  SwitchTests(e, val, t, dflt, SubSeq(words, 3, Len(words)), IF more THEN other ELSE test,
                    Append(edges, Edge(words[2] + 1, test)))

bc_append_unique_u32(seq, v) == IF Contains(seq, v) THEN seq ELSE Append(seq, v)
PredsOf(edges, target) ==
    FoldLeft(LAMBDA s, e : IF e.target = target THEN bc_append_unique_u32(s, e.pred) ELSE s, <<>>, edges)

(* What the phis of a target have to list instead of the switch's block,   *)
(* or besides it.                                                          *)
FixupsFor(edges, target, old) ==
    LET preds == PredsOf(edges, target)
        keep == Contains(preds, old)
        new == SelectSeq(preds, LAMBDA p : p # old)
    IN  IF new = <<>> THEN <<>> ELSE << [succ |-> target, old |-> old, keep |-> keep, new |-> new] >>
bc_push_switch_phi_fixup(d, edges, old) ==
    LET targets == FoldLeft(LAMBDA s, e : bc_append_unique_u32(s, e.target), <<>>, edges)
    IN  [d EXCEPT !.fix = @ \o FlattenSeq([i \in DOMAIN targets |-> FixupsFor(edges, targets[i], old)])]

SwitchEdges(r, old) ==
    IF r.p.err THEN r.p ELSE [bc_push_switch_phi_fixup(r.p, r.o, old) EXCEPT !.cur = @ + 1]
SwitchValue(r, t, dflt, words) ==
    IF Len(words) % 2 = 1 THEN Fail(r.p)
    ELSE IF words = <<>> THEN EndWith(r.p, Inst("br", Void, << BlockOp(dflt) >>))
    ELSE SwitchEdges(SwitchTests(r.p, r.o, t, dflt, words, r.p.cur, <<>>), r.p.cur)
InstSwitch(d, rec) ==
    IF Len(rec) < 3 THEN Fail(d)
    ELSE IF rec[3] >= d.nb \/ ~HasType(d, rec[1]) THEN Fail(d)
    ELSE SwitchValue(MakeOp(d, Val(bc_resolve_rel_value_id(d, rec[2]), bc_get_type(d, rec[1]))),
                     bc_get_type(d, rec[1]), rec[3] + 1, SubSeq(rec, 4, Len(rec)))

---------------------------------------------------------------------------
(* A record of a function block.                                           *)

DeclareBlocks(d, rec) ==
    LET n == IF rec = <<>> THEN 0 ELSE rec[1]
    IN  [FoldLeft(LAMBDA e, i : lr_block_create(e, <<"bb", i>>), d, [i \in 1..n |-> i - 1]) EXCEPT !.nb = n, !.cur = 1]

InstRecord(d, code, rec) ==
    CASE code = 2 -> InstBinop(d, rec)
      [] code = 3 -> InstCast(d, rec)
      [] code = 5 -> InstSelect(d, rec)
      [] code = 6 -> InstExtractElt(d, rec)
      [] code \in {7, 8} -> InstVector(d, rec)
      [] code \in {9, 28} -> InstCmp(d, rec)
      [] code = 10 -> InstRet(d, rec)
      [] code = 11 -> InstBr(d, rec)
      [] code = 12 -> InstSwitch(d, rec)
      [] code = 15 -> InstUnreachable(d)
      [] code = 16 -> InstPhi(d, rec)
      [] code = 19 -> InstAlloca(d, rec)
      [] code = 20 -> InstLoad(d, rec)
      [] code = 23 -> InstVaArg(d, rec)
      [] code \in {24, 44} -> InstStore(d, rec, code = 24)
      [] code = 26 -> InstExtractValue(d, rec)
      [] code = 27 -> InstInsertValue(d, rec)
      [] code = 29 -> InstVSelect(d, rec)
      [] code = 34 -> InstCall(d, rec)
      [] code = 43 -> InstGep(d, rec)
      [] code = 56 -> InstUnop(d, rec)
      [] code = 58 -> InstFreeze(d, rec)
      [] OTHER -> Fail(d)

FunctionRecord(d, code, rec) ==
    IF code = 1 THEN DeclareBlocks(d, rec)
    ELSE IF d.cur = 0 \/ d.cur > d.nb THEN Fail(d)
    ELSE InstRecord(d, code, rec)

---------------------------------------------------------------------------
(* After the last record.                                                  *)

PairsOf(o) == [i \in 1..(Len(o) \div 2) |-> << o[2 * i - 1], o[2 * i] >>]
HasPred(pairs, b) == \E i \in DOMAIN pairs : pairs[i][2].n = b

bc_switch_remap_phi_preds(insts, fx) ==
    LET add(pair, out, b) == IF HasPred(out, b) THEN out ELSE Append(out, << pair[1], BlockOp(b) >>)
        remap(out, pair) ==
            IF pair[2].n # fx.old THEN Append(out, pair)
            ELSE FoldLeft(LAMBDA s, b : add(pair, s, b), IF fx.keep THEN Append(out, pair) ELSE out, fx.new)
    IN  [i \in DOMAIN insts |->
            IF insts[i].op # "phi" THEN insts[i]
            ELSE [insts[i] EXCEPT !.o = FlattenSeq(FoldLeft(remap, <<>>, PairsOf(@)))]]

SwitchFixups(d) ==
    FoldLeft(LAMBDA e, fx : [e EXCEPT !.fn.blocks[fx.succ].insts = bc_switch_remap_phi_preds(@, fx)], d, d.fix)

(* A predecessor counts once in a phi.                                     *)
OncePerPred(o) ==
    FlattenSeq(FoldLeft(LAMBDA out, pair : IF HasPred(out, pair[2].n) THEN out ELSE Append(out, pair), <<>>, PairsOf(o)))
DedupePhis(d) ==
    LET once(x) == IF x.op = "phi" THEN [x EXCEPT !.o = OncePerPred(@)] ELSE x
        insts(b) == [i \in DOMAIN d.fn.blocks[b].insts |-> once(d.fn.blocks[b].insts[i])]
    IN  [d EXCEPT !.fn.blocks = [b \in DOMAIN @ |-> IF b <= d.nb THEN [@[b] EXCEPT !.insts = insts(b)] ELSE @[b]]]

(* Uses of values that were ahead get the types of their definitions, and  *)
(* results the types of their operands, in four passes over the function.  *)
RegTypes(d) ==
    FoldLeft(LAMBDA ty, v : IF v.k = "vreg" /\ v.n < d.next THEN (v.n :> v.t) @@ ty ELSE ty, EmptyMap, d.lv)

Retyped(x, ty) ==
    LET ops == [i \in DOMAIN x.o |->
                  IF x.o[i].k = "vreg" /\ x.o[i].n \in DOMAIN ty THEN [x.o[i] EXCEPT !.t = ty[x.o[i].n]] ELSE x.o[i]]
        inherits == x.op \in BinaryOps \cup {"fneg"} /\ ops # <<>>
    IN  [x EXCEPT !.o = ops, !.t = IF inherits THEN ops[1].t ELSE @]
RetypeInst(s, x) ==
    LET y == Retyped(x, s.ty)
    IN  [insts |-> Append(s.insts, y), ty |-> IF y.t = x.t THEN s.ty ELSE (y.d :> y.t) @@ s.ty]
RetypeBlock(s, b) ==
    IF b > s.d.nb THEN s
    ELSE LET r == FoldLeft(RetypeInst, [insts |-> <<>>, ty |-> s.ty], s.d.fn.blocks[b].insts)
         IN  [d |-> [s.d EXCEPT !.fn.blocks[b].insts = r.insts], ty |-> r.ty]
RetypePass(s, pass) == FoldLeft(RetypeBlock, s, [b \in DOMAIN s.d.fn.blocks |-> b])

ReconcileTypes(d) == FoldLeft(RetypePass, [d |-> d, ty |-> RegTypes(d)], << 1, 2, 3, 4 >>).d

FinishFunction(d) == ReconcileTypes(DedupePhis(SwitchFixups(d)))
================================================================================
