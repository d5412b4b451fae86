-------------------------------- MODULE BcWriter --------------------------------
(***************************************************************************)
(* Bitcode as LLVM writes it: the records of a module, the numbers it      *)
(* gives to types and values, and the bits.  None of this is code of the   *)
(* repository.                                                             *)
(***************************************************************************)
EXTENDS BcDecode

(* How a file is written: with abbreviations, with BLOCKINFO in front of   *)
(* the module, with addresses in the form of earlier releases.             *)
Shape(abbr, top, old) == [abbr |-> abbr, top |-> top, old |-> old]

(* A record, bytes that go with one, a block or an abbreviation.           *)
Item(k, n, ops, items) == [k |-> k, n |-> n, ops |-> ops, items |-> items]
Rec(code, ops) == Item("record", code, ops, <<>>)
BlobRec(code, bytes) == Item("blob", code, bytes, <<>>)
Block(id, items) == Item("block", id, <<>>, items)
Def(ops) == Item("define", 0, ops, <<>>)

Each(seq, op(_)) == [i \in DOMAIN seq |-> op(seq[i])]
Distinct(seq) ==
    Each(SelectSeq([i \in DOMAIN seq |-> i], LAMBDA i : \A j \in 1..(i - 1) : seq[j] # seq[i]), LAMBDA i : seq[i])

(* FlattenSeq by halves, as the sequences are long.                        *)
RECURSIVE Joined(_)
Joined(seqs) ==
    LET half == Len(seqs) \div 2
    IN  IF Len(seqs) = 0 THEN <<>> ELSE IF Len(seqs) = 1 THEN seqs[1]
        ELSE Joined(SubSeq(seqs, 1, half)) \o Joined(SubSeq(seqs, half + 1, Len(seqs)))
FlatEach(seq, op(_)) == Joined(Each(seq, op))

---------------------------------------------------------------------------
(* Types: parts before what they are parts of.                             *)

SigOf(f) == FuncType(f.ret, f.params, f.va)
CallSig(x) == FuncType(x.t, [i \in 1..(IF x.va THEN x.fixed ELSE Len(x.o) - 1) |-> x.o[i + 1].t], x.va)

RECURSIVE WithParts(_)
WithParts(t) == FlatEach(t.sub, WithParts) \o << t >>

InstTypes(x) == << x.t >> \o [i \in DOMAIN x.o |-> x.o[i].t] \o (IF x.op = "call" THEN << CallSig(x) >> ELSE <<>>)
InstsOf(f) == FlatEach(f.blocks, LAMBDA b : b.insts)
ModuleTypes(m) ==
    Distinct(FlatEach(<< Ptr, I32, I64, I8, I1 >> \o Each(m.globals, LAMBDA g : g.t) \o Each(m.funcs, SigOf)
                        \o FlatEach(m.funcs, LAMBDA f : FlatEach(InstsOf(f), InstTypes)), WithParts))

IndexOf(seq, x) == SelectInSeq(seq, LAMBDA y : y = x) - 1
NameByte(s) == CHOOSE b \in DOMAIN Names : Names[b] = s

Width(k) == CASE k = "i1" -> 1 [] k = "i8" -> 8 [] k = "i16" -> 16 [] k = "i32" -> 32 [] k = "i64" -> 64
TypeRecords(types, t) ==
    LET subs == [i \in DOMAIN t.sub |-> IndexOf(types, t.sub[i])]
    IN  CASE IsInt(t) -> << Rec(7, << Width(t.k) >>) >>
          [] t.k = "float" -> << Rec(3, <<>>) >>
          [] t.k = "double" -> << Rec(4, <<>>) >>
          [] t.k = "void" -> << Rec(2, <<>>) >>
          [] t.k = "ptr" -> << Rec(25, << 0 >>) >>
          [] t.k = "array" -> << Rec(11, << t.n >> \o subs) >>
          [] t.k = "vector" -> << Rec(12, << t.n >> \o subs) >>
          [] t.k = "func" -> << Rec(21, << t.n >> \o subs) >>
          [] t.k = "struct" -> IF t.name = "" THEN << Rec(18, << t.n >> \o subs) >>
                               ELSE << Rec(19, << NameByte(t.name) >>), Rec(20, << t.n >> \o subs) >>
TypeBlock(types) == Block(17, << Rec(1, << Len(types) >>) >> \o FlatEach(types, LAMBDA t : TypeRecords(types, t)))

---------------------------------------------------------------------------
(* Constants, as operands: "agg" has parts, "data" numbers, "bytes" bytes. *)
(* An address with an offset or of another type is an expression.          *)

IsSymbol(c) == c.k = "global" /\ c.n = 0 /\ c.t = Ptr
IsConst(c) == c.k \in {"imm", "fp", "null", "undef", "agg", "data", "bytes"} \/ (c.k = "global" /\ ~IsSymbol(c))
ConstParts(c) == CASE c.k = "agg" -> c.o [] c.k = "global" /\ c.n # 0 -> << ImmOp(c.n, I64) >> [] OTHER -> <<>>

RECURSIVE ConstsIn(_)
ConstsIn(c) == IF IsConst(c) THEN FlatEach(ConstParts(c), ConstsIn) \o << c >> ELSE <<>>

(* By type, the numbers first.                                             *)
ConstOrder(types, cs) ==
    LET of(seq, ints) == FlatEach(types, LAMBDA t : SelectSeq(seq, LAMBDA c : c.t = t /\ IsInt(t) = ints))
        all == Distinct(cs)
    IN  of(all, TRUE) \o of(all, FALSE)

Filled(k, t, o) == [Opnd(k, 0, t, NoName) EXCEPT !.o = o]
RECURSIVE InitConst(_, _, _)
InitConst(g, t, off) ==
    LET size == lr_type_size(t)
        bytes == [i \in 1..size |-> IF off + i <= Len(g.bytes) THEN g.bytes[off + i] ELSE 0]
        relocs == {r \in Range(g.relocs) : r.off >= off /\ r.off < off + size}
        the == CHOOSE r \in relocs : TRUE
        elem == t.sub[1]
        step == lr_type_size(elem)
    IN  CASE t = Ptr -> IF relocs = {} THEN NullOp(t) ELSE GlobalOp(the.sym, the.add, Ptr)
          [] IsInt(t) -> ImmOp(LeInt(bytes), t)
          [] IsFp(t) -> FpOp(LeNat(bytes), t)
          [] relocs = {} /\ bytes = Zeros(size) -> NullOp(t)
          [] t.k = "array" /\ elem = I8 -> Filled("bytes", t, bytes)
          [] IsSeq(t) /\ (IsInt(elem) \/ IsFp(elem)) ->
             Filled("data", t, [i \in 1..t.n |-> LeNat(SubSeq(bytes, (i - 1) * step + 1, i * step))])
          [] IsSeq(t) -> Filled("agg", t, [i \in 1..t.n |-> InitConst(g, elem, off + (i - 1) * step)])
          [] OTHER -> Filled("agg", t, [i \in DOMAIN t.sub |-> InitConst(g, t.sub[i], off + lr_struct_field_offset(t, i - 1))])

SignedVbr(n) == IF n >= 0 THEN 2 * n ELSE 2 * (-n) + 1
ConstNumber(c) == SignedVbr(IF c.t = I1 THEN -c.n ELSE c.n)

ValueNumber(table, o) == SelectInSeq(table, LAMBDA v : v.k = o.k /\ v.n = o.n /\ (v.k = "vreg" \/ v = o)) - 1

(* The bytes of a string are without a final zero if it has one.           *)
ConstRecord(types, table, c, shape) ==
    LET id(o) == ValueNumber(table, o)
        tid(t) == IndexOf(types, t)
        sym == GlobalOp(c.s, 0, Ptr)
        pairs == << tid(Ptr), id(sym), tid(I64), id(ImmOp(c.n, I64)) >>
    IN  CASE c.k = "undef" -> Rec(3, <<>>)
          [] c.k = "null" \/ (c.k \in {"imm", "fp"} /\ c.n = 0) -> Rec(2, <<>>)
          [] c.k = "imm" -> Rec(4, << ConstNumber(c) >>)
          [] c.k = "fp" -> Rec(6, << c.n >>)
          [] c.k = "global" /\ c.t # Ptr -> Rec(11, << 9, tid(Ptr), id(sym) >>)
          [] c.k = "global" -> IF shape.old THEN Rec(20, << tid(I8) >> \o pairs) ELSE Rec(32, << tid(I8), 2 >> \o pairs)
          [] c.k = "bytes" -> IF Last(c.o) = 0 THEN Rec(9, Front(c.o)) ELSE Rec(8, c.o)
          [] c.k = "data" -> Rec(22, c.o)
          [] c.k = "agg" -> Rec(7, Each(c.o, id))

(* SETTYPE wherever the type changes.                                      *)
ConstRecords(types, table, cs, shape) ==
    Joined([i \in DOMAIN cs |->
        (IF i > 1 /\ cs[i].t = cs[IF i > 1 THEN i - 1 ELSE 1].t THEN <<>> ELSE << Rec(1, << IndexOf(types, cs[i].t) >>) >>)
          \o << ConstRecord(types, table, cs[i], shape) >>])

(* The bits a number of this size takes.                                   *)
BitsFor(n) == CHOOSE w \in 1..16 : n < 2 ^ w /\ (w = 1 \/ n >= 2 ^ (w - 1))
CString6 == << AbbrevOp(LITERAL, 9), AbbrevOp(ARRAY, 0), AbbrevOp(CHAR6, 0) >>
DataArray == << AbbrevOp(LITERAL, 22), AbbrevOp(ARRAY, 0), AbbrevOp(FIXED, 9) >>
ConstBlock(types, table, cs, shape) ==
    IF cs = <<>> THEN <<>>
    ELSE << Block(11, (IF shape.abbr THEN << Def(CString6), Def(DataArray) >> ELSE <<>>)
                        \o ConstRecords(types, table, cs, shape)) >>

---------------------------------------------------------------------------
(* Functions.  Operands count back from the number of the next value, and  *)
(* those that are ahead of it bring their type.                            *)

ResultOf(x) == CASE x.op \in {"alloca", "gep"} -> Ptr [] x.op \in {"icmp", "fcmp"} -> I1 [] OTHER -> x.t
HasResult(x) == inst_has_dest(x) /\ x.op \notin {"switch", "fence"}
AllocaSize(x) == IF x.op = "alloca" /\ x.o = <<>> THEN ImmOp(1, I32) ELSE x.o[1]
ConstOperands(x) == IF x.op = "alloca" THEN << AllocaSize(x) >> ELSE x.o

IntOps == << "add", "sub", "mul", "udiv", "sdiv", "urem", "srem", "shl", "lshr", "ashr", "and", "or", "xor" >>
FpOps == << "fadd", "fsub", "fmul", "-", "fdiv", "frem" >>
CastCodes == << "trunc", "zext", "sext", "fptoui", "fptosi", "uitofp", "sitofp", "fptrunc", "fpext",
                "ptrtoint", "inttoptr", "bitcast" >>
IntPreds == << "eq", "ne", "ugt", "uge", "ult", "ule", "sgt", "sge", "slt", "sle" >>
FpPreds == << "false", "oeq", "ogt", "oge", "olt", "ole", "one", "ord",
              "uno", "ueq", "ugt", "uge", "ult", "ule", "une", "true" >>

InstRecordOf(types, table, x, next) ==
    LET id(o) == ValueNumber(table, o)
        tid(t) == IndexOf(types, t)
        rel(o) == (next - id(o)) % Wrap
        pair(o) == << rel(o) >> \o (IF id(o) >= next THEN << tid(o.t) >> ELSE <<>>)
        pairs(os) == FlatEach(os, pair)
        bb(o) == o.n - 1
        fixed == IF x.va THEN x.fixed ELSE Len(x.o) - 1
    IN  CASE x.op \in Range(IntOps) -> Rec(2, pair(x.o[1]) \o << rel(x.o[2]), IndexOf(IntOps, x.op) >>)
          [] x.op \in Range(FpOps) -> Rec(2, pair(x.o[1]) \o << rel(x.o[2]), IndexOf(FpOps, x.op) >>)
          [] x.op \in CastOps -> Rec(3, pair(x.o[1]) \o << tid(x.t), IndexOf(CastCodes, x.op) >>)
          [] x.op = "fneg" -> Rec(56, pair(x.o[1]) \o << 0 >>)
          [] x.op = "freeze" -> Rec(58, pair(x.o[1]))
          [] x.op = "icmp" -> Rec(28, pair(x.o[1]) \o << rel(x.o[2]), 32 + IndexOf(IntPreds, x.p) >>)
          [] x.op = "fcmp" -> Rec(28, pair(x.o[1]) \o << rel(x.o[2]), IndexOf(FpPreds, x.p) >>)
          [] x.op = "select" -> Rec(29, pair(x.o[2]) \o << rel(x.o[3]) >> \o pair(x.o[1]))
          [] x.op = "phi" ->
             Rec(16, << tid(x.t) >> \o [i \in DOMAIN x.o |->
                                          IF x.o[i].k = "block" THEN bb(x.o[i]) ELSE SignedVbr(next - id(x.o[i]))])
          [] x.op = "alloca" -> Rec(19, << tid(x.t), tid(AllocaSize(x).t), id(AllocaSize(x)), 67 >>)
          [] x.op = "load" -> Rec(20, pair(x.o[1]) \o << tid(x.t), 0, 0 >>)
          [] x.op = "store" -> Rec(44, pair(x.o[2]) \o pair(x.o[1]) \o << 0, 0 >>)
          [] x.op = "va_arg" -> Rec(23, << tid(Ptr), rel(x.o[1]), tid(x.t) >>)
          [] x.op = "gep" -> Rec(43, << 1, tid(x.t) >> \o pairs(x.o))
          [] x.op = "call" ->
             Rec(34, << 0, 2 ^ 15, tid(CallSig(x)) >> \o pair(x.o[1])
                       \o Each(SubSeq(x.o, 2, fixed + 1), rel) \o pairs(SubSeq(x.o, fixed + 2, Len(x.o))))
          [] x.op = "extractvalue" -> Rec(26, pair(x.o[1]) \o x.idx)
          [] x.op = "insertvalue" -> Rec(27, pairs(x.o) \o x.idx)
          [] x.op = "ret" -> Rec(10, pair(x.o[1]))
          [] x.op = "retvoid" -> Rec(10, <<>>)
          [] x.op = "unreachable" -> Rec(15, <<>>)
          [] x.op = "br" -> Rec(11, << bb(x.o[1]) >>)
          [] x.op = "condbr" -> Rec(11, << bb(x.o[2]), bb(x.o[3]), rel(x.o[1]) >>)
          [] x.op = "switch" ->
             Rec(12, << tid(x.o[1].t), rel(x.o[1]) >>
                       \o [i \in 1..(Len(x.o) - 1) |-> IF x.o[i + 1].k = "block" THEN bb(x.o[i + 1]) ELSE id(x.o[i + 1])])
          [] x.op = "fence" -> Rec(36, << 7, 1 >>)

(* Each record has the number of the next value at hand.                   *)
InstRecords(types, table, insts, base) ==
    LET before(i) == Len(SelectSeq(SubSeq(insts, 1, i - 1), HasResult))
    IN  [i \in DOMAIN insts |-> InstRecordOf(types, table, insts[i], base + before(i))]

NameOfBlock == << AbbrevOp(LITERAL, 2), AbbrevOp(VBR, 8), AbbrevOp(ARRAY, 0), AbbrevOp(FIXED, 7) >>
BlockNames(f) ==
    LET named == SelectSeq([b \in DOMAIN f.blocks |-> b], LAMBDA b : f.blocks[b].label # NoName)
    IN  IF named = <<>> THEN <<>>
        ELSE << Block(14, Each(named, LAMBDA b : Rec(2, << b - 1, NameByte(f.blocks[b].label[1]) >>))) >>

(* The values of a function: the constants it has of its own, how many are *)
(* numbered before its instructions, and all of them.                      *)
FunctionTable(types, mtable, f) ==
    LET insts == InstsOf(f)
        new == SelectSeq(FlatEach(FlatEach(insts, ConstOperands), ConstsIn), LAMBDA c : ~Contains(mtable, c))
        cs == ConstOrder(types, new)
        known == mtable \o [i \in DOMAIN f.pv |-> VRegOp(f.pv[i], f.params[i])] \o cs
    IN  [consts |-> cs, known |-> Len(known),
         all |-> known \o Each(SelectSeq(insts, HasResult), LAMBDA x : VRegOp(x.d, ResultOf(x)))]

(* Metadata stands for the blocks that are skipped.                        *)
FunctionBlock(types, table, f, shape) ==
    Block(12, << Rec(1, << Len(f.blocks) >>) >> \o ConstBlock(types, table.all, table.consts, shape)
                \o InstRecords(types, table.all, InstsOf(f), table.known) \o BlockNames(f)
                \o << Block(15, << Rec(40, << 1 >>) >>) >>)

---------------------------------------------------------------------------
(* The module.                                                             *)

InfoAbbrevs(types) ==
    LET t == AbbrevOp(FIXED, BitsFor(Len(types)))
        lit(n) == AbbrevOp(LITERAL, n)
    IN  (11 :> << << lit(1), t >>, << lit(4), AbbrevOp(VBR, 8) >>, << lit(2) >> >>)
          @@ (12 :> << << lit(20), AbbrevOp(VBR, 6), t, AbbrevOp(VBR, 4), AbbrevOp(FIXED, 1) >>,
                       << lit(2), AbbrevOp(VBR, 6), AbbrevOp(VBR, 6), AbbrevOp(FIXED, 4) >>,
                       << lit(10), AbbrevOp(VBR, 6) >>,
                       << lit(43), AbbrevOp(FIXED, 1), t, AbbrevOp(ARRAY, 0), AbbrevOp(VBR, 6) >> >>)
          @@ (14 :> << NameOfBlock >>)
InfoBlock(types) ==
    LET info == InfoAbbrevs(types)
    IN  Block(0, FlatEach(<< 14, 11, 12 >>, LAMBDA b : << Rec(1, << b >>) >> \o Each(info[b], Def)))

Linkage(sym) == IF sym[2] = 0 THEN 0 ELSE 3
StrtabOf(m) == Each(m.globals \o m.funcs, LAMBDA x : NameByte(x.name[1]))
GlobalRecord(types, table, m, i) ==
    LET g == m.globals[i]
        init == IF g.ext THEN 0 ELSE ValueNumber(table, InitConst(g, g.t, 0)) + 1
    IN  Rec(7, << i - 1, 1, IndexOf(types, g.t), (IF g.const THEN 1 ELSE 0) + 2, init, Linkage(g.name), 0, 0 >>)
FuncRecord(types, m, i) ==
    LET f == m.funcs[i]
    IN  Rec(8, << Len(m.globals) + i - 1, 1, IndexOf(types, SigOf(f)), 0, IF IsDecl(f) THEN 1 ELSE 0, Linkage(f.name), 0 >>)

ModuleTable(types, m) ==
    LET syms == Each(m.globals \o m.funcs, LAMBDA x : GlobalOp(x.name, 0, Ptr))
        inits == FlatEach(SelectSeq(m.globals, LAMBDA g : ~g.ext), LAMBDA g : ConstsIn(InitConst(g, g.t, 0)))
        cs == ConstOrder(types, inits)
    IN  [consts |-> cs, all |-> syms \o cs]

Defined(m) == SelectSeq(m.funcs, LAMBDA f : ~IsDecl(f))

(* tables are those of the functions that have bodies.                     *)
ModuleItems(m, types, table, tables, shape) ==
    << Rec(1, << 2 >>) >> \o (IF shape.abbr /\ ~shape.top THEN << InfoBlock(types) >> ELSE <<>>)
      \o << Block(9, << Rec(3, << 1, 2 >>) >>), TypeBlock(types), Rec(16, << 97 >>) >>
      \o [i \in DOMAIN m.globals |-> GlobalRecord(types, table.all, m, i)]
      \o [i \in DOMAIN m.funcs |-> FuncRecord(types, m, i)]
      \o ConstBlock(types, table.all, table.consts, shape)
      \o [i \in DOMAIN tables |-> FunctionBlock(types, tables[i], Defined(m)[i], shape)]
      \o << Block(14, << Rec(3, << 0, 1 >>) >>) >>

FileHead(types, shape) ==
    << Block(13, << Rec(1, << 76 >>), Rec(2, << 0 >>) >>) >>
      \o (IF shape.abbr /\ shape.top THEN << InfoBlock(types) >> ELSE <<>>)
StrtabBlock(m) == Block(23, << Def(<< AbbrevOp(LITERAL, 1), AbbrevOp(BLOB, 0) >>), BlobRec(1, StrtabOf(m)) >>)

---------------------------------------------------------------------------
(* The bits.                                                               *)

Bits(n, w) == [i \in 1..w |-> IF i > 30 THEN 0 ELSE (n \div 2 ^ (i - 1)) % 2]
RECURSIVE Vbr(_, _)
Vbr(n, w) ==
    LET half == 2 ^ (w - 1)
    IN  IF n < half THEN Bits(n, w) ELSE Bits((n % half) + half, w) \o Vbr(n \div half, w)
Aligned(bits) == bits \o Zeros(AlignUp(Len(bits), 32) - Len(bits))

IsChar6(c) == c \in (48..57) \cup (65..90) \cup (97..122) \cup {46, 95}
Char6Of(c) == CASE c >= 97 -> c - 97 [] c = 95 -> 63 [] c >= 65 -> c - 39 [] c = 46 -> 62 [] OTHER -> c + 4

OpBits(op, v) ==
    CASE op.kind = LITERAL -> <<>> [] op.kind = FIXED -> Bits(v, op.value)
      [] op.kind = VBR -> Vbr(v, op.value) [] op.kind = CHAR6 -> Bits(v, 6)
DefOpBits(op) ==
    IF op.kind = LITERAL THEN << 1 >> \o Vbr(op.value, 8)
    ELSE << 0 >> \o Bits(op.kind, 3) \o (IF op.kind \in {FIXED, VBR} THEN Vbr(op.value, 5) ELSE <<>>)
DefBits(ops) == Vbr(Len(ops), 5) \o FlatEach(ops, DefOpBits)

(* The operand of abbreviation a for the i-th word of a record; an array   *)
(* takes the rest.                                                         *)
HasArray(a) == Len(a) > 1 /\ a[Len(a) - 1].kind = ARRAY
OpFor(a, i) == IF HasArray(a) /\ i + 1 >= Len(a) - 1 THEN Last(a) ELSE a[i + 1]
Fits(a, item) ==
    /\ item.k = "record" /\ a[1] = AbbrevOp(LITERAL, item.n)
    /\ IF HasArray(a) THEN Len(item.ops) >= Len(a) - 3 ELSE Len(item.ops) = Len(a) - 1
    /\ \A i \in DOMAIN item.ops :
          LET op == OpFor(a, i)
          IN  (op.kind = FIXED => item.ops[i] < 2 ^ op.value) /\ (op.kind = CHAR6 => IsChar6(item.ops[i]))

(* A record and its operands as the abbreviation has them.                 *)
RecordBits(abbrevs, item, alen) ==
    LET i == SelectInSeq(abbrevs, LAMBDA a : Fits(a, item))
        a == abbrevs[i]
        char6(j) == OpFor(a, j).kind = CHAR6
        ops == [j \in DOMAIN item.ops |-> IF char6(j) THEN Char6Of(item.ops[j]) ELSE item.ops[j]]
        count(j) == IF HasArray(a) /\ j = Len(a) - 2 THEN Vbr(Len(ops) - (Len(a) - 3), 6) ELSE <<>>
        words == Joined([j \in DOMAIN ops |-> count(j) \o OpBits(OpFor(a, j), ops[j])])
    IN  IF i = 0
        THEN [ops |-> item.ops,
              bits |-> Bits(UNABBREV_RECORD, alen) \o Vbr(item.n, 6) \o Vbr(Len(item.ops), 6)
                         \o FlatEach(item.ops, LAMBDA v : Vbr(v, 6))]
        ELSE [ops |-> ops, bits |-> Bits(FIRST_USER_ABBREV + i - 1, alen) \o words]

(* e is what has been written of a block: bits, records, abbreviations.    *)
(* Records that follow each other are written together.                    *)
WriteRecords(e, block, items, alen) ==
    LET parts == Each(items, LAMBDA x : RecordBits(e.abbrevs, x, alen))
        upto(i) == FlatEach(SubSeq(parts, 1, i), LAMBDA x : x.bits)
        record(i) == [end |-> Len(e.bits) + Len(upto(i)), block |-> block, code |-> items[i].n, ops |-> parts[i].ops]
    IN  [e EXCEPT !.bits = @ \o upto(Len(parts)), !.recs = @ \o [i \in DOMAIN parts |-> record(i)]]

WriteBlob(e, item, alen) ==
    LET head == Aligned(e.bits \o Bits(FIRST_USER_ABBREV, alen) \o Vbr(Len(item.ops), 6))
    IN  [e EXCEPT !.bits = Aligned(head \o FlatEach(item.ops, LAMBDA b : Bits(b, 8)))]

(* A block of a kind that has no abbreviations is four bits wide.          *)
BlockWidth(id) == IF id = 0 THEN 2 ELSE IF id \in {13, 23} THEN 3 ELSE 4

RECURSIVE WriteItems(_, _, _, _, _), WriteBlock(_, _, _, _)
WriteItems(e, block, items, alen, info) ==
    IF items = <<>> THEN e
    ELSE LET item == Head(items)
             other == SelectInSeq(items, LAMBDA x : x.k # "record")
             n == CASE item.k # "record" -> 1 [] other = 0 -> Len(items) [] OTHER -> other - 1
             next == CASE item.k = "record" -> WriteRecords(e, block, SubSeq(items, 1, n), alen)
                       [] item.k = "blob" -> WriteBlob(e, item, alen)
                       [] item.k = "define" ->
                          [e EXCEPT !.bits = @ \o Bits(DEFINE_ABBREV, alen) \o DefBits(item.ops),
                                    !.abbrevs = IF block = 0 THEN @ ELSE Append(@, item.ops)]
                       [] item.k = "block" -> WriteBlock(e, item, alen, info)
         IN  WriteItems(next, block, SubSeq(items, n + 1, Len(items)), alen, info)
WriteBlock(e, item, alen, info) ==
    LET width == BlockWidth(item.n)
        own == IF item.n \in DOMAIN info THEN info[item.n] ELSE <<>>
        inner == WriteItems([bits |-> <<>>, recs |-> <<>>, abbrevs |-> own], item.n, item.items, width, info)
        body == Aligned(inner.bits \o Bits(END_BLOCK, width))
        head == Aligned(e.bits \o Bits(ENTER_BLOCK, alen) \o Vbr(item.n, 8) \o Vbr(width, 4))
                  \o Bits(Len(body) \div 32, 32)
    IN  [e EXCEPT !.bits = head \o body,
                  !.recs = @ \o Each(inner.recs, LAMBDA r : [r EXCEPT !.end = @ + Len(head)])]

Nothing == [bits |-> <<>>, recs |-> <<>>, abbrevs |-> <<>>]
WriteTop(e, items, types, shape) ==
    WriteItems(e, -1, items, 2, IF shape.abbr THEN InfoAbbrevs(types) ELSE EmptyMap)

(* A file: the module, how it is written and what happens to it then, its  *)
(* bits, the records with where they end.  The module takes the bits from  *)
(* start on up to end; the string table comes after it.                    *)
Blank(m, shape, fate) ==
    [m |-> m, shape |-> shape, fate |-> fate, bits |-> <<>>, recs |-> <<>>, whole |-> FALSE, start |-> 0, end |-> 0]
Written(f, e, start, end) ==
    [f EXCEPT !.bits = e.bits, !.recs = e.recs, !.whole = TRUE, !.start = start, !.end = end]

(* What may become of a file: it is cut off inside the module, or zeros    *)
(* follow it.                                                              *)
CutAt(f, word) == [f EXCEPT !.bits = SubSeq(@, 1, 32 * word), !.whole = FALSE]
Delivered(f) ==
    CASE f.fate = "whole" -> {f}
      [] f.fate = "padded" -> {[f EXCEPT !.bits = @ \o Zeros(64)]}
      [] f.fate = "cut" -> {CutAt(f, w) : w \in (f.start \div 32 + 1)..(f.end \div 32 - 1)}
================================================================================
