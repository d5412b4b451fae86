-------------------------------- MODULE LlParser --------------------------------
(***************************************************************************)
(* ll_lexer.c and ll_parser.c: LLVM text read into a module, a line at a   *)
(* time.  Names of values, blocks, types and symbols are entered into the  *)
(* parser's tables at their first appearance, be it a use or a definition. *)
(* The hash indices over these tables are left out: they find the entry    *)
(* that has the name.                                                      *)
(***************************************************************************)
EXTENDS IrDump

(* Words the lexer keeps for itself: as a label they are no identifier.    *)
Keywords ==
    {"define", "declare", "ret", "br", "label", "call", "switch", "invoke", "load", "store",
     "alloca", "phi", "select", "to", "x", "type", "global", "constant", "align", "true",
     "false", "null", "undef", "ptr", "void", "catch", "cleanup", "resume", "unwind",
     "unreachable"} \cup CastOps \cup BinaryOps

(* A word that is a keyword is never an identifier.                        *)
lookup_keyword(w) == w \in Keywords

EmptyMap == [x \in {} |-> 0]

(* The parser between two lines.  scope is what the module's address adds  *)
(* to a local symbol; ph the types that are only referred to so far; next  *)
(* the next free register and cur the block that takes the instructions.   *)
NewParser(scope) ==
    [scope |-> scope, mod |-> ModuleOf(<<>>, <<>>), types |-> EmptyMap, ph |-> {},
     gmap |-> EmptyMap, vmap |-> EmptyMap, vty |-> EmptyMap, bmap |-> EmptyMap,
     fn |-> <<>>, next |-> 0, cur |-> 0, err |-> FALSE]

Fail(p) == [p EXCEPT !.err = TRUE]

---------------------------------------------------------------------------
(* Types.  A structure that is named before it is defined gets an empty    *)
(* one under that name, which the definition fills in place.               *)

RECURSIVE NamesIn(_)
NamesIn(t) == IF t.k = "named" THEN {t.name} ELSE UNION {NamesIn(t.sub[i]) : i \in DOMAIN t.sub}

parse_type(p, t) ==
    LET fresh == NamesIn(t) \ DOMAIN p.types
    IN  [p EXCEPT !.types = [x \in fresh |-> NamedStruct(x, <<>>)] @@ @, !.ph = @ \cup fresh]

RECURSIVE parse_types(_, _)
parse_types(p, ts) == IF ts = <<>> THEN p ELSE parse_types(parse_type(p, Head(ts)), Tail(ts))

(* The structures behind the names, as far as they are known.              *)
RECURSIVE Known(_, _)
Known(p, t) ==
    IF t.k = "named" THEN Known(p, p.types[t.name])
    ELSE [t EXCEPT !.sub = [i \in DOMAIN t.sub |-> Known(p, t.sub[i])]]

register_type(p, name, t) ==
    LET held == name \in p.ph
        filled == IF held /\ t.k = "struct" /\ t.name = "" THEN [t EXCEPT !.name = name] ELSE t
    IN  [p EXCEPT !.types = (name :> filled) @@ @, !.ph = @ \ {name}]

RECURSIVE Nameless(_)
Nameless(t) == [t EXCEPT !.name = "", !.sub = [i \in DOMAIN t.sub |-> Nameless(t.sub[i])]]
type_equals_recursive(p, a, b) == Nameless(Known(p, a)) = Nameless(Known(p, b))

---------------------------------------------------------------------------
(* Registers, blocks and symbols by name.                                  *)

bind_vreg_type(p, v, t) ==
    IF v \notin DOMAIN p.vty THEN [p EXCEPT !.vty = (v :> t) @@ @]
    ELSE IF type_equals_recursive(p, p.vty[v], t) THEN p ELSE Fail(p)

register_vreg_name(p, name, v) == [p EXCEPT !.vmap = (name :> v) @@ @]

lr_vreg_new(p) == [p EXCEPT !.next = @ + 1]

resolve_vreg(p, name) ==
    IF name \in DOMAIN p.vmap THEN p ELSE register_vreg_name(lr_vreg_new(p), name, p.next)

lr_block_create(p, label) == [p EXCEPT !.fn.blocks = Append(@, BlockOf(label, <<>>))]

resolve_block(p, label) ==
    IF label \in DOMAIN p.bmap THEN p
    ELSE [lr_block_create(p, label) EXCEPT !.bmap = (label :> Len(p.fn.blocks) + 1) @@ @]

RECURSIVE resolve_blocks(_, _)
resolve_blocks(p, labels) ==
    IF labels = <<>> THEN p ELSE resolve_blocks(resolve_block(p, Head(labels)), Tail(labels))

(* The number 0 names the entry block in a phi.                            *)
resolve_phi_block(p, label) ==
    IF label = <<"", 0>> /\ p.fn.blocks # <<>> THEN p ELSE resolve_block(p, label)
PhiBlockId(p, label) == IF label \in DOMAIN p.bmap THEN p.bmap[label] ELSE 1

resolve_global(p, sym) == IF sym \in DOMAIN p.gmap THEN p ELSE [p EXCEPT !.gmap = (sym :> sym) @@ @]

(* A local definition takes its visible name over from earlier references. *)
register_symbol(p, name, sym, local) ==
    LET visible == IF local \/ name \notin DOMAIN p.gmap THEN (name :> sym) @@ p.gmap ELSE p.gmap
    IN  [p EXCEPT !.gmap = IF sym \in DOMAIN visible THEN visible ELSE (sym :> sym) @@ visible]

(* The names the code shares between units although they are local.        *)
IsSharedName(sym) == sym[1] \in {"_copy_t", ".lc.constagg.1"}
scoped_local_global_name(p, sym) ==
    IF sym[2] # 0 \/ IsSharedName(sym) THEN sym ELSE <<sym[1], p.scope>>

---------------------------------------------------------------------------
(* Operands: x as it stands in the text behind the type t.                 *)

Res(p, o) == [p |-> p, o |-> o]
Prepend(ops, r) == Res(r.p, ops \o r.o)

(* parse_const_gep_operand: an address and the bytes its indices add, as   *)
(* long as they are numbers.                                               *)
RECURSIVE ConstGepOffset(_, _, _)
ConstGepOffset(t, idx, first) ==
    IF idx = <<>> \/ Head(idx).k # "imm" THEN 0
    ELSE LET op == Head(idx)
             here == IF ~first /\ t.k = "struct"
                     THEN (IF op.n < Len(t.sub) THEN lr_struct_field_offset(t, op.n) ELSE 0)
                     ELSE op.n * GepScale(t, first)
         IN  here + ConstGepOffset(GepNext(t, first, op), Tail(idx), FALSE)

parse_const_gep_operand(p, src, base, idx, t) ==
    LET known == Known(p, src)
        whole == \A i \in DOMAIN idx : idx[i].k = "imm"
    IN  IF base.k = "global"
        THEN GlobalOp(base.s, base.n + (IF whole THEN ConstGepOffset(known, idx, TRUE) ELSE 0), t)
        ELSE IF base.k = "vreg" THEN VRegOp(base.n, t) ELSE NullOp(t)

(* pack_scalar_bits: only numbers have bits, the rest is zero.             *)
FieldBits(t, op) ==
    IF op.k \in {"imm", "fp"} THEN ToBytes(op.n, lr_type_size(t)) ELSE Zeros(lr_type_size(t))

RECURSIVE PackedFields(_, _, _)
PackedFields(t, ops, i) ==
    IF i = 0 THEN Zeros(lr_type_size(t))
    ELSE Overwrite(PackedFields(t, ops, i - 1), lr_struct_field_offset(t, i - 1),
                   FieldBits(t.sub[i], ops[i]))

PackedElements(t, ops) ==
    FlattenSeq([i \in DOMAIN ops |-> FieldBits(t.sub[1], ops[i])])

(* An aggregate of up to eight bytes is a number, a larger one undefined.  *)
parse_struct_constant_fields(p, t, ops) ==
    LET known == Known(p, t)
        size == lr_type_size(known)
    IN  IF size > 8 \/ Len(ops) # (IF known.k = "struct" THEN Len(known.sub) ELSE known.n)
        THEN UndefOp(t)
        ELSE ImmOp(LeInt(IF known.k = "struct" THEN PackedFields(known, ops, Len(ops))
                         ELSE PackedElements(known, ops)), t)

RECURSIVE parse_operand(_, _, _), parse_operands(_, _), OperandsAfter(_, _)

(* parse_typed_operand, for each operand in turn.                          *)
parse_operands(p, xs) ==
    IF xs = <<>> THEN Res(p, <<>>)
    ELSE OperandsAfter(parse_operand(parse_type(p, Head(xs).t), Head(xs), Head(xs).t), Tail(xs))
OperandsAfter(r, xs) == Prepend(<< r.o >>, parse_operands(r.p, xs))

(* Constant expressions over operands r that are read.                     *)
ConstGep(r, x, t) == Res(r.p, parse_const_gep_operand(r.p, x.o[1].t, r.o[1], Tail(r.o), t))
ConstCast(r, x, t) == Res(parse_type(r.p, x.t), [r.o[1] EXCEPT !.t = t])
ConstFields(r, t) == Res(r.p, parse_struct_constant_fields(r.p, t, r.o))

parse_local(p, x, t) ==
    LET q == resolve_vreg(p, x.s)
        b == bind_vreg_type(q, q.vmap[x.s], t)
    IN  Res(b, IF b.err THEN ImmOp(0, t) ELSE VRegOp(q.vmap[x.s], t))

parse_operand(p, x, t) ==
    CASE x.k = "int" -> Res(p, ImmOp(x.n, t))
      [] x.k \in {"dec", "hex"} -> Res(p, FpOp(x.n, t))
      [] x.k = "true" -> Res(p, ImmOp(1, t))
      [] x.k \in {"false", "zero"} -> Res(p, ImmOp(0, t))
      [] x.k = "null" -> Res(p, NullOp(t))
      [] x.k = "undef" -> Res(p, UndefOp(t))
      [] x.k = "local" -> parse_local(p, x, t)
      [] x.k = "ref" -> LET q == resolve_global(p, x.s) IN Res(q, GlobalOp(q.gmap[x.s], 0, t))
      [] x.k = "gep" -> ConstGep(parse_operands(parse_type(p, x.o[1].t), Tail(x.o)), x, t)
      [] x.k = "cast" -> ConstCast(parse_operands(p, x.o), x, t)
      [] x.k = "agg" -> IF Known(p, t).k = "array" THEN Res(p, UndefOp(t))
                        ELSE ConstFields(parse_operands(p, x.o), t)

---------------------------------------------------------------------------
(* Instructions, each appended to the current block.                       *)

(* Register 0 has no type of its own.                                      *)
record_dest_type(p, d, t) == IF d = 0 \/ t.k = "void" THEN p ELSE bind_vreg_type(p, d, t)

lr_block_append(p, inst) == [p EXCEPT !.fn.blocks[p.cur].insts = Append(@, inst)]

ResultType(inst) == IF inst.op \in {"alloca", "gep"} THEN Ptr ELSE inst.t
emit_inst(p, inst) == lr_block_append(record_dest_type(p, inst.d, ResultType(inst)), inst)
EmitOver(r, inst) == emit_inst(r.p, [inst EXCEPT !.o = r.o])

(* Mutant of canonicalize_gep_index: the register is used as it is.        *)
IndexUnextended(p, op) == Res(p, IF IsInt(op.t) THEN [op EXCEPT !.t = I64] ELSE op)

(* Indices of an address are 64 bits wide: a narrower register is extended *)
(* by an instruction of its own.                                           *)
canonicalize_gep_index(p, op) ==
    IF ~IsInt(op.t) THEN Res(p, op)
    ELSE IF op.k = "vreg" /\ op.t # I64
    THEN Res(lr_block_append(lr_vreg_new(p), InstOf("sext", p.next, I64, << op >>)), VRegOp(p.next, I64))
    ELSE Res(p, [op EXCEPT !.t = I64])

GepIndex(r) == canonicalize_gep_index(r.p, r.o[1])
RECURSIVE GepOperands(_, _), IndicesAfter(_, _)
GepOperands(p, xs) ==
    IF xs = <<>> THEN Res(p, <<>>)
    ELSE IndicesAfter(GepIndex(parse_operands(p, << Head(xs) >>)), Tail(xs))
IndicesAfter(r, xs) == Prepend(<< r.o >>, GepOperands(r.p, xs))

GepOver(base, xs) == Prepend(base.o, GepOperands(base.p, xs))
parse_gep(p, x, d) ==
    EmitOver(GepOver(parse_operands(parse_type(p, x.t), << x.o[1] >>), Tail(x.o)),
             InstOf("gep", d, x.t, <<>>))

RECURSIVE PhiOperands(_, _, _)
PhiOperands(p, t, xs) ==
    IF xs = <<>> THEN Res(p, <<>>)
    ELSE LET val == parse_operand(p, xs[1], t)
             q == resolve_phi_block(val.p, xs[2].s)
         IN  Prepend(<< val.o, BlockOp(PhiBlockId(q, xs[2].s)) >>,
                     PhiOperands(q, t, SubSeq(xs, 3, Len(xs))))

parse_phi(p, x, d) ==
    EmitOver(PhiOperands(parse_type(p, x.t), x.t, x.o), InstOf("phi", d, x.t, <<>>))

SecondOperand(a, x, t) == LET b == parse_operand(a.p, x, t) IN Res(b.p, << a.o, b.o >>)

(* The operands follow one type.                                           *)
parse_binary(p, x, d) ==
    LET t == x.t
        a == parse_operand(parse_type(p, t), x.o[1], t)
        rt == IF x.op \in {"icmp", "fcmp"} THEN I1 ELSE t
    IN  EmitOver(SecondOperand(a, x.o[2], t), [InstOf(x.op, d, rt, <<>>) EXCEPT !.p = x.p])

call_result_type(t) == IF t.k = "func" THEN t.sub[1] ELSE t

parse_call(p, x, d) ==
    LET isf == x.t.k = "func"
    IN  EmitOver(OperandsAfter(parse_operand(parse_type(p, x.t), x.o[1], Ptr), Tail(x.o)),
                 [InstOf("call", d, call_result_type(x.t), <<>>) EXCEPT
                    !.va = isf /\ x.t.n = 1, !.fixed = IF isf THEN Len(x.t.sub) - 1 ELSE 0])

(* The next three have their operands r.                                   *)
parse_extractvalue(r, x, d) ==
    LET leaf == IndexPath(Known(r.p, r.o[1].t), x.idx)
    IN  EmitOver(r, [InstOf("extractvalue", d, IF leaf = {} THEN I64 ELSE CHOOSE t \in leaf : TRUE, <<>>)
                       EXCEPT !.idx = x.idx])

parse_insertvalue(r, x, d) == EmitOver(r, [InstOf("insertvalue", d, r.o[1].t, <<>>) EXCEPT !.idx = x.idx])

(* Elements of vectors, at a constant index.                               *)
parse_element(r, x, d) ==
    LET at == Last(r.o)
        known == Known(r.p, r.o[1].t)
        t == IF x.op = "insertelement" THEN r.o[1].t ELSE IF IsSeq(known) THEN known.sub[1] ELSE I64
        op == IF x.op = "insertelement" THEN "insertvalue" ELSE "extractvalue"
    IN  IF at.k # "imm" THEN Fail(r.p)
        ELSE emit_inst(r.p, [InstOf(op, d, t, Front(r.o)) EXCEPT !.idx = << at.n >>])

(* The instructions that have typed operands and a type to go with.        *)
parse_plain(r, x, d) ==
    LET t == CASE x.op = "select" -> r.o[2].t [] x.op \in {"fneg", "ret"} -> r.o[1].t [] OTHER -> x.t
    IN  EmitOver(r, InstOf(x.op, d, t, <<>>))

(* A structure constant of more than eight bytes is stored by the field.   *)
RECURSIVE StoreFields(_, _, _, _, _)
StoreFields(p, t, fields, addr, i) ==
    IF i > Len(fields) THEN p
    ELSE LET v == p.next
             q == emit_inst(lr_vreg_new(p), InstOf("gep", v, t, << addr, ImmOp(0, I32), ImmOp(i - 1, I32) >>))
         IN  StoreFields(emit_inst(q, InstOf("store", 0, Void, << fields[i], VRegOp(v, Ptr) >>)),
                         t, fields, addr, i + 1)

(* r holds the fields and the address.                                     *)
StoreSplit(r, t) == StoreFields(r.p, t, Front(r.o), Last(r.o), 1)
parse_store(p, x) ==
    LET q == parse_type(p, x.t)
        known == Known(q, x.t)
    IN  IF known.k = "struct" /\ lr_type_size(known) > 8 /\ x.o[1].k = "agg"
        THEN StoreSplit(parse_operands(q, Append(x.o[1].o, x.o[2])), x.t)
        ELSE EmitOver(OperandsAfter(parse_operand(q, x.o[1], x.t), << x.o[2] >>),
                      InstOf("store", 0, Void, <<>>))

---------------------------------------------------------------------------
(* Terminators.  A branch makes the blocks it names.                       *)

Targets(xs) == [i \in DOMAIN xs |-> xs[i].s]

CondBrOver(c, labels) ==
    LET q == resolve_blocks(c.p, labels)
    IN  emit_inst(q, InstOf("condbr", 0, Void, << c.o, BlockOp(q.bmap[labels[1]]), BlockOp(q.bmap[labels[2]]) >>))
parse_br(p, x) ==
    IF Len(x.o) = 1
    THEN LET q == resolve_block(p, x.o[1].s)
         IN  emit_inst(q, InstOf("br", 0, Void, << BlockOp(q.bmap[x.o[1].s]) >>))
    ELSE CondBrOver(parse_operand(p, x.o[1], I1), Targets(Tail(x.o)))

(* A switch becomes a chain of comparisons, one block each after the       *)
(* first; the last one goes to the default.                                *)
RECURSIVE SwitchChain(_, _, _, _, _)
SwitchChain(p, val, cases, dflt, i) ==
    LET v == p.next
        more == i < Len(cases)
        c == emit_inst(lr_vreg_new(p),
                 [InstOf("icmp", v, I1, << val, ImmOp(cases[i].n, val.t) >>) EXCEPT !.p = "eq"])
        q == IF more THEN lr_block_create(c, <<"switch", 10 * p.cur + i>>) ELSE c
        id == IF more THEN Len(q.fn.blocks) ELSE dflt
        b == emit_inst(q, InstOf("condbr", 0, Void, << VRegOp(v, I1), BlockOp(cases[i].id), BlockOp(id) >>))
    IN  IF more THEN SwitchChain([b EXCEPT !.cur = id], val, cases, dflt, i + 1)
        ELSE b

(* The value is read, then the blocks in the order they are named.         *)
SwitchOver(val, x) ==
    LET q == resolve_blocks(val.p, Targets(SelectSeq(Tail(x.o), LAMBDA y : y.k = "label")))
        n == (Len(x.o) - 2) \div 2
        cases == [i \in 1..n |-> [n |-> x.o[2 * i + 1].n, id |-> q.bmap[x.o[2 * i + 2].s]]]
        dflt == q.bmap[x.o[2].s]
    IN  IF n = 0 THEN emit_inst(q, InstOf("br", 0, Void, << BlockOp(dflt) >>))
        ELSE SwitchChain(q, val.o, cases, dflt, 1)

(* The block that follows a switch in the text is the caller's, not the    *)
(* last of the chain.                                                      *)
parse_switch(p, x) ==
    [SwitchOver(parse_operand(parse_type(p, x.t), x.o[1], x.t), x) EXCEPT !.cur = p.cur]

(* invoke, landingpad and resume skip to the end of the line, which the    *)
(* lexer never reports: the rest of the file is skipped.                   *)
parse_instruction(p, x) ==
    LET q == IF x.d = NoName THEN p ELSE resolve_vreg(p, x.d)
        d == IF x.d = NoName THEN 0 ELSE q.vmap[x.d]
    IN  CASE x.op \in BinaryOps \cup {"icmp", "fcmp"} -> parse_binary(q, x, d)
          [] x.op \in CastOps \cup {"load", "alloca", "select", "fneg", "ret"} ->
             parse_plain(parse_operands(parse_type(q, x.t), x.o), x, d)
          [] x.op \in {"retvoid", "unreachable"} -> emit_inst(q, InstOf(x.op, 0, Void, <<>>))
          [] x.op = "getelementptr" -> parse_gep(q, x, d)
          [] x.op = "phi" -> parse_phi(q, x, d)
          [] x.op = "call" -> parse_call(q, x, d)
          [] x.op = "extractvalue" -> parse_extractvalue(parse_operands(q, x.o), x, d)
          [] x.op = "insertvalue" -> parse_insertvalue(parse_operands(q, x.o), x, d)
          [] x.op \in {"extractelement", "insertelement"} -> parse_element(parse_operands(q, x.o), x, d)
          [] x.op = "store" -> parse_store(q, x)
          [] x.op = "br" -> parse_br(q, x)
          [] x.op = "switch" -> parse_switch(q, x)
          [] OTHER -> Fail(q)

---------------------------------------------------------------------------
(* Initial values, written into the bytes of the global at off.            *)

AddReloc(g, off, op) == [g EXCEPT !.relocs = << RelocOf(off, op.s, op.n) >> \o @]
WriteInit(g, off, t, n) ==
    [g EXCEPT !.bytes = Overwrite(@, off, ToBytes(IF t.k = "float" THEN Float32(n) ELSE n, lr_type_size(t)))]

(* A bare reference keeps the name as written; one inside an expression is *)
(* the symbol the name stands for.                                         *)
RECURSIVE parse_init_field_value(_, _, _, _, _), InitElements(_, _, _, _, _, _)
parse_init_field_value(p, g, x, t, off) ==
    CASE x.k = "agg" -> InitElements(p, g, x.o, t, off, 1)
      [] x.k = "gep" ->
         LET r == parse_operand(p, x, Ptr)
         IN  Res(r.p, IF r.o.k = "global" THEN AddReloc(g, off, r.o) ELSE g)
      [] x.k = "cast" ->
         LET r == parse_operand(p, x, t)
         IN  Res(r.p, CASE r.o.k = "global" -> AddReloc(g, off, r.o)
                        [] r.o.k = "imm" /\ x.s[1] = "inttoptr" -> WriteInit(g, off, t, r.o.n)
                        [] OTHER -> g)
      [] x.k \in {"int", "dec", "hex"} -> Res(p, WriteInit(g, off, t, x.n))
      [] x.k = "true" -> Res(p, WriteInit(g, off, I1, 1))
      [] x.k = "ref" -> Res(resolve_global(p, x.s), AddReloc(g, off, GlobalOp(x.s, 0, Ptr)))
      [] OTHER -> Res(p, g)

(* parse_aggregate_initializer: t has its fields or elements at off.       *)
InitElements(p, g, xs, t, off, i) ==
    IF i > Len(xs) \/ i > (IF t.k = "struct" THEN Len(t.sub) ELSE t.n) THEN Res(p, g)
    ELSE LET et == IF t.k = "struct" THEN t.sub[i] ELSE t.sub[1]
             at == IF t.k = "struct" THEN lr_struct_field_offset(t, i - 1)
                   ELSE (i - 1) * lr_type_size(et)
             r == parse_init_field_value(parse_type(p, xs[i].t), g, xs[i], et, off + at)
         IN  InitElements(r.p, r.o, xs, t, off, i + 1)

(* The value behind the type of a global; a cast on its own is not taken.  *)
InitialValue(p, g, x, t) ==
    LET zeroed == [g EXCEPT !.bytes = Zeros(IF lr_type_size(t) = 0 THEN 8 ELSE lr_type_size(t))]
    IN  CASE x.k = "bytes" -> Res(p, [g EXCEPT !.bytes = x.o])
          [] x.k \in {"agg", "int", "dec", "hex", "gep", "ref"} ->
             parse_init_field_value(p, zeroed, x, t, 0)
          [] x.k = "true" -> Res(p, [g EXCEPT !.bytes = << 1 >>])
          [] OTHER -> Res(p, g)

AddGlobal(r) == [r.p EXCEPT !.mod.globals = Append(@, r.o)]

(* ".lc.constagg." names are shared by the caller, the others by prefix.   *)
parse_global(p, x) ==
    LET q == parse_type(p, x.t)
        local == x.link \in {"private", "internal"}
        sym == IF local THEN scoped_local_global_name(q, x.name) ELSE x.name
        g == GlobalOf(sym, x.t, x.const, x.init = <<>> /\ x.link = "external", <<>>, <<>>)
        named == register_symbol(q, x.name, sym, local)
    IN  AddGlobal(IF x.init = <<>> THEN Res(named, g) ELSE InitialValue(named, g, x.init[1], Known(q, x.t)))

---------------------------------------------------------------------------
(* Functions.                                                              *)

(* A second declaration of a name changes nothing.                         *)
lr_func_declare(p, f) ==
    IF FuncsNamed(p.mod, f.name) # {} THEN p ELSE [p EXCEPT !.mod.funcs = Append(@, f)]

parse_function_head(p, x) ==
    LET q == parse_types(p, << x.t >> \o [i \in DOMAIN x.params |-> x.params[i].t])
        local == x.link \in {"private", "internal"}
        sym == IF local THEN scoped_local_global_name(q, x.name) ELSE x.name
        f == FuncOf(sym, x.t, [i \in DOMAIN x.params |-> x.params[i].t],
                    [i \in DOMAIN x.params |-> i - 1], x.va, <<>>)
        r == register_symbol(q, x.name, sym, local)
    IN  [p |-> r, f |-> f]

parse_declare(p, x) == LET h == parse_function_head(p, x) IN lr_func_declare(h.p, h.f)

(* The tables of registers and blocks start empty; a parameter without a   *)
(* name is called by its number.                                           *)
RECURSIVE BindParams(_, _, _)
BindParams(p, params, i) ==
    IF i > Len(params) THEN p
    ELSE LET name == IF params[i].s = NoName THEN <<"", i - 1>> ELSE params[i].s
         IN  BindParams(bind_vreg_type(register_vreg_name(p, name, i - 1), i - 1, params[i].t), params, i + 1)

parse_define(p, x) ==
    LET h == parse_function_head(p, x)
    IN  BindParams([h.p EXCEPT !.fn = h.f, !.next = Len(x.params), !.cur = 0, !.vmap = EmptyMap,
                               !.vty = EmptyMap, !.bmap = EmptyMap], x.params, 1)

(* An instruction before any label belongs to a block called entry.        *)
EnsureBlock(p) ==
    IF p.cur # 0 THEN p
    ELSE LET q == resolve_block(p, <<"entry", 0>>) IN [q EXCEPT !.cur = q.bmap[<<"entry", 0>>]]

parse_label(p, x) ==
    IF lookup_keyword(x.name[1]) THEN Fail(p)
    ELSE LET q == resolve_block(p, x.name) IN [q EXCEPT !.cur = q.bmap[x.name]]

(* The closing brace: the function joins the module.                       *)
parse_end(p) == [p EXCEPT !.mod.funcs = Append(@, p.fn), !.fn = <<>>, !.cur = 0]

(* The next line of the text.                                              *)
ParseLine(p, x) ==
    CASE x.k = "type" -> register_type(parse_type(p, x.t), x.name[1], x.t)
      [] x.k = "global" -> parse_global(p, x)
      [] x.k = "declare" -> parse_declare(p, x)
      [] x.k = "define" -> parse_define(p, x)
      [] x.k = "label" -> parse_label(p, x)
      [] x.k = "inst" -> parse_instruction(EnsureBlock(p), x.inst)
      [] x.k = "end" -> parse_end(p)
================================================================================
