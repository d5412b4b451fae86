--------------------------------- MODULE IrDump ---------------------------------
(***************************************************************************)
(* lr_module_dump_opts of ir.c: a module written as LLVM text.  Text is a  *)
(* sequence of lines; within a line the words are kept as what they name:  *)
(* a local value or a label is a pair of word and number, operands and     *)
(* types are trees.  Spelling, alignments and comments are left out.       *)
(***************************************************************************)
EXTENDS IrTypes

(* A line: a type, a global, a declaration, the head of a definition, a    *)
(* label, an instruction or the closing brace.                             *)
Line(k, name, t) ==
    [k |-> k, name |-> name, t |-> t, link |-> "", const |-> FALSE, init |-> <<>>,
     params |-> <<>>, va |-> FALSE, inst |-> InstOf("", NoName, Void, <<>>)]

Local(name, t) == Opnd("local", 0, t, name)
Label(name) == Opnd("label", 0, Void, name)
Ref(sym, t) == Opnd("ref", 0, t, sym)
IntLit(n, t) == Opnd("int", n, t, NoName)
Word(k, t) == Opnd(k, 0, t, NoName)
GepExpr(src, base, idx, t) ==
    [Opnd("gep", 0, t, NoName) EXCEPT !.o = << Word("type", src), base >> \o idx]
CastExpr(op, x, t) == [Opnd("cast", 0, t, <<op, 0>>) EXCEPT !.o = <<x>>]
AggExpr(fields, t) == [Opnd("agg", 0, t, NoName) EXCEPT !.o = fields]

(* Structures with a name are printed by it.                               *)
RECURSIVE print_type(_)
print_type(t) ==
    IF t.k = "struct" /\ t.name # "" THEN TypeRef(t.name)
    ELSE [t EXCEPT !.sub = [i \in DOMAIN t.sub |-> print_type(t.sub[i])]]
print_struct_body(t) == print_type([t EXCEPT !.name = ""])

(* A reference drops the scope of a local symbol unless the caller keeps   *)
(* it; a function's own line always has the whole name.                    *)
display_symbol_name(sym, keep) == IF keep THEN sym ELSE <<sym[1], 0>>

(***************************************************************************)
(* Floating point: numbers stand for doubles.  The odd ones are not        *)
(* floats, and %.6e writes only the multiples of four exactly.             *)
(***************************************************************************)
Float32(v) == v - (v % 2)
SixDigits(v) == v - (v % 4)

(* Mutant of print_fp_literal: six digits are taken to be enough.          *)
AlwaysSixDigits(v, t) == Opnd("dec", SixDigits(IF t.k = "float" THEN Float32(v) ELSE v), t, NoName)

print_fp_literal(v, t) ==
    LET x == IF t.k = "float" THEN Float32(v) ELSE v
    IN  IF SixDigits(x) = x THEN Opnd("dec", x, t, NoName) ELSE Opnd("hex", x, t, NoName)

---------------------------------------------------------------------------
(* Operands.  t is the type the instruction prints before the operand.     *)

global_is_i8_array_literal(g) ==
    /\ g.const /\ g.relocs = <<>> /\ g.t.k = "array" /\ g.t.sub[1].k = "i8"
    /\ g.bytes # <<>> /\ Len(g.bytes) = g.t.n

print_global_addr(op, keep) ==
    LET ref == Ref(display_symbol_name(op.s, keep), Ptr)
    IN  IF op.n = 0 THEN ref ELSE GepExpr(I8, ref, << IntLit(op.n, I64) >>, Ptr)

(* print_global_i8_ptr_gep: the address of a string is written as that of  *)
(* its first element.                                                      *)
FirstElement(g, sym, keep) ==
    GepExpr(print_type(g.t), Ref(display_symbol_name(sym, keep), Ptr),
            << IntLit(0, I32), IntLit(0, I32) >>, Ptr)

print_operand(m, op, t, keep) ==
    CASE op.k = "vreg" -> Local(<<"v", op.n>>, t)
      [] op.k = "imm" ->
         IF op.t.k = "i1" THEN Word(IF op.n # 0 THEN "true" ELSE "false", t)
         ELSE IF IsAggregate(op.t) THEN Word("zero", t)
         ELSE IF IsFp(op.t) THEN Opnd("dec", op.n, t, NoName)
         ELSE IF op.t = Ptr /\ op.n = 0 THEN Word("null", t)
         ELSE IntLit(op.n, t)
      [] op.k = "fp" -> IF IsFp(op.t) THEN print_fp_literal(op.n, [t EXCEPT !.k = op.t.k])
                        ELSE Opnd("hex", op.n, t, NoName)
      [] op.k = "global" ->
         IF IsInt(op.t) THEN CastExpr("ptrtoint", print_global_addr(op, keep), print_type(op.t))
         ELSE LET lits == {g \in GlobalsNamed(m, op.s) : global_is_i8_array_literal(g)}
              IN  IF op.t = Ptr /\ op.n = 0 /\ lits # {}
                  THEN FirstElement(CHOOSE g \in lits : TRUE, op.s, keep)
                  ELSE print_global_addr(op, keep)
      [] op.k = "null" -> Word(IF IsAggregate(op.t) THEN "zero" ELSE "null", t)
      [] op.k = "undef" -> Word("undef", t)

print_block_ref(f, id) ==
    Label(IF f.blocks[id].label # NoName THEN f.blocks[id].label ELSE <<"bb", id>>)

---------------------------------------------------------------------------
(* One instruction: lr_dump_inst_opts.                                     *)

inst_has_dest(inst) ==
    inst.op \notin TerminatorOps \cup {"store"} /\ (inst.op = "call" => inst.t.k # "void")

(* The type of a function, or of a variable of function type.              *)
find_func_types(m, sym) ==
    IF FuncsNamed(m, sym) # {}
    THEN LET f == FirstNamed(m.funcs, sym) IN {FuncType(f.ret, f.params, f.va)}
    ELSE {g.t : g \in {x \in GlobalsNamed(m, sym) : x.t.k = "func"}}

TextInst(inst, op, t, o) ==
    [inst EXCEPT !.op = op, !.t = t, !.o = o,
                 !.d = IF inst_has_dest(inst) THEN <<"v", inst.d>> ELSE NoName]

DumpTerminator(m, f, inst, keep) ==
    LET val == inst.o[1]
    IN  CASE inst.op \in {"retvoid", "unreachable"} -> TextInst(inst, inst.op, Void, <<>>)
          [] inst.op = "ret" ->
             LET t == print_type(val.t) IN TextInst(inst, "ret", t, << print_operand(m, val, t, keep) >>)
          [] inst.op = "br" -> TextInst(inst, "br", Void, << print_block_ref(f, val.n) >>)
          [] inst.op = "condbr" ->
             TextInst(inst, "br", I1, << print_operand(m, val, I1, keep),
                        print_block_ref(f, inst.o[2].n), print_block_ref(f, inst.o[3].n) >>)

DumpMemory(m, inst, keep) ==
    LET addr(i) == print_operand(m, inst.o[i], Ptr, keep)
        t == print_type(IF inst.op = "store" THEN inst.o[1].t ELSE inst.t)
    IN  CASE inst.op = "store" ->
             TextInst(inst, "store", t, << print_operand(m, inst.o[1], t, keep), addr(2) >>)
          [] inst.op = "load" -> TextInst(inst, "load", t, << addr(1) >>)
          [] inst.op = "alloca" ->
             TextInst(inst, "alloca", t,
                 [i \in DOMAIN inst.o |->
                    print_operand(m, inst.o[i], print_type(inst.o[i].t), keep)])

(* A variadic callee is written with its whole type.                       *)
DumpCall(m, inst, keep) ==
    LET callee == inst.o[1]
        argt(i) == print_type(inst.o[i].t)
        variadic == IF callee.k # "global" THEN {}
                    ELSE {t \in find_func_types(m, callee.s) : t.n = 1}
        sig == IF inst.va
               THEN FuncType(print_type(inst.t), [i \in 1..inst.fixed |-> argt(i + 1)], TRUE)
               ELSE IF variadic # {} THEN print_type(CHOOSE t \in variadic : TRUE)
               ELSE print_type(inst.t)
    IN  TextInst(inst, "call", sig,
            [i \in DOMAIN inst.o |->
                IF i = 1 THEN (IF callee.k = "global" THEN print_global_addr(callee, keep)
                               ELSE print_operand(m, callee, Ptr, keep))
                ELSE print_operand(m, inst.o[i], argt(i), keep)])

(* Zero indices behind the first are left out when the element type is no  *)
(* aggregate; constant indices of structures and the first one become i32. *)
ir_gep_trimmable_scalar_index(op) ==
    op.k \in {"undef", "null"} \/ (op.k = "imm" /\ op.n = 0)
RECURSIVE TrimmedGep(_)
TrimmedGep(o) ==
    IF Len(o) > 2 /\ ir_gep_trimmable_scalar_index(Last(o)) THEN TrimmedGep(Front(o)) ELSE o

RECURSIVE GepIndices(_, _, _, _, _)
GepIndices(m, t, o, i, keep) ==
    IF i > Len(o) THEN <<>>
    ELSE LET it == IF o[i].k = "imm" /\ (i = 2 \/ t.k = "struct") THEN I32 ELSE print_type(o[i].t)
         IN  << print_operand(m, o[i], it, keep) >>
               \o GepIndices(m, GepNext(t, i = 2, o[i]), o, i + 1, keep)

DumpGep(m, inst, keep) ==
    LET o == IF IsAggregate(inst.t) THEN inst.o ELSE TrimmedGep(inst.o)
    IN  TextInst(inst, "getelementptr", print_type(inst.t),
            << print_operand(m, o[1], print_type(o[1].t), keep) >>
              \o GepIndices(m, inst.t, o, 2, keep))

DumpPhi(m, f, inst, keep) ==
    LET t == print_type(inst.t)
    IN  TextInst(inst, "phi", t,
            [i \in DOMAIN inst.o |-> IF i % 2 = 1 THEN print_operand(m, inst.o[i], t, keep)
                                     ELSE print_block_ref(f, inst.o[i].n)])

(* Vectors are taken apart with extractelement and insertelement.          *)
DumpAggregate(m, inst, keep) ==
    LET vec == inst.o[1].t.k = "vector"
        op == IF inst.op = "extractvalue" THEN (IF vec THEN "extractelement" ELSE inst.op)
              ELSE (IF vec THEN "insertelement" ELSE inst.op)
        at(i) == print_type(IF i = 1 /\ inst.op = "insertvalue" THEN inst.t ELSE inst.o[i].t)
        o == [i \in DOMAIN inst.o |-> print_operand(m, inst.o[i], at(i), keep)]
    IN  IF vec THEN [TextInst(inst, op, at(1), Append(o, IntLit(inst.idx[1], I32))) EXCEPT !.idx = <<>>]
        ELSE TextInst(inst, op, at(1), o)

(* noop_cast_opcode: a cast between equal types is not legal text, so an   *)
(* instruction that leaves the value alone is written.                     *)
DumpNoOpCast(m, inst, keep) ==
    LET t == print_type(inst.t)
        x == print_operand(m, inst.o[1], t, keep)
    IN  CASE IsInt(inst.t) -> TextInst(inst, "add", t, << x, IntLit(0, t) >>)
          [] IsFp(inst.t) -> TextInst(inst, "fadd", t, << x, Opnd("dec", 0, t, NoName) >>)
          [] inst.t.k = "ptr" ->
             TextInst(inst, "getelementptr", I8, << x, IntLit(0, I64) >>)
          [] OTHER -> TextInst(inst, "select", I1, << Word("true", I1), x, x >>)

DumpCast(m, inst, keep) ==
    IF inst.o[1].t = inst.t THEN DumpNoOpCast(m, inst, keep)
    ELSE TextInst(inst, inst.op, print_type(inst.t),
             << print_operand(m, inst.o[1], print_type(inst.o[1].t), keep) >>)

(* Both operands follow one printed type.                                  *)
DumpTwo(m, inst, keep) ==
    LET t == print_type(IF inst.op \in {"icmp", "fcmp"} THEN inst.o[1].t ELSE inst.t)
    IN  TextInst(inst, inst.op, t, [i \in DOMAIN inst.o |-> print_operand(m, inst.o[i], t, keep)])

DumpSelect(m, inst, keep) ==
    LET t == print_type(inst.t)
    IN  TextInst(inst, "select", I1,
            << print_operand(m, inst.o[1], I1, keep), print_operand(m, inst.o[2], t, keep),
               print_operand(m, inst.o[3], t, keep) >>)

lr_dump_inst(m, f, inst, keep) ==
    CASE inst.op \in TerminatorOps -> DumpTerminator(m, f, inst, keep)
      [] inst.op \in {"store", "load", "alloca"} -> DumpMemory(m, inst, keep)
      [] inst.op = "call" -> DumpCall(m, inst, keep)
      [] inst.op = "gep" -> DumpGep(m, inst, keep)
      [] inst.op = "phi" -> DumpPhi(m, f, inst, keep)
      [] inst.op = "select" -> DumpSelect(m, inst, keep)
      [] inst.op \in {"extractvalue", "insertvalue"} -> DumpAggregate(m, inst, keep)
      [] inst.op \in CastOps -> DumpCast(m, inst, keep)
      [] OTHER -> DumpTwo(m, inst, keep)

---------------------------------------------------------------------------
(* Functions.  A block ends with its first terminator; one without falls   *)
(* through to the next block, or is marked unreachable.                    *)

InstLine(inst) == [Line("inst", NoName, Void) EXCEPT !.inst = inst]

BlockLines(m, f, b, keep) ==
    LET block == f.blocks[b]
        isTerm(inst) == inst.op \in TerminatorOps
        body == SelectSeq(block.insts, LAMBDA inst : ~isTerm(inst))
        terms == SelectSeq(block.insts, isTerm)
        fall == IF b < Len(f.blocks) THEN InstOf("br", 0, Void, << BlockOp(b + 1) >>)
                ELSE InstOf("unreachable", 0, Void, <<>>)
        last == IF terms # <<>> THEN terms[1] ELSE fall
        all == Append(body, last)
    IN  << Line("label", print_block_ref(f, b).s, Void) >>
          \o [i \in DOMAIN all |-> InstLine(lr_dump_inst(m, f, all[i], keep))]

lr_dump_func_signature(f) ==
    [Line(IF IsDecl(f) THEN "declare" ELSE "define", f.name, print_type(f.ret)) EXCEPT
       !.params = [i \in DOMAIN f.params |->
                     Local(IF IsDecl(f) THEN NoName ELSE <<"v", f.pv[i]>>, print_type(f.params[i]))],
       !.va = f.va]

lr_dump_func(m, f, keep) ==
    IF IsDecl(f) THEN << lr_dump_func_signature(f) >>
    ELSE << lr_dump_func_signature(f) >>
           \o FlattenSeq([b \in DOMAIN f.blocks |-> BlockLines(m, f, b, keep)])
           \o << Line("end", NoName, Void) >>

---------------------------------------------------------------------------
(* The named structures, each once, an outer one before those inside it.   *)

RECURSIVE collect_named_types(_, _)
collect_named_types(list, ts) ==
    IF ts = <<>> THEN list
    ELSE LET t == Head(ts)
             named == t.k = "struct" /\ t.name # ""
             known == \E i \in DOMAIN list : list[i].name = t.name
         IN  IF named /\ known THEN collect_named_types(list, Tail(ts))
             ELSE collect_named_types(IF named THEN Append(list, t) ELSE list, t.sub \o Tail(ts))

collect_named_types_from_module(m) ==
    LET ofInst(inst) == << inst.t >> \o [i \in DOMAIN inst.o |-> inst.o[i].t]
        ofBlock(b) == FlattenSeq([i \in DOMAIN b.insts |-> ofInst(b.insts[i])])
        ofFunc(f) == << f.ret >> \o f.params
                       \o FlattenSeq([i \in DOMAIN f.blocks |-> ofBlock(f.blocks[i])])
    IN  collect_named_types(<<>>,
                 [i \in DOMAIN m.globals |-> m.globals[i].t]
                   \o FlattenSeq([i \in DOMAIN m.funcs |-> ofFunc(m.funcs[i])]))

lr_dump_named_types(m) ==
    LET list == collect_named_types_from_module(m)
    IN  [i \in DOMAIN list |-> Line("type", <<list[i].name, 0>>, print_struct_body(list[i]))]

---------------------------------------------------------------------------
(* Globals and their initial values, read back from the bytes.             *)

global_init_byte(g, i) == IF i < Len(g.bytes) THEN g.bytes[i + 1] ELSE 0
InitBytes(g, off, n) == [i \in 1..n |-> global_init_byte(g, off + i - 1)]
global_range_all_zero(g, off, n) ==
    /\ \A i \in DOMAIN g.relocs : g.relocs[i].off \notin off..(off + n - 1)
    /\ InitBytes(g, off, n) = Zeros(n)

PointerExpr(m, r, keep) ==
    LET strings == {g \in GlobalsNamed(m, r.sym) : g.t.k = "array" /\ g.t.sub[1].k = "i8"}
    IN  IF strings # {} /\ r.add = 0 THEN FirstElement(CHOOSE g \in strings : TRUE, r.sym, keep)
        ELSE print_global_addr(GlobalOp(r.sym, r.add, Ptr), keep)

dump_global_scalar_expr(m, g, t, off, keep) ==
    LET n == LeInt(InitBytes(g, off, lr_type_size(t)))
        here == SelectSeq(g.relocs, LAMBDA r : r.off = off)
    IN  CASE t.k = "i1" -> IntLit(n % 2, t)
          [] IsInt(t) -> IntLit(n, t)
          [] IsFp(t) -> print_fp_literal(n, t)
          [] t.k = "ptr" ->
             IF here # <<>> THEN PointerExpr(m, here[1], keep)
             ELSE IF global_range_all_zero(g, off, 8) THEN Word("null", t)
             ELSE CastExpr("inttoptr", IntLit(n, I64), Ptr)
          [] OTHER -> Word("zero", t)

RECURSIVE dump_global_const_expr(_, _, _, _, _)
dump_global_const_expr(m, g, t, off, keep) ==
    IF IsAggregate(t)
    THEN IF global_range_all_zero(g, off, lr_type_size(t)) THEN Word("zero", print_type(t))
         ELSE AggExpr([i \in 1..(IF t.k = "struct" THEN Len(t.sub) ELSE t.n) |->
                  IF t.k = "struct"
                  THEN dump_global_const_expr(m, g, t.sub[i], off + lr_struct_field_offset(t, i - 1), keep)
                  ELSE dump_global_const_expr(m, g, t.sub[1], off + (i - 1) * lr_type_size(t.sub[1]), keep)],
                  print_type(t))
    ELSE dump_global_scalar_expr(m, g, t, off, keep)

(* Every global that has a value is written private; a variable of         *)
(* function type is a declaration.                                         *)
lr_dump_global(m, g, keep) ==
    LET line(link, init) ==
            [Line("global", display_symbol_name(g.name, keep), print_type(g.t)) EXCEPT
               !.link = link, !.const = g.const, !.init = init]
    IN  IF g.t.k = "func"
        THEN [Line("declare", g.name, print_type(g.t.sub[1])) EXCEPT
                !.params = [i \in 1..(Len(g.t.sub) - 1) |-> Local(NoName, print_type(g.t.sub[i + 1]))],
                !.va = (g.t.n = 1)]
        ELSE IF g.ext THEN [line("external", <<>>) EXCEPT !.const = FALSE]
        ELSE IF global_is_i8_array_literal(g)
             THEN line("private", << [Word("bytes", print_type(g.t)) EXCEPT !.o = g.bytes] >>)
        ELSE line("private", << IF g.bytes # <<>> \/ g.relocs # <<>>
                                THEN dump_global_const_expr(m, g, g.t, 0, keep)
                                ELSE Word("zero", print_type(g.t)) >>)

---------------------------------------------------------------------------
(* Call targets the module neither defines nor declares get a declaration. *)

call_target_name_provided(m, sym) ==
    FuncsNamed(m, sym) # {} \/ \E g \in GlobalsNamed(m, sym) : g.t.k = "func"

CallsOf(m) ==
    SelectSeq(FlattenSeq([i \in DOMAIN m.funcs |->
                  FlattenSeq([b \in DOMAIN m.funcs[i].blocks |-> m.funcs[i].blocks[b].insts])]),
              LAMBDA inst : inst.op = "call" /\ inst.o[1].k = "global")

lr_dump_call_declare(inst, keep) ==
    [Line("declare", display_symbol_name(inst.o[1].s, keep), print_type(inst.t)) EXCEPT
       !.params = [i \in 1..(IF inst.va THEN inst.fixed ELSE Len(inst.o) - 1) |->
                     Local(NoName, print_type(inst.o[i + 1].t))],
       !.va = inst.va]

lr_dump_undeclared_call_targets(m, keep) ==
    LET calls == SelectSeq(CallsOf(m), LAMBDA c : ~call_target_name_provided(m, c.o[1].s))
        first(i) == \A j \in 1..(i - 1) : calls[j].o[1].s # calls[i].o[1].s
        firsts == SelectSeq([i \in DOMAIN calls |-> i], first)
    IN  [i \in DOMAIN firsts |-> lr_dump_call_declare(calls[firsts[i]], keep)]
================================================================================
