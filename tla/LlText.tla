--------------------------------- MODULE LlText ---------------------------------
(***************************************************************************)
(* A module is written as text by lr_module_dump_opts and the text is read *)
(* by lr_parse_ll_text, or text from elsewhere is read.  What a function   *)
(* means is the tree of the loads, stores, calls and allocations it makes, *)
(* with the values as terms over its arguments; what a global means is its *)
(* bytes and the addresses in them.  The text has a meaning of its own,    *)
(* given by the language and not by the parser.                            *)
(***************************************************************************)
EXTENDS LlParser

CONSTANTS
    Modules,      \* what is dumped: [m |-> a module, keep |-> with scoped names]
    Texts,        \* text from elsewhere, as sequences of lines
    ParserScope   \* the scope of the module that is parsed into

ASSUME ScopeAssumption == ParserScope \in Nat \ {0}

VARIABLES
    src,     \* the module that is dumped, or none
    todo,    \* what of it is still to be written
    text,    \* the lines
    at,      \* the line the parser is at
    p        \* the parser
vars == << src, todo, text, at, p >>

NoModule == [m |-> ModuleOf(<<>>, <<>>), keep |-> FALSE]

Init ==
    /\ \/ src \in Modules /\ todo = << "types", 1 >> /\ text = <<>>
       \/ src = NoModule /\ todo = << "done", 1 >> /\ text \in Texts
    /\ at = 1 /\ p = NewParser(ParserScope)

---------------------------------------------------------------------------
(* lr_module_dump_opts: types, globals, missing declarations, functions.   *)

Write(lines, next) == text' = text \o lines /\ todo' = next /\ UNCHANGED << src, at, p >>

DumpTypes == todo[1] = "types" /\ Write(lr_dump_named_types(src.m), << "globals", 1 >>)

DumpGlobal ==
    /\ todo[1] = "globals" /\ todo[2] <= Len(src.m.globals)
    /\ Write(<< lr_dump_global(src.m, src.m.globals[todo[2]], src.keep) >>, << "globals", todo[2] + 1 >>)

DumpDeclares ==
    /\ todo[1] = "globals" /\ todo[2] > Len(src.m.globals)
    /\ Write(lr_dump_undeclared_call_targets(src.m, src.keep), << "funcs", 1 >>)

DumpFunc ==
    /\ todo[1] = "funcs" /\ todo[2] <= Len(src.m.funcs)
    /\ Write(lr_dump_func(src.m, src.m.funcs[todo[2]], src.keep), << "funcs", todo[2] + 1 >>)

DumpEnd == todo[1] = "funcs" /\ todo[2] > Len(src.m.funcs) /\ Write(<<>>, << "done", 1 >>)

(* lr_parse_ll_text: one line, until the end or the first error.           *)
Reading == todo[1] = "done" /\ at <= Len(text) /\ ~p.err
ParseText ==
    /\ Reading
    /\ p' = ParseLine(p, text[at])
    /\ at' = at + 1
    /\ UNCHANGED << src, todo, text >>

Next == DumpTypes \/ DumpGlobal \/ DumpDeclares \/ DumpFunc \/ DumpEnd \/ ParseText

Spec == Init /\ [][Next]_vars

Dumped == todo[1] = "done" /\ at = 1
Parsed == todo[1] = "done" /\ at = Len(text) + 1 /\ ~p.err

---------------------------------------------------------------------------
(* The meaning of operands.  c holds the types by name and the scope that  *)
(* the reader added to local symbols.                                      *)

Ctx(types, scope) == [types |-> types, scope |-> scope]
Plain(c, t) == Nameless(Known(c, t))
SymbolOf(c, sym) == IF sym[2] = c.scope THEN <<sym[1], 0>> ELSE sym

Num(n) == << "n", n >>
(* An address: a base, bytes, and registers with what they are scaled by.  *)
Address(base, off, regs) ==
    LET nested == base[1] = "addr"
        b == IF nested THEN base[2] ELSE base
        o == off + (IF nested THEN base[3] ELSE 0)
        r == (IF nested THEN base[4] ELSE <<>>) \o regs
    IN  IF o = 0 /\ r = <<>> THEN b ELSE << "addr", b, o, r >>

Scalars(n, t) == IF IsAggregate(t) THEN << "bytes", ToBytes(n, lr_type_size(t)) >>
                 ELSE IF IsFp(t) THEN << "fp", n >>
                 ELSE IF t.k = "i1" THEN Num(n % 2) ELSE Num(n)

RECURSIVE Term(_, _, _), GepTerm(_, _, _, _, _, _), FieldBytes(_, _, _, _)

(* Indices from the i-th on, t being the type they go into.                *)
GepTerm(c, env, base, t, idx, first) ==
    IF idx = <<>> THEN base
    ELSE LET x == Head(idx)
             const == x.k \in {"imm", "int", "null", "undef"}
             term == Term(c, env, x)
             wide == IF Plain(c, x.t).k = "i64" THEN term ELSE << "sext", Plain(c, x.t), I64, term >>
             field == ~first /\ t.k = "struct"
             off == IF field THEN lr_struct_field_offset(t, x.n)
                    ELSE IF const THEN x.n * GepScale(t, first) ELSE 0
             regs == IF const THEN <<>> ELSE << << GepScale(t, first), wide >> >>
         IN  GepTerm(c, env, Address(base, off, regs), GepNext(t, first, x), Tail(idx), FALSE)

(* The bytes of a constant of at most eight bytes.                         *)
FieldBytes(c, t, xs, i) ==
    IF i = 0 THEN Zeros(lr_type_size(t))
    ELSE LET ft == IF t.k = "struct" THEN t.sub[i] ELSE t.sub[1]
             off == IF t.k = "struct" THEN lr_struct_field_offset(t, i - 1) ELSE (i - 1) * lr_type_size(ft)
         IN  Overwrite(FieldBytes(c, t, xs, i - 1), off, ToBytes(xs[i].n, lr_type_size(ft)))

Term(c, env, x) ==
    LET t == Plain(c, x.t)
    IN  CASE x.k = "vreg" -> env[<<"r", x.n>>]
          [] x.k = "local" -> env[x.s]
          [] x.k \in {"imm", "int", "fp", "dec", "hex"} -> Scalars(x.n, t)
          [] x.k \in {"null", "zero", "false"} -> Scalars(0, t)
          [] x.k = "true" -> Num(1)
          [] x.k = "undef" -> << "undef" >>
          [] x.k \in {"global", "ref"} -> Address(<< "at", SymbolOf(c, x.s) >>, x.n, <<>>)
          [] x.k = "gep" ->
             GepTerm(c, env, Term(c, env, x.o[2]), Plain(c, x.o[1].t), SubSeq(x.o, 3, Len(x.o)), TRUE)
          [] x.k = "cast" -> Term(c, env, x.o[1])
          [] x.k = "agg" -> << "bytes", FieldBytes(c, t, x.o, Len(x.o)) >>

---------------------------------------------------------------------------
(* The meaning of instructions.  Instructions that leave a value alone are *)
(* that value.                                                             *)

Terms(c, env, ops) == [i \in DOMAIN ops |-> Term(c, env, ops[i])]

(* a holds the terms of the operands, t that of the first one's type.      *)
Value(c, env, x, a, t) ==
    CASE x.op = "add" /\ a[2] = Num(0) -> a[1]
      [] x.op \in BinaryOps \cup {"icmp", "fcmp"} -> << x.op, x.p, t, a[1], a[2] >>
      [] x.op = "fneg" -> << "fneg", t, a[1] >>
      [] x.op = "freeze" -> a[1]
      [] x.op \in CastOps ->
         IF Plain(c, x.t) = t \/ x.op \in {"ptrtoint", "inttoptr"} THEN a[1]
         ELSE << x.op, t, Plain(c, x.t), a[1] >>
      [] x.op = "select" -> IF a[1] = Num(1) THEN a[2] ELSE << "select", a[1], a[2], a[3] >>
      [] x.op \in {"gep", "getelementptr"} -> GepTerm(c, env, a[1], Plain(c, x.t), Tail(x.o), TRUE)
      [] x.op = "extractvalue" -> << "part", a[1], x.idx >>
      [] x.op = "extractelement" -> << "part", a[1], << x.o[2].n >> >>
      [] x.op = "insertvalue" -> << "with", a[1], x.idx, a[2] >>
      [] x.op = "insertelement" -> << "with", a[1], << x.o[3].n >>, a[2] >>

(* What an instruction does, as a sequence of effects; a structure         *)
(* constant of more than eight bytes is stored field by field.             *)
StoreEffects(c, env, x, a, t) ==
    IF x.o[1].k = "agg" /\ lr_type_size(t) > 8
    THEN [i \in DOMAIN t.sub |->
            << "store", t.sub[i], Term(c, env, x.o[1].o[i]),
               Address(a[2], lr_struct_field_offset(t, i - 1), <<>>) >>]
    ELSE << << "store", t, a[1], a[2] >> >>

(* The next argument of a variadic function: the list holds its address.   *)
VaEffects(a, t, n) ==
    LET size == AlignUp(IF lr_type_size(t) < 8 THEN 8 ELSE lr_type_size(t), 8)
        cursor == << "result", n + 1 >>
    IN  << << "load", Ptr, a[1] >>, << "load", t, cursor >>,
           << "store", Ptr, << "add", "", I64, cursor, Num(size) >>, a[1] >> >>

(* Calls that only tell how long memory is used do nothing.                *)
IsHint(x) ==
    x.op = "call" /\ x.o[1].k \in {"global", "ref"} /\ x.o[1].s[1] \in {"llvm.lifetime.start", "llvm.lifetime.end"}
HasEffect(x) == x.op \in {"load", "store", "alloca", "call", "va_arg"} /\ ~IsHint(x)

ReturnType(t) == IF t.k = "func" THEN t.sub[1] ELSE t
Effects(c, env, x, a, sig, n) ==
    LET va == x.va \/ (sig.k = "func" /\ sig.n = 1)
        fixed == IF sig.k = "func" THEN Len(sig.sub) - 1 ELSE x.fixed
    IN  CASE ~HasEffect(x) -> <<>>
          [] x.op = "load" -> << << "load", sig, a[1] >> >>
          [] x.op = "store" -> StoreEffects(c, env, x, a, Plain(c, x.o[1].t))
          [] x.op = "alloca" -> << << "alloca", sig, IF a = <<>> THEN << Num(1) >> ELSE a >> >>
          [] x.op = "call" ->
             << << "call", ReturnType(sig), a[1], va, IF va THEN fixed ELSE 0,
                   [i \in 2..Len(x.o) |-> << Plain(c, x.o[i].t), a[i] >>] >> >>
          [] x.op = "va_arg" -> VaEffects(a, sig, n)

---------------------------------------------------------------------------
(* The meaning of a function [params, entry, blocks]: what block b does    *)
(* when it is entered from block from, n effects having happened.          *)

Fuel == 7

DestOf(x) == IF x.op \in {"store"} \cup TerminatorOps \cup {"switch"} THEN NoName ELSE x.d
Phis(b) == SelectSeq(b, LAMBDA x : x.op = "phi")
Incoming(x, from) ==
    LET i == SelectInSeq([j \in 1..(Len(x.o) \div 2) |-> x.o[2 * j]], LAMBDA y : y.s = from)
    IN  x.o[2 * i - 1]

RECURSIVE EnterBlock(_, _, _, _, _, _, _), Trace(_, _, _, _, _, _, _, _), After(_, _, _, _, _, _, _, _, _)
EnterBlock(c, f, env, b, from, n, fuel) ==
    IF fuel = 0 THEN << << "more" >> >>
    ELSE LET phis == Phis(f.blocks[b])
             new == [d \in {phis[i].d : i \in DOMAIN phis} |->
                        LET x == phis[SelectInSeq(phis, LAMBDA y : y.d = d)]
                        IN  Term(c, env, Incoming(x, from))]
         IN  Trace(c, f, new @@ env, b, SelectSeq(f.blocks[b], LAMBDA x : x.op # "phi"), 1, n, fuel - 1)

Trace(c, f, env, b, insts, i, n, fuel) ==
    LET x == insts[i]
        goto(label) == EnterBlock(c, f, env, label, b, n, fuel)
        fork(cond, x1, x2) == << << "if", cond, goto(x1), x2 >> >>
        val == Term(c, env, x.o[1])
        case(j) == << "icmp", "eq", Plain(c, x.o[1].t), val, Num(x.o[2 * j + 1].n) >>
        ncases == (Len(x.o) - 2) \div 2
        chain == FoldRight(LAMBDA j, rest : fork(case(j), x.o[2 * j + 2].s, rest),
                           [j \in 1..ncases |-> j], goto(x.o[2].s))
    IN  CASE x.op = "retvoid" -> << << "ret" >> >>
          [] x.op = "ret" -> << << "ret", Plain(c, x.o[1].t), val >> >>
          [] x.op = "unreachable" -> << << "unreachable" >> >>
          [] x.op \in {"br", "condbr"} ->
             IF Len(x.o) = 1 THEN goto(x.o[1].s) ELSE fork(val, x.o[2].s, goto(x.o[3].s))
          [] x.op = "switch" -> chain
          [] OTHER -> After(c, f, env, b, insts, i, n, fuel, Terms(c, env, x.o))

(* An instruction that is no terminator; a holds the terms of its operands. *)
Results(c, env, x, a, n) ==
    IF DestOf(x) = NoName THEN env
    ELSE (DestOf(x) :> (IF HasEffect(x) THEN << "result", IF x.op = "va_arg" THEN n + 2 ELSE n + 1 >>
                        ELSE Value(c, env, x, a, Plain(c, x.o[1].t)))) @@ env
EffectCount(c, x) ==
    IF x.op = "store" /\ x.o[1].k = "agg" /\ lr_type_size(Plain(c, x.o[1].t)) > 8
    THEN Len(Plain(c, x.o[1].t).sub) ELSE IF x.op = "va_arg" THEN 3 ELSE IF HasEffect(x) THEN 1 ELSE 0
After(c, f, env, b, insts, i, n, fuel, a) ==
    Effects(c, env, insts[i], a, Plain(c, insts[i].t), n)
      \o Trace(c, f, Results(c, env, insts[i], a, n), b, insts, i + 1, n + EffectCount(c, insts[i]), fuel)

(* Arguments are called by their position.                                 *)
TraceOf(c, f) ==
    LET env == [k \in Range(f.params) |-> << "arg", SelectInSeq(f.params, LAMBDA y : y = k) >>]
    IN  EnterBlock(c, f, env, f.entry, NoName, 0, Fuel)

---------------------------------------------------------------------------
(* Functions of a module and of the text in that form.  In a module a      *)
(* block without a terminator goes on to the next one.                     *)

BlockKey(id) == <<"b", id>>
IrInst(x) ==
    [x EXCEPT !.d = IF inst_has_dest(x) THEN <<"r", x.d>> ELSE NoName,
              !.o = [i \in DOMAIN x.o |-> IF x.o[i].k = "block" THEN Label(BlockKey(x.o[i].n)) ELSE x.o[i]]]
IrBlock(f, b) ==
    LET insts == f.blocks[b].insts
        stop == SelectInSeq(insts, LAMBDA x : x.op \in TerminatorOps \cup {"switch"})
        fall == IF b < Len(f.blocks) THEN InstOf("br", 0, Void, << BlockOp(b + 1) >>)
                ELSE InstOf("unreachable", 0, Void, <<>>)
        all == IF stop = 0 THEN Append(insts, fall) ELSE SubSeq(insts, 1, stop)
    IN  [i \in DOMAIN all |-> IrInst(all[i])]
IrFunc(f) ==
    [params |-> [i \in DOMAIN f.pv |-> <<"r", f.pv[i]>>], entry |-> BlockKey(1),
     blocks |-> [k \in {BlockKey(b) : b \in DOMAIN f.blocks} |-> IrBlock(f, k[2])]]

(* lines: those of a definition, without the closing brace.                *)
TextFunc(lines) ==
    LET labelled == lines[2].k = "label"
        entry == IF labelled THEN lines[2].name ELSE <<"entry", 0>>
        heads == {i \in 2..Len(lines) : lines[i].k = "label"} \cup (IF labelled THEN {} ELSE {1})
        nameAt(i) == IF i = 1 THEN entry ELSE lines[i].name
        endOf(i) == LET later == {j \in heads : j > i}
                    IN  IF later = {} THEN Len(lines) ELSE (CHOOSE j \in later : \A k \in later : j <= k) - 1
        names == {nameAt(i) : i \in heads}
        target(x) == IF x.k = "label" /\ x.s \notin names THEN Label(entry) ELSE x
        inst(x) == [x EXCEPT !.o = [j \in DOMAIN x.o |-> target(x.o[j])]]
        body(i) == [j \in 1..(endOf(i) - i) |-> inst(lines[i + j].inst)]
        param(i) == LET x == lines[1].params[i] IN IF x.s = NoName THEN <<"", i - 1>> ELSE x.s
    IN  [params |-> [i \in DOMAIN lines[1].params |-> param(i)], entry |-> entry,
         blocks |-> [k \in names |-> body(CHOOSE i \in heads : nameAt(i) = k)]]

---------------------------------------------------------------------------
(* The meaning of a module and of a text: its functions and its globals.   *)

FuncMeaning(c, name, ret, params, va, f) ==
    [name |-> SymbolOf(c, name), ret |-> Plain(c, ret),
     params |-> [i \in DOMAIN params |-> Plain(c, params[i])], va |-> va, trace |-> TraceOf(c, f)]

ModuleFuncs(c, m) ==
    {FuncMeaning(c, f.name, f.ret, f.params, f.va, IrFunc(f)) : f \in {g \in Range(m.funcs) : ~IsDecl(g)}}

TextCtx(lines) ==
    LET defs == {i \in DOMAIN lines : lines[i].k = "type"}
        names == UNION {NamesIn(lines[i].t) : i \in DOMAIN lines} \cup {lines[i].name[1] : i \in defs}
    IN  Ctx([x \in names |->
                IF \E i \in defs : lines[i].name[1] = x
                THEN lines[CHOOSE i \in defs : lines[i].name[1] = x].t ELSE Struct(<<>>)], 0)

TextFuncs(lines) ==
    LET endOf(i) == CHOOSE j \in i..Len(lines) : lines[j].k = "end" /\ \A k \in i..(j - 1) : lines[k].k # "end"
        part(i) == SubSeq(lines, i, endOf(i) - 1)
    IN  {FuncMeaning(TextCtx(lines), lines[i].name, lines[i].t,
                     [j \in DOMAIN lines[i].params |-> lines[i].params[j].t], lines[i].va, TextFunc(part(i))) :
            i \in {k \in DOMAIN lines : lines[k].k = "define"}}

GlobalMeaning(c, name, t, const, ext, bytes, relocs) ==
    LET size == lr_type_size(Plain(c, t))
    IN  [name |-> SymbolOf(c, name), t |-> Plain(c, t), const |-> const /\ ~ext, ext |-> ext,
         bytes |-> [i \in 1..size |-> IF i <= Len(bytes) THEN bytes[i] ELSE 0],
         relocs |-> {<< r.off, Address(<< "at", SymbolOf(c, r.sym) >>, r.add, <<>>) >> : r \in relocs}]

ModuleGlobals(c, m) ==
    {GlobalMeaning(c, g.name, g.t, g.const, g.ext, g.bytes, Range(g.relocs)) :
        g \in {x \in Range(m.globals) : x.t.k # "func"}}

(* The scalars of a constant x of type t at off, each with its offset.     *)
RECURSIVE InitScalars(_, _, _)
InitScalars(x, t, off) ==
    IF x.k # "agg" THEN { [off |-> off, x |-> x, t |-> t] }
    ELSE UNION {IF t.k = "struct" THEN InitScalars(x.o[i], t.sub[i], off + lr_struct_field_offset(t, i - 1))
                ELSE InitScalars(x.o[i], t.sub[1], off + (i - 1) * lr_type_size(t.sub[1])) : i \in DOMAIN x.o}

TextGlobal(c, line) ==
    LET t == Plain(c, line.t)
        init == line.init[1]
        parts == IF line.init = <<>> \/ init.k = "bytes" THEN {} ELSE InitScalars(init, t, 0)
        term(s) == Term(c, EmptyMap, s.x)
        numbers == {s \in parts : term(s)[1] \in {"n", "fp"}}
        addrs == {s \in parts : term(s)[1] \in {"at", "addr"}}
        byte(i) == LET here == {s \in numbers : i > s.off /\ i <= s.off + lr_type_size(s.t)}
                   IN  IF here = {} THEN 0
                       ELSE LET s == CHOOSE x \in here : TRUE
                            IN  ToBytes(term(s)[2], lr_type_size(s.t))[i - s.off]
        bytes == IF line.init # <<>> /\ init.k = "bytes" THEN init.o
                 ELSE [i \in 1..lr_type_size(t) |-> byte(i)]
    IN  [GlobalMeaning(c, line.name, line.t, line.const, line.link = "external", bytes, {})
           EXCEPT !.relocs = {<< s.off, term(s) >> : s \in addrs}]

TextGlobals(lines) ==
    {TextGlobal(TextCtx(lines), lines[i]) : i \in {k \in DOMAIN lines : lines[k].k = "global"}}

---------------------------------------------------------------------------
(* Properties.                                                             *)

(* The text that is written for a module has the functions and the globals *)
(* of the module and they do the same: what lr_module_dump_opts leaves     *)
(* out, renames or rewrites (zero indices, no-op casts, literals, scoped   *)
(* names, blocks that fall through) changes nothing.                       *)
DumpMeansModule ==
    (Dumped /\ src # NoModule) =>
        /\ TextFuncs(text) = ModuleFuncs(Ctx(EmptyMap, -1), src.m)
        /\ TextGlobals(text) = ModuleGlobals(Ctx(EmptyMap, -1), src.m)

(* Well-formed text is accepted, and the functions lr_parse_ll_text makes  *)
(* do what it says, although blocks, registers and types are used before   *)
(* they are defined, switches and stores of constants are taken apart and  *)
(* constant expressions folded; the globals have the bytes and the         *)
(* addresses the text gives them.                                          *)
ParsedMeansText ==
    /\ ~p.err
    /\ Parsed => /\ ModuleFuncs(Ctx(p.types, p.scope), p.mod) = TextFuncs(text)
                 /\ ModuleGlobals(Ctx(p.types, p.scope), p.mod) = TextGlobals(text)
================================================================================
