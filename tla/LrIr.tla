-------------------------------- MODULE LrIr --------------------------------
(***************************************************************************)
(* The intermediate representation of ir.h and what a function in it       *)
(* means.  Integers are scaled down: i1 has 1 bit, i8 two, i32 three and   *)
(* i64 four, so that every width the back ends tell apart is there while   *)
(* the value sets stay small.  Memory is addressed in 8-byte words.        *)
(*                                                                         *)
(* A value is a record [b, n]: a base and a number.  Bases: an integer, a  *)
(* pointer into the memory behind the pointer parameter, an undefined      *)
(* value, a double, a float, a pointer to the caller's result buffer, a    *)
(* code address, a pointer into the machine's frame, and one base for the  *)
(* memory of every alloca.                                                 *)
(***************************************************************************)
EXTENDS Integers, Sequences, SequencesExt, FiniteSets

INT   == 0
EXT   == 1
UNDEF == 2
F64   == 3
F32   == 4
SRET  == 5
CODE  == 6
FRAME == 9
AllocaBase(d) == 10 + d

Val(b, n) == [b |-> b, n |-> n]
IntV(n) == Val(INT, n)
Undef == Val(UNDEF, 0)

IntTypes == {"i1", "i8", "i32", "i64"}
FpTypes == {"f64", "f32"}

(* lr_type_size in words, and int_type_width_bits of the scaled integers.  *)
TypeWords(t) == IF t \in {"agg", "fagg"} THEN 2 ELSE 1
Bits(t) == CASE t = "i1" -> 1 [] t = "i8" -> 2 [] t = "i32" -> 3 [] OTHER -> 4

(* The sizes a memory or register operation comes in: byte, dword, word.   *)
Width(t) == CASE t \in {"i1", "i8"} -> 2 [] t \in {"i32", "f32"} -> 3 [] OTHER -> 4

Low(n, bits) == n % (2 ^ bits)
SignedOf(n, bits) ==
    LET m == Low(n, bits) IN IF m >= 2 ^ (bits - 1) THEN m - 2 ^ bits ELSE m
Trunc(v, bits) == IF v.b = INT THEN IntV(Low(v.n, bits)) ELSE v

---------------------------------------------------------------------------
(* Operands and instructions, as lr_operand_t and lr_inst_t keep them.     *)

VReg(n, t) == [k |-> "vreg", n |-> n, t |-> t]
Imm(n, t)  == [k |-> "imm", n |-> n, t |-> t]
UndefOp(t) == [k |-> "undef", n |-> 0, t |-> t]
Global(off) == [k |-> "global", n |-> off, t |-> "ptr"]
Block(id)  == [k |-> "block", n |-> id, t |-> "void"]

(* i is an aggregate index (0 or 1), p a predicate or the callee's ABI.    *)
Inst(op, d, t, o, p, i) ==
    [op |-> op, d |-> d, t |-> t, o |-> o, p |-> p, i |-> i]

Terminators == {"ret", "br", "condbr", "unreachable"}
IsTerminator(inst) == inst.op \in Terminators

(***************************************************************************)
(* What an operator computes.  An undefined operand makes the result       *)
(* undefined.                                                              *)
(***************************************************************************)
Bitwise2(n, k, f(_, _)) ==
    LET bit(j) == f((n \div 2 ^ j) % 2, (k \div 2 ^ j) % 2)
    IN  bit(0) + 2 * bit(1) + 4 * bit(2) + 8 * bit(3)
AndBit(x, y) == IF x = 1 /\ y = 1 THEN 1 ELSE 0
OrBit(x, y)  == IF x = 1 \/ y = 1 THEN 1 ELSE 0
XorBit(x, y) == IF x # y THEN 1 ELSE 0

(* C's division truncates towards zero.                                    *)
Quot(a, c) ==
    LET q == (IF a < 0 THEN -a ELSE a) \div (IF c < 0 THEN -c ELSE c)
    IN  IF (a < 0) = (c < 0) THEN q ELSE -q

IntOp(op, a, c, bits) ==
    LET x == Low(a, bits)
        y == Low(c, bits)
        sx == SignedOf(a, bits)
        sy == SignedOf(c, bits)
    IN  Low(CASE op = "add" -> x + y
              [] op = "sub" -> x - y
              [] op = "mul" -> x * y
              [] op = "and" -> Bitwise2(x, y, AndBit)
              [] op = "or"  -> Bitwise2(x, y, OrBit)
              [] op = "xor" -> Bitwise2(x, y, XorBit)
              [] op = "shl" -> x * (2 ^ y)
              [] op = "lshr" -> x \div (2 ^ y)
              [] op = "ashr" -> sx \div (2 ^ y)
              [] op = "udiv" -> x \div y
              [] op = "urem" -> x % y
              [] op = "sdiv" -> Quot(sx, sy)
              [] op = "srem" -> sx - sy * Quot(sx, sy), bits)

DivOps == {"udiv", "urem", "sdiv", "srem"}
BinOps == {"add", "sub", "mul", "and", "or", "xor", "shl", "lshr", "ashr"} \cup DivOps
FpOps == {"fadd", "fsub", "fmul"}
FpOp(op, a, c) == Low(CASE op = "fadd" -> a + c [] op = "fsub" -> a - c
                        [] op = "fmul" -> a * c [] op = "frem" -> a, 4)

Compare(p, a, c, bits) ==
    LET x == Low(a, bits)
        y == Low(c, bits)
        sx == SignedOf(a, bits)
        sy == SignedOf(c, bits)
    IN  CASE p = "eq" -> x = y [] p = "ne" -> x # y
          [] p = "ult" -> x < y [] p = "ugt" -> x > y
          [] p = "slt" -> sx < sy [] p = "sge" -> sx >= sy

BoolV(q) == IntV(IF q THEN 1 ELSE 0)

(* What the called function answers: it weighs its arguments, so that two  *)
(* that are swapped or lost show; it also writes the external memory.      *)
RECURSIVE Weigh(_, _)
Weigh(args, i) ==
    IF i > Len(args) THEN 0
    ELSE (2 * i - 1) * args[i].n + Weigh(args, i + 1)
Callee(args) ==
    IF \E i \in DOMAIN args : args[i].b \notin {INT, F64} THEN Undef
    ELSE IntV(Low(Weigh(args, 1), 4))

---------------------------------------------------------------------------
(* The reference meaning of a function: an interpreter.  Its state holds   *)
(* the virtual registers (one or two words each) and the memory.           *)

OpWords(s, o) ==
    CASE o.k = "vreg"   -> s.e[o.n]
      [] o.k = "imm"    -> IF o.t \in FpTypes
                           THEN <<Val(IF o.t = "f64" THEN F64 ELSE F32, o.n)>>
                           ELSE [j \in 1..TypeWords(o.t) |-> IntV(Low(o.n, Bits(o.t)))]
      [] o.k = "undef"  -> [j \in 1..TypeWords(o.t) |-> Undef]
      [] o.k = "global" -> <<Val(EXT, o.n)>>
OpVal(s, o) == OpWords(s, o)[1]

MemBases == {EXT} \cup (11..24)
WordAt(s, a, j) == IF a.b \in MemBases /\ a.n + j \in 0..1 THEN s.mem[a.b][a.n + j + 1] ELSE Undef
PutAt(s, a, j, v) ==
    IF a.b \in MemBases /\ a.n + j \in 0..1
    THEN [s EXCEPT !.mem[a.b][a.n + j + 1] = v]
    ELSE [s EXCEPT !.ub = TRUE]

(* A narrow store replaces the low part of its word only.                  *)
Merge(old, v, bits) ==
    IF bits = 4 \/ v.b # INT THEN v
    ELSE IF old.b # INT THEN Undef
         ELSE IntV((old.n - Low(old.n, bits)) + Low(v.n, bits))

Set(s, inst, w) == [s EXCEPT !.e[inst.d] = w]
SetInt(s, inst, n) == Set(s, inst, <<IntV(Low(n, Bits(inst.t)))>>)

EvalInst(s, inst) ==
    LET a == OpVal(s, inst.o[1])
        c == OpVal(s, inst.o[2])
        bits == Bits(inst.t)
        from == Bits(inst.o[1].t)
    IN  CASE inst.op \in BinOps ->
             IF a.b # INT \/ c.b # INT THEN Set(s, inst, <<Undef>>)
             ELSE IF inst.op \in DivOps /\ Low(c.n, bits) = 0 THEN [s EXCEPT !.ub = TRUE]
             ELSE SetInt(s, inst, IntOp(inst.op, a.n, c.n, bits))
          [] inst.op \in FpOps \cup {"frem"} ->
             LET x == OpWords(s, inst.o[1])
                 y == OpWords(s, inst.o[2])
             IN  Set(s, inst, [j \in DOMAIN x |->
                     IF x[j].b = y[j].b /\ x[j].b \in {F64, F32}
                     THEN Val(x[j].b, FpOp(inst.op, x[j].n, y[j].n)) ELSE Undef])
          [] inst.op = "fneg" ->
             Set(s, inst, IF a.b \in {F64, F32} THEN <<Val(a.b, Low(-a.n, 4))>> ELSE <<Undef>>)
          [] inst.op = "icmp" ->
             Set(s, inst, IF a.b = INT /\ c.b = INT
                          THEN <<BoolV(Compare(inst.p, a.n, c.n, from))>> ELSE <<Undef>>)
          [] inst.op = "fcmp" ->
             Set(s, inst, IF a.b = c.b /\ a.b \in {F64, F32}
                          THEN <<BoolV(Compare(inst.p, a.n, c.n, 4))>> ELSE <<Undef>>)
          [] inst.op = "select" ->
             IF a.b # INT THEN [s EXCEPT !.ub = TRUE]
             ELSE Set(s, inst, OpWords(s, inst.o[IF a.n = 1 THEN 2 ELSE 3]))
          [] inst.op = "alloca" ->
             [s EXCEPT !.e[inst.d] = <<Val(AllocaBase(inst.d), 0)>>,
                       !.mem[AllocaBase(inst.d)] = <<Undef, Undef>>]
          [] inst.op = "load" ->
             Set(s, inst, [j \in 1..TypeWords(inst.t) |-> Trunc(WordAt(s, a, j - 1), bits)])
          [] inst.op = "store" ->
             LET w == OpWords(s, inst.o[1])
                 s1 == PutAt(s, c, 0, Merge(WordAt(s, c, 0), w[1], Width(inst.o[1].t)))
             IN  IF Len(w) = 1 THEN s1 ELSE PutAt(s1, c, 1, w[2])
          [] inst.op = "gep" ->
             Set(s, inst, IF c.b = INT
                          THEN <<Val(a.b, a.n + TypeWords(inst.t) * SignedOf(c.n, Bits(inst.o[2].t)))>>
                          ELSE <<Undef>>)
          [] inst.op = "sext" -> SetInt(s, inst, SignedOf(a.n, from))
          [] inst.op \in {"zext", "trunc"} -> SetInt(s, inst, a.n)
          [] inst.op = "bitcast" -> Set(s, inst, <<a>>)
          [] inst.op = "sitofp" -> Set(s, inst, <<Val(F64, Low(SignedOf(a.n, from), 4))>>)
          [] inst.op = "uitofp" -> Set(s, inst, <<Val(F64, a.n)>>)
          [] inst.op = "fptosi" ->
             IF a.b # F64 THEN Set(s, inst, <<Undef>>) ELSE SetInt(s, inst, a.n)
          [] inst.op = "fpext" ->
             Set(s, inst, IF a.b = F32 THEN <<Val(F64, a.n)>> ELSE <<Undef>>)
          [] inst.op = "fptrunc" ->
             Set(s, inst, IF a.b = F64 THEN <<Val(F32, a.n)>> ELSE <<Undef>>)
          [] inst.op = "extractvalue" -> Set(s, inst, <<OpWords(s, inst.o[1])[inst.i + 1]>>)
          [] inst.op = "insertvalue" ->
             Set(s, inst, [OpWords(s, inst.o[1]) EXCEPT ![inst.i + 1] = c])
          [] inst.op = "call" ->
             LET r == Callee([j \in 1..(Len(inst.o) - 1) |-> OpVal(s, inst.o[j + 1])])
                 s1 == PutAt(s, Val(EXT, 0), 0, r)
             IN  Set(s1, inst, IF inst.t = "agg" THEN <<r, IntV(1)>>
                               ELSE IF inst.t = "f64" THEN <<Val(F64, r.n)>> ELSE <<r>>)

(* Phis of a block read their operands of the edge taken, all at once.     *)
PhiSource(inst, pred) ==
    LET k == CHOOSE j \in 1..(Len(inst.o) \div 2) : inst.o[2 * j].n = pred
    IN  inst.o[2 * k - 1]
EnterBlock(s, insts, pred) ==
    LET phis == {inst \in Range(insts) : inst.op = "phi"}
    IN  [s EXCEPT !.e = [v \in DOMAIN s.e |->
            IF \E i \in phis : i.d = v
            THEN OpWords(s, PhiSource(CHOOSE i \in phis : i.d = v, pred))
            ELSE s.e[v]]]

NoResult == [ret |-> <<Undef>>, ext |-> <<Undef, Undef>>, ok |-> FALSE]

RECURSIVE Interp(_, _, _, _, _)
Interp(f, s, blk, i, fuel) ==
    LET insts == f.blocks[blk]
        inst == insts[i]
        goto(t) == Interp(f, EnterBlock(s, f.blocks[t], blk), t, 1, fuel - 1)
    IN  IF s.ub \/ fuel = 0 \/ i > Len(insts) THEN NoResult
        ELSE CASE inst.op = "ret" -> [ret |-> OpWords(s, inst.o[1]), ext |-> s.mem[EXT], ok |-> TRUE]
               [] inst.op = "unreachable" -> NoResult
               [] inst.op = "br" -> goto(inst.o[1].n)
               [] inst.op = "condbr" ->
                  LET q == OpVal(s, inst.o[1])
                  IN  IF q.b # INT THEN NoResult
                      ELSE goto(inst.o[IF q.n = 1 THEN 2 ELSE 3].n)
               [] inst.op = "phi" -> Interp(f, s, blk, i + 1, fuel)
               [] OTHER -> Interp(f, EvalInst(s, inst), blk, i + 1, fuel - 1)

(* f.params[j] is the register of parameter j, in[j] its value.            *)
Meaning(f, in, ext, fuel) ==
    Interp(f, [e |-> [v \in 1..24 |->
                        IF \E j \in DOMAIN f.params : f.params[j].n = v
                        THEN <<in[CHOOSE j \in DOMAIN f.params : f.params[j].n = v]>>
                        ELSE <<Undef, Undef>>],
               mem |-> [m \in MemBases |-> IF m = EXT THEN ext ELSE <<Undef, Undef>>],
               ub |-> FALSE], 1, 1, fuel)

(* What a caller can observe of a word: undefined words allow anything.    *)
SameWord(got, want, t) ==
    want.b = UNDEF \/ Trunc(got, Bits(t)) = Trunc(want, Bits(t))

-----------------------------------------------------------------------------
(***************************************************************************)
(* lr_func_finalize of ir.c: the peephole passes every function goes       *)
(* through before a back end sees it.  Instructions whose value is known   *)
(* are removed and their register replaced by an operand, repeated loads   *)
(* of a block reuse the first one, branches on a constant become           *)
(* unconditional, and unused definitions are dropped.                      *)
(***************************************************************************)

MaxReplaceIters == 6
MaxDeadIters == 8
NoRepl == [k |-> "none", n |-> 0, t |-> "void"]

operand_equal(a, c) == a = c

(* Follows the replacements of a register; guard bounds the chain.         *)
RECURSIVE Resolve(_, _, _)
Resolve(repl, o, guard) ==
    IF o.k # "vreg" \/ guard = 0 THEN o
    ELSE IF repl[o.n].k = "none" \/ (repl[o.n].k = "vreg" /\ repl[o.n].n = o.n) THEN o
    ELSE Resolve(repl, repl[o.n], guard - 1)
operand_resolve(repl, o) == Resolve(repl, o, Cardinality(DOMAIN repl) + 1)
ResolveAll(repl, inst) ==
    [inst EXCEPT !.o = [j \in DOMAIN inst.o |-> operand_resolve(repl, inst.o[j])]]

inst_defines_dest(inst) == inst.op \notin Terminators \cup {"store"} /\ inst.t # "void"
inst_dead_def_eliminable(inst) ==
    inst_defines_dest(inst) /\ inst.op \notin {"alloca", "call"}

IsImm(o) == o.k = "imm" /\ o.t \notin FpTypes
Folded(o) == {o}
NotFolded == {}

(* The folds answer the set of their replacement: empty when none applies. *)
fold_int_binop_immediates(inst) ==
    IF inst.op \notin BinOps THEN NotFolded
    ELSE LET bits == Bits(inst.t)
             a == inst.o[1]
             c == inst.o[2]
         IN  IF \/ ~IsImm(a) \/ ~IsImm(c)
                \/ inst.op \in {"shl", "lshr", "ashr"} /\ Low(c.n, bits) >= bits
                \/ inst.op \in DivOps /\ Low(c.n, bits) = 0
                \/ inst.op \in {"sdiv", "srem"} /\ bits = 4
                     /\ SignedOf(a.n, 4) = -8 /\ SignedOf(c.n, 4) = -1
             THEN NotFolded
             ELSE Folded(Imm(SignedOf(IntOp(inst.op, a.n, c.n, bits), bits), inst.t))

fold_icmp_immediates(inst) ==
    IF inst.op # "icmp" \/ ~IsImm(inst.o[1]) \/ ~IsImm(inst.o[2]) THEN NotFolded
    ELSE Folded(Imm(IF Compare(inst.p, inst.o[1].n, inst.o[2].n, Bits(inst.o[1].t))
                    THEN 1 ELSE 0, inst.t))

ImmIs(o, n) == IsImm(o) /\ o.n = n
fold_identity_int_binop(inst) ==
    IF inst.op \notin BinOps THEN NotFolded
    ELSE LET a == inst.o[1]
             c == inst.o[2]
             ones(o) == IsImm(o) /\ Low(o.n, Bits(inst.t)) = 2 ^ Bits(inst.t) - 1
             neutral(o) == CASE inst.op \in {"add", "or", "xor"} -> ImmIs(o, 0)
                             [] inst.op = "mul" -> ImmIs(o, 1)
                             [] inst.op = "and" -> ones(o)
                             [] OTHER -> FALSE
             right == CASE inst.op \in {"sub", "shl", "lshr", "ashr"} -> ImmIs(c, 0)
                        [] inst.op \in {"sdiv", "udiv"} -> ImmIs(c, 1)
                        [] OTHER -> neutral(c)
         IN  IF neutral(a) THEN Folded(c) ELSE IF right THEN Folded(a) ELSE NotFolded

fold_select(inst) ==
    IF inst.op # "select" THEN NotFolded
    ELSE IF IsImm(inst.o[1]) THEN Folded(inst.o[IF inst.o[1].n # 0 THEN 2 ELSE 3])
    ELSE IF operand_equal(inst.o[2], inst.o[3]) THEN Folded(inst.o[2])
    ELSE NotFolded

(* The first fold that applies, in the order of the code.                  *)
try_inst_replacement(inst) ==
    LET tries == << fold_select(inst), fold_icmp_immediates(inst),
                    fold_int_binop_immediates(inst), fold_identity_int_binop(inst) >>
    IN  IF \A j \in DOMAIN tries : tries[j] = {} THEN NotFolded
        ELSE tries[SelectInSeq(tries, LAMBDA x : x # {})]

FoldCondbr(inst) ==
    IF inst.op = "condbr" /\ IsImm(inst.o[1])
    THEN [inst EXCEPT !.op = "br", !.o = <<inst.o[IF inst.o[1].n # 0 THEN 2 ELSE 3]>>]
    ELSE inst

---------------------------------------------------------------------------
(* One walk over a block: st holds what is kept, the replacements and the  *)
(* loads seen since the last store or call.                                *)

CachedLoad(st, inst) ==
    {VReg(l.d, inst.t) : l \in {x \in Range(st.loads) :
                                  x.t = inst.t /\ operand_equal(x.o[1], inst.o[1])}}

(* Mutant of AfterKept: loads are remembered over a call.                  *)
LoadsKeptOverCalls(st, inst) ==
    IF inst.op = "store" THEN [st EXCEPT !.loads = <<>>]
    ELSE IF inst.op = "load" THEN [st EXCEPT !.loads = Append(@, inst)] ELSE st

AfterKept(st, inst) ==
    IF inst.op \in {"store", "call"} THEN [st EXCEPT !.loads = <<>>]
    ELSE IF inst.op = "load" THEN [st EXCEPT !.loads = Append(@, inst)] ELSE st

(* known holds the value the instruction is known to have, if any.         *)
KeepOrReplace(st, inst, known) ==
    LET r == CHOOSE x \in known : TRUE
    IN  IF known # {} /\ inst_defines_dest(inst)
        THEN [st EXCEPT !.changed = TRUE,
                        !.repl[inst.d] = IF r.k = "vreg" /\ r.n = inst.d THEN @ ELSE r]
        ELSE [AfterKept(st, inst) EXCEPT !.kept = Append(@, inst)]
OrCachedLoad(st, inst, known) ==
    IF known = {} /\ inst.op = "load" THEN CachedLoad(st, inst) ELSE known
PeepholeResolved(st, inst0, inst) ==
    KeepOrReplace(IF inst # inst0 THEN [st EXCEPT !.changed = TRUE] ELSE st, inst,
                  OrCachedLoad(st, inst, try_inst_replacement(inst)))
PeepholeInst(st, inst0) == PeepholeResolved(st, inst0, FoldCondbr(ResolveAll(st.repl, inst0)))

PeepholeBlock(st, insts) ==
    FoldLeft(PeepholeInst, [st EXCEPT !.kept = <<>>, !.loads = <<>>], insts)

StoreKept(st, b) == [st EXCEPT !.blocks[b] = st.kept]
PeepholeFunc(st) ==
    FoldLeftDomain(LAMBDA s, b : StoreKept(PeepholeBlock(s, s.blocks[b]), b),
                   [st EXCEPT !.changed = FALSE], st.blocks)

RECURSIVE ReplaceIters(_, _), WhileChanged(_, _)
WhileChanged(st, n) == IF st.changed THEN ReplaceIters(st, n - 1) ELSE st
ReplaceIters(st, n) == IF n = 0 THEN st ELSE WhileChanged(PeepholeFunc(st), n)

Uses(blocks) ==
    {o.n : o \in UNION {{inst.o[j] : j \in {i \in DOMAIN inst.o : inst.o[i].k = "vreg"}} :
                          inst \in UNION {Range(blocks[b]) : b \in DOMAIN blocks}}}

RECURSIVE DeadIters(_, _)
DeadIters(blocks, n) ==
    LET used == Uses(blocks)
        live(inst) == ~inst_dead_def_eliminable(inst) \/ inst.d \in used
        left == [b \in DOMAIN blocks |-> SelectSeq(blocks[b], live)]
    IN  IF n = 0 \/ left = blocks THEN blocks ELSE DeadIters(left, n - 1)

Resolved(st) ==
    [b \in DOMAIN st.blocks |-> [i \in DOMAIN st.blocks[b] |-> ResolveAll(st.repl, st.blocks[b][i])]]
run_func_peephole_passes(f) ==
    LET start == [blocks |-> f.blocks, kept |-> <<>>, loads |-> <<>>, changed |-> FALSE,
                  repl |-> [v \in 1..(f.next - 1) |-> NoRepl]]
    IN  DeadIters(Resolved(ReplaceIters(start, MaxReplaceIters)), MaxDeadIters)

lr_func_finalize(f) == [f EXCEPT !.blocks = run_func_peephole_passes(f)]
=============================================================================
