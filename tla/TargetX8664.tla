------------------------------- MODULE TargetX8664 ------------------------------
(***************************************************************************)
(* The x86-64 back end, target_x86_64.c: one pass over the instructions,   *)
(* every virtual register in a stack slot, rax and rcx remembering which   *)
(* register they hold, terminators deferred until the next instruction,    *)
(* branches patched at the end.  A compile context is a record and every   *)
(* function of the code an operator from context to context.  The register *)
(* lists of the calling convention are cut to two: rdi, and rcx because    *)
(* the code also uses it as a scratch register.                            *)
(***************************************************************************)
EXTENDS LrCpu

CONSTANT BufLen      \* instructions the caller's buffer holds

VRegs == 1..24
Blocks == 1..6
Unset == 0

param_regs == <<"rdi", "rcx">>
param_fp_regs == <<"f0", "f1">>
Cached == {"rax", "rcx"}

E(c, m, r, s, q, k, z) == [c EXCEPT !.code = Append(@, Op(m, r, s, q, k, z))]
Pos(c) == Len(c.code) + 1

invalidate_cached_reg(c, r) == IF r \in Cached THEN [c EXCEPT !.hold[r] = Unset] ELSE c
invalidate_cached_gprs(c) == [c EXCEPT !.hold = [r \in Cached |-> Unset]]
set_cached_reg_vreg(c, r, v) == IF r \in Cached THEN [c EXCEPT !.hold[r] = v] ELSE c

alloc_temp_slot(c, words) == [c EXCEPT !.stk = @ + words]

(* Mutant of alloc_slot: a wide value takes the room of a narrow one.      *)
SlotOfOneWord(c, v, words) ==
    IF c.slot[v] # Unset /\ words <= c.ssz[v] THEN c
    ELSE [c EXCEPT !.stk = @ + 1, !.slot[v] = c.stk + 1, !.ssz[v] = words]

(* A slot that is too small is replaced; old remembers the ones given up.  *)
alloc_slot(c, v, words) ==
    IF c.slot[v] # Unset /\ words <= c.ssz[v] THEN c
    ELSE [c EXCEPT !.stk = @ + words,
                   !.slot[v] = c.stk + words,
                   !.ssz[v] = words,
                   !.old = IF c.slot[v] # Unset THEN @ \cup {c.slot[v]} ELSE @]
vreg_slot_size(c, v) == IF c.ssz[v] = 0 THEN 1 ELSE c.ssz[v]
IsAlloca(c, v) == c.alloca[v] # Unset

emit_load_slot(c, v, r) ==
    IF IsAlloca(c, v)
    THEN set_cached_reg_vreg(E(c, "lea", r, "rbp", r, -c.alloca[v], 4), r, v)
    ELSE LET c1 == alloc_slot(c, v, 1)
         IN  set_cached_reg_vreg(E(c1, "ld", r, "rbp", r, -c1.slot[v], 4), r, v)
emit_store_slot(c, v, r) ==
    LET c1 == alloc_slot(c, v, 1)
    IN  set_cached_reg_vreg(E(c1, "st", r, "rbp", r, -c1.slot[v], 4), r, v)

emit_mov_imm(c, r, n, preserve_flags) ==
    invalidate_cached_reg(IF n = 0 /\ ~preserve_flags
                          THEN E(c, "zero", r, r, r, 0, 4)
                          ELSE E(c, "movi", r, r, r, n, 4), r)
emit_add_imm(c, r, n) ==
    IF n = 0 THEN c ELSE invalidate_cached_reg(E(c, "addi", r, r, r, n, 4), r)

Other(r) == IF r = "rax" THEN "rcx" ELSE "rax"

(* A register that holds the value already is used or copied.              *)
emit_load_vreg(c, v, r) ==
    IF IsAlloca(c, v) THEN emit_load_slot(c, v, r)
    ELSE IF r \in Cached /\ c.hold[r] = v THEN c
    ELSE IF r \in Cached /\ c.hold[Other(r)] = v
         THEN set_cached_reg_vreg(E(c, "mov", r, Other(r), r, 0, 4), r, v)
    ELSE emit_load_slot(c, v, r)

(* With a JIT and no object the address is known now; otherwise the symbol *)
(* is relocated and its offset added behind it.                            *)
emit_load_global(c, off, r) ==
    IF ~c.obj THEN invalidate_cached_reg(E(c, "glob", r, r, r, off, 4), r)
    ELSE invalidate_cached_reg(emit_add_imm(E(c, "glob", r, r, r, 0, 4), r, off), r)

emit_load_operand(c, o, r) ==
    CASE o.k = "vreg" -> emit_load_vreg(c, o.n, r)
      [] o.k = "imm" /\ o.t \in FpTypes ->
         invalidate_cached_reg(E(c, "movf", r, r, r, o.n, Width(o.t)), r)
      [] o.k = "imm" -> emit_mov_imm(c, r, o.n, c.sel)
      [] o.k = "undef" -> emit_mov_imm(c, r, 0, c.sel)
      [] o.k = "global" -> emit_load_global(c, o.n, r)
      [] o.k = "func" -> E(c, "code", r, r, r, 0, 4)

emit_load_fp_slot(c, v, x, z) ==
    LET c1 == alloc_slot(c, v, 1) IN E(c1, "fld", x, "rbp", x, -c1.slot[v], z)
emit_store_fp_slot(c, v, x, z) ==
    LET c1 == alloc_slot(c, v, 1) IN E(c1, "fst", x, "rbp", x, -c1.slot[v], z)
emit_load_fp_operand(c, o, x, z) ==
    IF o.k = "vreg" THEN emit_load_fp_slot(c, o.n, x, z)
    ELSE E(emit_load_operand(c, o, "rax"), "mov", x, "rax", x, 0, 4)

(* The two-lane floating-point aggregates: where their lanes are read.     *)
x86_fpagg_init_src(c, o, r) ==
    IF o.k # "vreg" THEN [c |-> c, zero |-> o.k = "undef", base |-> "imm", off |-> 0]
    ELSE LET c1 == alloc_slot(c, o.n, 1)
         IN  IF c1.ssz[o.n] >= 2
             THEN [c |-> c1, zero |-> FALSE, base |-> "rbp", off |-> -c1.slot[o.n]]
             ELSE [c |-> E(c1, "ld", r, "rbp", r, -c1.slot[o.n], 4),
                   zero |-> FALSE, base |-> r, off |-> 0]
x86_fpagg_load_elem(c, src, o, lane, x) ==
    CASE src.zero -> E(c, "fzero", x, x, x, 0, 4)
      [] src.base = "imm" -> emit_load_fp_operand(c, o, x, 4)
      [] OTHER -> E(c, "fld", x, src.base, x, src.off + lane, 4)

---------------------------------------------------------------------------
(* Copies of values wider than a register, through r11.                    *)

emit_mem_copy_base_to_base(c, db, dd, sb, sd, words) ==
    FoldLeft(LAMBDA x, j : E(E(x, "ld", "r11", sb, sb, sd + j, 4), "st", "r11", db, db, dd + j, 4),
             c, [j \in 1..words |-> j - 1])
emit_mem_zero_base(c, db, dd, words) ==
    FoldLeft(LAMBDA x, j : E(x, "st", "rax", db, db, dd + j, 4),
             emit_mov_imm(c, "rax", 0, FALSE), [j \in 1..words |-> j - 1])

(* An 8-byte slot of a wider value is taken for a pointer to it, loaded    *)
(* into the register via.                                                  *)
CopyWide(c, v, words, db, dd, via) ==
    IF IsAlloca(c, v) THEN emit_mem_copy_base_to_base(c, db, dd, "rbp", -c.alloca[v], words)
    ELSE LET c1 == alloc_slot(c, v, 1)
         IN  IF c1.ssz[v] >= words
             THEN emit_mem_copy_base_to_base(c1, db, dd, "rbp", -c1.slot[v], words)
             ELSE emit_mem_copy_base_to_base(
                      E(c1, "ld", via, "rbp", via, -c1.slot[v], 4), db, dd, via, 0, words)
emit_copy_vreg_value_bytes_to_base(c, v, words, db, dd) == CopyWide(c, v, words, db, dd, "r10")

(* Any operand as a value of that many words at an address.                *)
PutWide(c, o, words, db, dd) ==
    IF o.k = "vreg" THEN emit_copy_vreg_value_bytes_to_base(c, o.n, words, db, dd)
    ELSE emit_mem_zero_base(c, db, dd, words)

emit_phi_copy_value(c, v, o) ==
    IF vreg_slot_size(c, v) = 1 THEN emit_store_slot(emit_load_operand(c, o, "rax"), v, "rax")
    ELSE LET c1 == alloc_slot(c, v, c.ssz[v]) IN PutWide(c1, o, c.ssz[v], "rbp", -c1.slot[v])

(* The copies of an edge are parallel: all sources are staged in fresh     *)
(* registers first.                                                        *)
EdgeCopies(c, pred, succ, only_unemitted) ==
    SelectSeq([i \in DOMAIN c.phis |-> i],
              LAMBDA i : /\ c.phis[i].pred = pred /\ c.phis[i].succ = succ
                         /\ ~(only_unemitted /\ c.phis[i].emitted))
StageCopy(c, i) ==
    LET tmp == c.next
        words == vreg_slot_size(c, c.phis[i].dest)
        c1 == [alloc_slot(c, tmp, words) EXCEPT !.next = tmp + 1]
    IN  IF words = 1 THEN emit_store_slot(emit_load_operand(c1, c.phis[i].src, "rax"), tmp, "rax")
        ELSE PutWide(c1, c.phis[i].src, words, "rbp", -c1.slot[tmp])
direct_emit_phi_copies_for_edge(c, pred, succ, only_unemitted) ==
    LET idx == EdgeCopies(c, pred, succ, only_unemitted)
        base == c.next
        staged == FoldLeft(StageCopy, c, idx)
    IN  FoldLeftDomain(LAMBDA x, j :
                          [emit_phi_copy_value(x, c.phis[idx[j]].dest, VReg(base + j - 1, "i64"))
                              EXCEPT !.phis[idx[j]].emitted = TRUE],
                       staged, idx)

emit_jmp_sourced(c, target, source) ==
    [E(c, "jmp", "rax", "rax", "rax", 0, 4) EXCEPT
        !.fix = Append(@, [pos |-> Pos(c), hint |-> c.entry[target], target |-> target, source |-> source])]
PatchJump(c, pos, to) == [c EXCEPT !.code[pos].k = to]

---------------------------------------------------------------------------
(* Terminators.                                                            *)

emit_epilogue(c) == E(c, "ret", "rax", "rax", "rax", 0, 4)

FlushRet(c, o) ==
    LET t == c.ret
        sret == E(c, "ld", "rdi", "rbp", "rdi", -c.sret, 4)
        src == x86_fpagg_init_src(c, o, "r10")
    IN  emit_epilogue(
          CASE t = "agg" ->
               E(IF o.k = "vreg" THEN CopyWide(sret, o.n, 2, "rdi", 0, "rax")
                 ELSE emit_mem_zero_base(sret, "rdi", 0, 2), "mov", "rax", "rdi", "rdi", 0, 4)
            [] t \in FpTypes -> emit_load_fp_operand(c, o, "f0", Width(t))
            [] t = "fagg" ->
               x86_fpagg_load_elem(x86_fpagg_load_elem(src.c, src, o, 0, "f0"), src, o, 1, "f1")
            [] OTHER -> emit_load_operand(c, o, "rax"))

FlushBr(c, blk, target) ==
    emit_jmp_sourced(direct_emit_phi_copies_for_edge(c, blk, target, FALSE), target, blk)

FlushTrueEdge(c, jump, blk, target) ==
    FlushBr(invalidate_cached_gprs(PatchJump(c, jump, Pos(c))), blk, target)
(* test; jne true; copies and jump of the false edge; true: the same.      *)
FlushCondbr(c, blk, o) ==
    LET c1 == E(emit_load_operand(c, o[1], "rax"), "test", "rax", "rax", "rax", 0, 2)
        c2 == E(c1, "jne", "rax", "rax", "rax", 0, 4)
    IN  FlushTrueEdge(FlushBr(c2, blk, o[3].n), Pos(c1), blk, o[2].n)

flush_deferred_terminator(c) ==
    IF ~c.def.pending THEN c
    ELSE LET c1 == [c EXCEPT !.def.pending = FALSE]
             o == c.def.o
         IN  CASE c.def.op = "ret" -> FlushRet(c1, o[1])
               [] c.def.op = "unreachable" -> emit_epilogue(c1)
               [] c.def.op = "br" -> FlushBr(c1, c.def.blk, o[1].n)
               [] c.def.op = "condbr" -> FlushCondbr(c1, c.def.blk, o)

---------------------------------------------------------------------------
(* compile_begin: the prologue, whose frame size is patched at the end,    *)
(* the hidden result pointer and the parameters, each stored in its slot.  *)

uses_internal_sret_abi(t) == t = "agg"
FpParam(f, i) == f.llvmabi /\ f.params[i].t \in FpTypes

BeginParam(f, c, i) ==
    LET before(fp) == Cardinality({j \in 1..(i - 1) : FpParam(f, j) = fp})
        gp == before(FALSE) + (IF uses_internal_sret_abi(f.ret) THEN 1 ELSE 0)
        fp == before(TRUE)
        spilled == (IF gp > Len(param_regs) THEN gp - Len(param_regs) ELSE 0)
                   + (IF fp > Len(param_fp_regs) THEN fp - Len(param_fp_regs) ELSE 0)
        v == f.params[i].n
    IN  CASE FpParam(f, i) /\ fp < Len(param_fp_regs) ->
             emit_store_fp_slot(c, v, param_fp_regs[fp + 1], Width(f.params[i].t))
          [] FpParam(f, i) ->
             emit_store_fp_slot(E(c, "fld", "f0", "rbp", "f0", 2 + spilled, Width(f.params[i].t)),
                                v, "f0", Width(f.params[i].t))
          [] gp < Len(param_regs) -> emit_store_slot(c, v, param_regs[gp + 1])
          [] OTHER -> emit_store_slot(E(c, "ld", "rax", "rbp", "rax", 2 + spilled, 4), v, "rax")

compile_begin(f) ==
    LET c0 == [code |-> <<Op("frame", "rsp", "rsp", "rsp", 0, 4)>>,
               slot |-> [v \in VRegs |-> Unset], ssz |-> [v \in VRegs |-> 0],
               old |-> {}, stk |-> 0, alloca |-> [v \in VRegs |-> Unset],
               entry |-> [b \in Blocks |-> Unset], fix |-> <<>>,
               hold |-> [r \in Cached |-> Unset], cur |-> Unset, bindpending |-> FALSE,
               def |-> [pending |-> FALSE, op |-> "none", o |-> <<>>, blk |-> Unset],
               phis |-> <<>>, next |-> f.next, ret |-> f.ret, sret |-> 0, obj |-> f.obj,
               sel |-> FALSE, rc |-> 0]
        c1 == IF uses_internal_sret_abi(f.ret)
              THEN LET c == alloc_temp_slot(c0, 1)
                   IN  [E(c, "st", "rdi", "rbp", "rdi", -c.stk, 4) EXCEPT !.sret = c.stk]
              ELSE c0
    IN  FoldLeft(LAMBDA c, i : BeginParam(f, c, i), c1, [i \in DOMAIN f.params |-> i])

compile_add_phi_copy(c, pred, succ, dest, src) ==
    [alloc_slot(c, dest, TypeWords(src.t)) EXCEPT
        !.phis = Append(@, [pred |-> pred, succ |-> succ, dest |-> dest, src |-> src, emitted |-> FALSE])]

BlockStarts(c, b) ==
    [c EXCEPT !.cur = b, !.entry[b] = IF @ = Unset THEN Pos(c) ELSE @, !.bindpending = TRUE]
compile_set_block(c, b) ==
    BlockStarts(IF c.def.pending /\ c.def.blk # b THEN flush_deferred_terminator(c) ELSE c, b)

---------------------------------------------------------------------------
(* compile_emit, by kind of instruction.                                   *)

LoadBoth(c, inst) == emit_load_operand(emit_load_operand(c, inst.o[1], "rax"), inst.o[2], "rcx")
SextReg(c, r, bits) ==
    IF bits = 4 THEN c ELSE invalidate_cached_reg(E(c, "movsx", r, r, r, 0, bits), r)

EmitBinop(c, inst) ==
    LET c1 == E(LoadBoth(c, inst), inst.op, "rax", "rax", "rcx", 0, Width(inst.t))
    IN  emit_store_slot(c1, inst.d, "rax")
EmitMul(c, inst) ==
    LET z == IF Width(inst.t) = 4 THEN 4 ELSE 3
    IN  emit_store_slot(invalidate_cached_reg(E(LoadBoth(c, inst), "mul", "rax", "rax", "rcx", 0, z),
                                              "rax"), inst.d, "rax")
EmitShift(c, inst) ==
    emit_store_slot(invalidate_cached_reg(
        E(LoadBoth(c, inst), inst.op, "rax", "rax", "rcx", 0, Width(inst.t)), "rax"), inst.d, "rax")
EmitSdiv(c, inst) ==
    LET bits == Bits(inst.t)
        c1 == SextReg(SextReg(LoadBoth(c, inst), "rax", bits), "rcx", bits)
        c2 == invalidate_cached_gprs(E(c1, "div2", "rax", "rcx", "rcx", 1, 4))
        r == IF inst.op = "srem" THEN "rdx" ELSE "rax"
    IN  emit_store_slot(SextReg(c2, r, bits), inst.d, r)
EmitUdiv(c, inst) ==
    LET bits == Bits(inst.t)
        mask(x, r) == E(x, "and", r, r, "r11", 0, 4)
        c1 == LoadBoth(c, inst)
        c2 == IF bits = 4 THEN c1
              ELSE mask(mask(emit_mov_imm(c1, "r11", 2 ^ bits - 1, FALSE), "rax"), "rcx")
        c3 == invalidate_cached_gprs(E(c2, "div2", "rax", "rcx", "rcx", 0, 4))
    IN  emit_store_slot(c3, inst.d, IF inst.op = "urem" THEN "rdx" ELSE "rax")
SetFlag(c, p, d) ==
    LET c1 == E(c, p, "rax", "rax", "rax", 0, 2)
        c2 == E(c1, "movzx", "rax", "rax", "rax", 0, 2)
    IN  emit_store_slot(invalidate_cached_reg(c2, "rax"), d, "rax")
EmitIcmp(c, inst) ==
    SetFlag(E(LoadBoth(c, inst), "cmp", "rax", "rax", "rcx", 0, Width(inst.o[1].t)), inst.p, inst.d)

(* The flags of the test must survive the two loads: c.sel makes them keep *)
(* the flags.                                                              *)
EmitSelect(c, inst) ==
    LET c1 == E(emit_load_operand(c, inst.o[1], "rax"), "test", "rax", "rax", "rax", 0, 2)
        c2 == emit_load_operand(emit_load_operand(c1, inst.o[3], "rax"), inst.o[2], "rcx")
    IN  emit_store_slot(invalidate_cached_reg(E(c2, "csel", "rax", "rcx", "rax", 0, 4), "rax"),
                        inst.d, "rax")

EmitAlloca(c, inst) ==
    IF Len(inst.o) = 0 \/ inst.o[1].k = "imm"
    THEN LET words == TypeWords(inst.t) * (IF Len(inst.o) = 0 \/ inst.o[1].n < 1 THEN 1 ELSE inst.o[1].n)
             c1 == IF IsAlloca(c, inst.d) THEN c
                   ELSE [c EXCEPT !.stk = @ + words, !.alloca[inst.d] = c.stk + words]
         IN  emit_store_slot(E(c1, "lea", "rax", "rbp", "rax", -c1.alloca[inst.d], 4), inst.d, "rax")
    ELSE LET c1 == emit_mov_imm(emit_load_operand(c, inst.o[1], "rax"), "rcx", 1, FALSE)
             c2 == emit_mov_imm(E(c1, "add", "rax", "rax", "rcx", 0, 4), "rcx", -2, FALSE)
             c3 == E(E(c2, "and", "rax", "rax", "rcx", 0, 4), "sub", "rsp", "rsp", "rax", 0, 4)
         IN  emit_store_slot(E(c3, "mov", "rax", "rsp", "rax", 0, 4), inst.d, "rax")

EmitLoad(c, inst) ==
    LET c1 == emit_load_operand(c, inst.o[1], "rax")
        z == Width(inst.t)
    IN  IF TypeWords(inst.t) > 1
        THEN LET c2 == alloc_slot(c1, inst.d, 2)
             IN  emit_mem_copy_base_to_base(c2, "rbp", -c2.slot[inst.d], "rax", 0, 2)
        ELSE emit_store_slot(IF z = 2 THEN invalidate_cached_reg(E(c1, "ld", "rax", "rax", "rax", 0, z), "rax")
                             ELSE E(c1, "ld", "rax", "rax", "rax", 0, z), inst.d, "rax")
EmitStore(c, inst) ==
    LET c1 == emit_load_operand(c, inst.o[2], "rcx")
        v == inst.o[1]
    IN  IF TypeWords(v.t) = 1
        THEN E(emit_load_operand(c1, v, "rax"), "st", "rax", "rcx", "rcx", 0, Width(v.t))
        ELSE IF v.k = "vreg" THEN CopyWide(c1, v.n, 2, "rcx", 0, "rax")
        ELSE emit_mem_zero_base(c1, "rcx", 0, 2)
EmitGep(c, inst) ==
    LET idx == inst.o[2]
        words == TypeWords(inst.t)
        c1 == emit_load_operand(c, inst.o[1], "rax")
        add(x) == E(x, "add", "rax", "rax", "rcx", 0, 4)
        c2 == CASE idx.k = "imm" /\ idx.n = 0 -> c1
                [] idx.k = "imm" -> add(emit_mov_imm(c1, "rcx", idx.n * words, FALSE))
                [] OTHER ->
                   LET c3 == SextReg(emit_load_operand(c1, idx, "rcx"), "rcx", Bits(idx.t))
                       c4 == E(emit_mov_imm(c3, "r10", words, FALSE), "mul", "rcx", "rcx", "r10", 0, 4)
                   IN  add(invalidate_cached_reg(c4, "rcx"))
    IN  emit_store_slot(c2, inst.d, "rax")

(* Extensions and truncation shift the value up and down again.            *)
EmitExtend(c, inst) ==
    LET bits == IF inst.op = "trunc" THEN Bits(inst.t) ELSE Bits(inst.o[1].t)
        c1 == emit_load_operand(c, inst.o[1], "rax")
        sh(x, op) == invalidate_cached_reg(E(x, op, "rax", "rax", "rcx", 0, 4), "rax")
    IN  emit_store_slot(IF bits = 4 THEN c1
                        ELSE sh(sh(emit_mov_imm(c1, "rcx", 4 - bits, FALSE), "shl"),
                                IF inst.op = "sext" THEN "ashr" ELSE "lshr"), inst.d, "rax")
EmitCast(c, inst) == emit_store_slot(emit_load_operand(c, inst.o[1], "rax"), inst.d, "rax")

LoadFpBoth(c, inst, z) ==
    emit_load_fp_operand(emit_load_fp_operand(c, inst.o[1], "f0", z), inst.o[2], "f1", z)
EmitFpArith(c, inst) ==
    IF inst.t # "fagg"
    THEN LET z == Width(inst.t)
         IN  emit_store_fp_slot(E(LoadFpBoth(c, inst, z), inst.op, "f0", "f0", "f1", 0, z), inst.d, "f0", z)
    ELSE LET c1 == alloc_slot(c, inst.d, 2)
             s0 == x86_fpagg_init_src(c1, inst.o[1], "r10")
             s1 == x86_fpagg_init_src(s0.c, inst.o[2], "r11")
             lane(x, j) ==
                LET y == x86_fpagg_load_elem(x86_fpagg_load_elem(x, s0, inst.o[1], j, "f0"),
                                             s1, inst.o[2], j, "f1")
                IN  E(E(y, inst.op, "f0", "f0", "f1", 0, 4), "fst", "f0", "rbp", "f0",
                      -c1.slot[inst.d] + j, 4)
         IN  lane(lane(s1.c, 0), 1)
EmitFneg(c, inst) ==
    LET z == Width(inst.t)
        c1 == E(emit_load_fp_operand(c, inst.o[1], "f1", z), "fzero", "f0", "f0", "f0", 0, z)
    IN  emit_store_fp_slot(E(c1, "fsub", "f0", "f0", "f1", 0, z), inst.d, "f0", z)
EmitFrem(c, inst) ==
    LET z == Width(inst.t)
    IN  emit_store_fp_slot(invalidate_cached_gprs(E(LoadFpBoth(c, inst, z), "frem", "f0", "f0", "f1", 0, z)),
                           inst.d, "f0", z)
EmitFcmp(c, inst) ==
    LET z == Width(inst.o[1].t)
    IN  SetFlag(invalidate_cached_reg(E(LoadFpBoth(c, inst, z), "fcmp", "f0", "f0", "f1", 0, z), "rcx"),
                inst.p, inst.d)
EmitIntToFp(c, inst) ==
    LET z == Width(inst.t)
        bits == Width(inst.o[1].t)
        c1 == emit_load_operand(c, inst.o[1], "rax")
        c2 == IF inst.op = "sitofp" THEN SextReg(c1, "rax", bits)
              ELSE IF bits <= 3 THEN E(c1, "mov", "rax", "rax", "rax", 0, 3) ELSE c1
    IN  emit_store_fp_slot(E(c2, "cvt2fp", "f0", "rax", "rax", 0, z), inst.d, "f0", z)
EmitFpToInt(c, inst) ==
    LET z == Width(inst.o[1].t)
        c1 == E(emit_load_fp_operand(c, inst.o[1], "f0", z), "cvt2si", "rax", "f0", "f0", 0, z)
    IN  emit_store_slot(c1, inst.d, "rax")
EmitFpCast(c, inst) ==
    LET z == Width(inst.t)
        c1 == emit_load_fp_operand(c, inst.o[1], "f0", Width(inst.o[1].t))
    IN  emit_store_fp_slot(E(c1, "fcvt", "f0", "f0", "f0", 0, z), inst.d, "f0", z)

vreg_uses_indirect_aggregate_storage(c, v) == ~IsAlloca(c, v) /\ vreg_slot_size(c, v) = 1
EmitExtractvalue(c, inst) ==
    LET a == inst.o[1]
        c1 == alloc_slot(c, a.n, 1)
        c2 == IF a.k # "vreg" THEN emit_mov_imm(c, "rax", 0, FALSE)
              ELSE IF vreg_uses_indirect_aggregate_storage(c, a.n)
                   THEN E(E(c1, "ld", "r10", "rbp", "r10", -c1.slot[a.n], 4),
                          "ld", "rax", "r10", "rax", inst.i, 4)
                   ELSE E(c1, "ld", "rax", "rbp", "rax", -c1.slot[a.n] + inst.i, 4)
    IN  emit_store_slot(c2, inst.d, "rax")
EmitInsertvalue(c, inst) ==
    LET c1 == alloc_slot(c, inst.d, 2)
        off == -c1.slot[inst.d]
        c2 == PutWide(c1, inst.o[1], 2, "rbp", off)
    IN  E(emit_load_operand(c2, inst.o[2], "rax"), "st", "rax", "rbp", "rax", off + inst.i, 4)

---------------------------------------------------------------------------
(* Calls.                                                                  *)

(* Which convention a call follows: that of the function it finds in the   *)
(* module, or the external one for a symbol the module does not define.    *)
direct_call_uses_external_sysv_abi(callee) ==
    callee.vararg \/ callee.llvmabi \/ ~callee.body

CallClass(ext, o) == IF ext /\ o.t \in FpTypes THEN "f" ELSE "g"
CallArg(c, cls, i, o, gp) ==
    LET reg == RegsFor(cls, i, gp, param_fp_regs)
        r == CHOOSE x \in reg : TRUE
        at == StackIndex(cls, i, gp, param_fp_regs)
    IN  CASE reg # {} /\ cls[i] = "f" -> emit_load_fp_operand(c, o, r, Width(o.t))
          [] reg # {} -> emit_load_operand(c, o, r)
          [] cls[i] = "f" -> E(emit_load_fp_operand(c, o, "f0", Width(o.t)), "fst", "f0", "rsp", "f0", at, 4)
          [] OTHER -> E(emit_load_operand(c, o, "rax"), "st", "rax", "rsp", "rax", at, 4)

(* The internal convention stores the stack arguments first, the external  *)
(* one takes the arguments in order.                                       *)
CallOrder(ext, cls, gp) ==
    LET all == [i \in DOMAIN cls |-> i]
        stacked(i) == RegsFor(cls, i, gp, param_fp_regs) = {}
    IN  IF ext THEN all ELSE SelectSeq(all, stacked) \o SelectSeq(all, LAMBDA i : ~stacked(i))

VarargCount(c, callee, fps) == IF callee.vararg THEN emit_mov_imm(c, "rax", fps, FALSE) ELSE c
StoreResult(c, inst, sret) ==
    CASE sret -> c
      [] inst.t \in FpTypes -> emit_store_fp_slot(c, inst.d, "f0", Width(inst.t))
      [] OTHER -> emit_store_slot(c, inst.d, "rax")
EmitCall(c, inst, callee) ==
    LET args == Tail(inst.o)
        ext == direct_call_uses_external_sysv_abi(callee)
        sret == ~ext /\ uses_internal_sret_abi(inst.t)
        gp == IF sret THEN Tail(param_regs) ELSE param_regs
        cls == [i \in DOMAIN args |-> CallClass(ext, args[i])]
        stacked == Cardinality({i \in DOMAIN args : RegsFor(cls, i, gp, param_fp_regs) = {}})
        room == 2 * ((stacked + 1) \div 2)
        Frame(x, k) == IF room = 0 THEN x ELSE E(x, "frame", "rsp", "rsp", "rsp", k, 4)
        c1 == Frame(c, room)
        c2 == IF sret THEN LET x == alloc_slot(c1, inst.d, 2)
                           IN  E(x, "lea", "rdi", "rbp", "rdi", -x.slot[inst.d], 4) ELSE c1
        c3 == FoldLeft(LAMBDA x, i : CallArg(x, cls, i, args[i], gp), c2, CallOrder(ext, cls, gp))
        fps == Cardinality({i \in DOMAIN cls : cls[i] = "f" /\ RegsFor(cls, i, gp, param_fp_regs) # {}})
        c4 == VarargCount(c3, callee, fps)
        c5 == E(emit_load_operand(c4, inst.o[1], "r10"), "call", "rax", "r10", "r10", 0, 4)
    IN  StoreResult(invalidate_cached_gprs(Frame(c5, -room)), inst, sret)

Defer(c, inst) ==
    [c EXCEPT !.def = [pending |-> TRUE, op |-> inst.op, o |-> inst.o, blk |-> c.cur]]

EmitBody(c, inst, callee) ==
    CASE inst.op \in Terminators -> Defer(c, inst)
      [] inst.op = "phi" -> alloc_slot(c, inst.d, TypeWords(inst.t))
      [] inst.op \in {"add", "sub", "and", "or", "xor"} -> EmitBinop(c, inst)
      [] inst.op = "mul" -> EmitMul(c, inst)
      [] inst.op \in {"shl", "lshr", "ashr"} -> EmitShift(c, inst)
      [] inst.op \in {"sdiv", "srem"} -> EmitSdiv(c, inst)
      [] inst.op \in {"udiv", "urem"} -> EmitUdiv(c, inst)
      [] inst.op = "icmp" -> EmitIcmp(c, inst)
      [] inst.op = "select" -> EmitSelect(c, inst)
      [] inst.op = "alloca" -> EmitAlloca(c, inst)
      [] inst.op = "load" -> EmitLoad(c, inst)
      [] inst.op = "store" -> EmitStore(c, inst)
      [] inst.op = "gep" -> EmitGep(c, inst)
      [] inst.op \in {"sext", "zext", "trunc"} -> EmitExtend(c, inst)
      [] inst.op = "bitcast" -> EmitCast(c, inst)
      [] inst.op \in FpOps -> EmitFpArith(c, inst)
      [] inst.op = "fneg" -> EmitFneg(c, inst)
      [] inst.op = "frem" -> EmitFrem(c, inst)
      [] inst.op = "fcmp" -> EmitFcmp(c, inst)
      [] inst.op \in {"sitofp", "uitofp"} -> EmitIntToFp(c, inst)
      [] inst.op = "fptosi" -> EmitFpToInt(c, inst)
      [] inst.op \in {"fpext", "fptrunc"} -> EmitFpCast(c, inst)
      [] inst.op = "extractvalue" -> EmitExtractvalue(c, inst)
      [] inst.op = "insertvalue" -> EmitInsertvalue(c, inst)
      [] inst.op = "call" -> EmitCall(c, inst, callee)

(* The registers used to stage copies are numbered above every register    *)
(* seen so far.                                                            *)
direct_note_vregs(c, inst) ==
    [c EXCEPT !.next = FoldLeft(LAMBDA n, o : IF o.k = "vreg" /\ o.n >= n THEN o.n + 1 ELSE n,
                                IF inst.d >= c.next THEN inst.d + 1 ELSE c.next, inst.o)]

(* Mutant of compile_emit: what the registers held survives into the next  *)
(* block.                                                                  *)
CacheKeptOverBlocks(c, inst, callee) ==
    LET flush == c.def.pending /\ (inst.op # "alloca" \/ c.def.blk # c.cur)
        c1 == IF flush THEN flush_deferred_terminator(c) ELSE c
        c3 == IF inst.op = "phi" THEN c ELSE [c1 EXCEPT !.bindpending = FALSE]
    IN  [EmitBody([direct_note_vregs(c3, inst) EXCEPT !.sel = inst.op = "select"], inst, callee) EXCEPT !.sel = FALSE]

BindBlock(c) ==
    [IF c.bindpending THEN invalidate_cached_gprs(c) ELSE c EXCEPT !.bindpending = FALSE]

(* A deferred terminator is flushed before any instruction but a phi and   *)
(* an alloca of the same block; the first other instruction of a block     *)
(* forgets what the registers held.                                        *)
compile_emit(c, inst, callee) ==
    LET flush == c.def.pending /\ (inst.op # "alloca" \/ c.def.blk # c.cur)
        c1 == IF flush THEN flush_deferred_terminator(c) ELSE c
        c3 == IF inst.op = "phi" THEN c ELSE BindBlock(c1)
    IN  [EmitBody([direct_note_vregs(c3, inst) EXCEPT !.sel = inst.op = "select"], inst, callee) EXCEPT !.sel = FALSE]

---------------------------------------------------------------------------
(* compile_end: the last terminator; a stub for every branch whose edge    *)
(* has copies not emitted yet; every other branch goes to the entry of its *)
(* block; the frame size, kept a multiple of 16 bytes, is patched in.      *)

LateStub(c, i) ==
    LET fx == c.fix[i]
        late == \E p \in Range(c.phis) :
                   p.pred = fx.source /\ p.succ = fx.target /\ ~p.emitted
        c1 == invalidate_cached_gprs(
                 direct_emit_phi_copies_for_edge(invalidate_cached_gprs(c), fx.source, fx.target, TRUE))
    IN  IF ~late THEN c
        ELSE [PatchJump(emit_jmp_sourced(c1, fx.target, Unset), fx.pos, Pos(c))
                 EXCEPT !.fix[i].target = Unset]

PatchFixup(c, fx) ==
    LET to == IF fx.hint # Unset THEN fx.hint ELSE c.entry[fx.target]
    IN  IF fx.target = Unset \/ to = Unset THEN c ELSE PatchJump(c, fx.pos, to)

LateStubs(c) == FoldLeft(LateStub, c, [i \in DOMAIN c.fix |-> i])
PatchFixups(c) == FoldLeft(PatchFixup, c, c.fix)
PatchFrame(c) == [c EXCEPT !.code[1].k = 2 * ((c.stk + 1) \div 2),
                           !.rc = IF Len(c.code) > BufLen THEN -1 ELSE 0]
compile_end(c) ==
    PatchFrame(PatchFixups(LateStubs(flush_deferred_terminator([c EXCEPT !.bindpending = FALSE]))))
================================================================================
