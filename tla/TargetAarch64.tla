------------------------------ MODULE TargetAarch64 -----------------------------
(***************************************************************************)
(* The aarch64 back end, target_aarch64.c: every virtual register in a     *)
(* stack slot, x9 and x10 remembering which register they hold, deferred   *)
(* terminators, branches patched at the end.  A compile context is a       *)
(* record and every function of the code an operator from context to       *)
(* context.  rbp and rsp stand for x29 and sp; the argument registers are  *)
(* cut to two of each class.  Instructions that write x9 or x10 without    *)
(* telling the cache do so here too.  The two-float and two-double         *)
(* aggregates in argument lists and Darwin's variable arguments are left   *)
(* out.                                                                    *)
(***************************************************************************)
EXTENDS LrCpu

CONSTANT BufLen      \* instructions the caller's buffer holds

VRegs == 1..24
Blocks == 1..6
Unset == 0

param_regs == <<"x0", "x1">>
param_fp_regs == <<"f0", "f1">>
Cached == {"x9", "x10"}

E(c, m, r, s, q, k, z) == [c EXCEPT !.code = Append(@, Op(m, r, s, q, k, z))]
Pos(c) == Len(c.code) + 1

invalidate_cached_reg_a64(c, r) == IF r \in Cached THEN [c EXCEPT !.hold[r] = Unset] ELSE c
invalidate_cached_gprs_a64(c) == [c EXCEPT !.hold = [r \in Cached |-> Unset]]
set_cached_reg_vreg_a64(c, r, v) == IF r \in Cached THEN [c EXCEPT !.hold[r] = v] ELSE c

alloc_slot(c, v, words) ==
    IF c.slot[v] # Unset /\ words <= c.ssz[v] THEN c
    ELSE [c EXCEPT !.stk = @ + words,
                   !.slot[v] = c.stk + words,
                   !.ssz[v] = words,
                   !.old = IF c.slot[v] # Unset THEN @ \cup {c.slot[v]} ELSE @]
vreg_slot_size(c, v) == IF c.ssz[v] = 0 THEN 1 ELSE c.ssz[v]
IsAlloca(c, v) == c.alloca[v] # Unset

emit_load_slot(c, v, r) ==
    LET c1 == alloc_slot(c, v, 1)
    IN  set_cached_reg_vreg_a64(E(c1, "ld", r, "rbp", r, -c1.slot[v], 4), r, v)
emit_store_slot(c, v, r) ==
    LET c1 == alloc_slot(c, v, 1)
    IN  set_cached_reg_vreg_a64(E(c1, "st", r, "rbp", r, -c1.slot[v], 4), r, v)
emit_move_imm_ctx(c, r, n) == invalidate_cached_reg_a64(E(c, "movi", r, r, r, n, 4), r)

Other(r) == IF r = "x9" THEN "x10" ELSE "x9"
emit_copy_from_cached_scratch_a64(c, v, r) ==
    set_cached_reg_vreg_a64(E(c, "mov", r, Other(r), r, 0, 4), r, v)

LoadVReg(c, v, r) ==
    IF IsAlloca(c, v) THEN set_cached_reg_vreg_a64(E(c, "lea", r, "rbp", r, -c.alloca[v], 4), r, v)
    ELSE IF r \in Cached /\ c.hold[r] = v THEN c
    ELSE IF r \in Cached /\ c.hold[Other(r)] = v THEN emit_copy_from_cached_scratch_a64(c, v, r)
    ELSE emit_load_slot(c, v, r)

(* A symbol is only loaded while there is an object to relocate it in.     *)
LoadGlobal(c, off, r) ==
    IF ~c.obj THEN c
    ELSE LET c1 == E(c, "glob", r, r, r, 0, 4)
         IN  invalidate_cached_reg_a64(IF off = 0 THEN c1 ELSE E(c1, "lea", r, r, r, off, 4), r)

emit_load_operand(c, o, r) ==
    CASE o.k = "vreg" -> LoadVReg(c, o.n, r)
      [] o.k = "imm" /\ o.t \in FpTypes ->
         invalidate_cached_reg_a64(E(c, "movf", r, r, r, o.n, Width(o.t)), r)
      [] o.k = "imm" -> emit_move_imm_ctx(c, r, o.n)
      [] o.k = "undef" -> emit_move_imm_ctx(c, r, 0)
      [] o.k = "global" -> LoadGlobal(c, o.n, r)
      [] o.k = "func" -> invalidate_cached_reg_a64(E(c, "code", r, r, r, 0, 4), r)

emit_load_fp_slot(c, v, x, z) ==
    LET c1 == alloc_slot(c, v, 1) IN E(c1, "fld", x, "rbp", x, -c1.slot[v], z)
emit_store_fp_slot(c, v, x, z) ==
    LET c1 == alloc_slot(c, v, 1) IN E(c1, "fst", x, "rbp", x, -c1.slot[v], z)
emit_load_fp_operand(c, o, x, z) ==
    IF o.k = "vreg" THEN emit_load_fp_slot(c, o.n, x, z)
    ELSE E(emit_load_operand(c, o, "x9"), "mov", x, "x9", x, 0, 4)

(* Where the words of an aggregate are: an alloca, behind the pointer in a *)
(* slot of 8 bytes, or the slot itself.                                    *)
emit_vreg_data_addr_a64(c, o, r) ==
    IF o.k # "vreg" THEN emit_load_operand(c, o, r)
    ELSE invalidate_cached_reg_a64(
           IF IsAlloca(c, o.n) THEN E(c, "lea", r, "rbp", r, -c.alloca[o.n], 4)
           ELSE LET c1 == alloc_slot(c, o.n, 1)
                IN  E(c1, IF TypeWords(o.t) > 1 /\ vreg_slot_size(c1, o.n) = 1 THEN "ld" ELSE "lea",
                      r, "rbp", r, -c1.slot[o.n], 4), r)

---------------------------------------------------------------------------
(* Copies of values wider than a register, through x11.                    *)

emit_mem_copy_base_to_base(c, db, dd, sb, sd, words) ==
    FoldLeft(LAMBDA x, j : E(E(x, "ld", "x11", sb, sb, sd + j, 4), "st", "x11", db, db, dd + j, 4),
             c, [j \in 1..words |-> j - 1])
emit_mem_zero_base(c, db, dd, words) ==
    FoldLeft(LAMBDA x, j : E(x, "st", "x11", db, db, dd + j, 4),
             emit_move_imm_ctx(c, "x11", 0), [j \in 1..words |-> j - 1])

emit_copy_vreg_value_bytes_to_base(c, v, words, db, dd) ==
    IF IsAlloca(c, v) THEN emit_mem_copy_base_to_base(c, db, dd, "rbp", -c.alloca[v], words)
    ELSE LET c1 == alloc_slot(c, v, 1)
         IN  IF c1.ssz[v] >= words
             THEN emit_mem_copy_base_to_base(c1, db, dd, "rbp", -c1.slot[v], words)
             ELSE emit_mem_copy_base_to_base(
                      E(c1, "ld", "x10", "rbp", "x10", -c1.slot[v], 4), db, dd, "x10", 0, words)
PutWide(c, o, words, db, dd) ==
    IF o.k = "vreg" THEN emit_copy_vreg_value_bytes_to_base(c, o.n, words, db, dd)
    ELSE emit_mem_zero_base(c, db, dd, words)

emit_phi_copy_value(c, v, o) ==
    IF vreg_slot_size(c, v) = 1 THEN emit_store_slot(emit_load_operand(c, o, "x9"), v, "x9")
    ELSE LET c1 == alloc_slot(c, v, c.ssz[v]) IN PutWide(c1, o, c.ssz[v], "rbp", -c1.slot[v])

EdgeCopies(c, pred, succ) ==
    SelectSeq([i \in DOMAIN c.phis |-> i],
              LAMBDA i : c.phis[i].pred = pred /\ c.phis[i].succ = succ)
StageCopy(c, i) ==
    LET tmp == c.next
        words == vreg_slot_size(c, c.phis[i].dest)
        c1 == [alloc_slot(c, tmp, words) EXCEPT !.next = tmp + 1]
    IN  IF words = 1 THEN emit_store_slot(emit_load_operand(c1, c.phis[i].src, "x9"), tmp, "x9")
        ELSE PutWide(c1, c.phis[i].src, words, "rbp", -c1.slot[tmp])

(* "PHI inputs are parallel: stage sources first, then write               *)
(* destinations."                                                          *)
a64_direct_emit_phi_copies_for_edge(c, pred, succ) ==
    LET idx == EdgeCopies(c, pred, succ)
        base == c.next
        staged == FoldLeft(StageCopy, c, idx)
    IN  FoldLeftDomain(LAMBDA x, j :
                          [emit_phi_copy_value(x, c.phis[idx[j]].dest,
                                               VReg(base + j - 1, c.phis[idx[j]].src.t))
                              EXCEPT !.phis[idx[j]].emitted = TRUE],
                       staged, idx)

emit_jmp_a64(c, target, source) ==
    [E(c, "jmp", "x9", "x9", "x9", 0, 4) EXCEPT
        !.fix = Append(@, [pos |-> Pos(c), hint |-> c.entry[target], target |-> target, source |-> source])]
PatchJump(c, pos, to) == [c EXCEPT !.code[pos].k = to]

---------------------------------------------------------------------------
(* Terminators.                                                            *)

emit_epilogue_a64(c) == E(c, "ret", "x0", "x0", "x0", 0, 4)

FlushRet(c, o) ==
    emit_epilogue_a64(
        CASE c.ret = "fagg" ->
             E(E(emit_vreg_data_addr_a64(c, o, "x9"), "fld", "f0", "x9", "x9", 0, 4),
               "fld", "f1", "x9", "x9", 1, 4)
          [] c.fpabi /\ c.ret \in FpTypes -> emit_load_fp_operand(c, o, "f0", Width(c.ret))
          [] OTHER -> E(emit_load_operand(c, o, "x9"), "mov", "x0", "x9", "x9", 0, 4))

FlushBr(c, blk, target) ==
    emit_jmp_a64(a64_direct_emit_phi_copies_for_edge(c, blk, target), target, blk)
FlushTrueEdge(c, jump, blk, target) ==
    FlushBr(invalidate_cached_gprs_a64(PatchJump(c, jump, Pos(c))), blk, target)
FlushCondbr(c, blk, o) ==
    LET c1 == E(emit_load_operand(c, o[1], "x9"), "test", "x9", "x9", "x9", 0, 3)
        c2 == E(c1, "jne", "x9", "x9", "x9", 0, 4)
    IN  FlushTrueEdge(FlushBr(c2, blk, o[3].n), Pos(c1), blk, o[2].n)

a64_flush_deferred_terminator(c) ==
    IF ~c.def.pending THEN c
    ELSE LET c1 == [c EXCEPT !.def.pending = FALSE]
             o == c.def.o
         IN  CASE c.def.op = "ret" -> FlushRet(c1, o[1])
               [] c.def.op = "unreachable" -> emit_epilogue_a64(c1)
               [] c.def.op = "br" -> FlushBr(c1, c.def.blk, o[1].n)
               [] c.def.op = "condbr" -> FlushCondbr(c1, c.def.blk, o)

---------------------------------------------------------------------------
FpParam(f, i) == f.llvmabi /\ f.params[i].t \in FpTypes

BeginParam(f, c, i) ==
    LET before(fp) == Cardinality({j \in 1..(i - 1) : FpParam(f, j) = fp})
        gp == before(FALSE)
        fp == before(TRUE)
        spilled == (IF gp > Len(param_regs) THEN gp - Len(param_regs) ELSE 0)
                   + (IF fp > Len(param_fp_regs) THEN fp - Len(param_fp_regs) ELSE 0)
        v == f.params[i].n
        z == Width(f.params[i].t)
    IN  CASE FpParam(f, i) /\ fp < Len(param_fp_regs) -> emit_store_fp_slot(c, v, param_fp_regs[fp + 1], z)
          [] FpParam(f, i) ->
             emit_store_fp_slot(E(c, "fld", "f0", "rbp", "f0", 2 + spilled, z), v, "f0", z)
          [] gp < Len(param_regs) -> emit_store_slot(c, v, param_regs[gp + 1])
          [] OTHER -> emit_store_slot(E(c, "ld", "x9", "rbp", "x9", 2 + spilled, 4), v, "x9")

aarch64_compile_begin(f) ==
    FoldLeft(LAMBDA c, i : BeginParam(f, c, i),
             [code |-> <<Op("frame", "rsp", "rsp", "rsp", 0, 4)>>,
              slot |-> [v \in VRegs |-> Unset], ssz |-> [v \in VRegs |-> 0],
              old |-> {}, stk |-> 0, alloca |-> [v \in VRegs |-> Unset],
              entry |-> [b \in Blocks |-> Unset], fix |-> <<>>,
              hold |-> [r \in Cached |-> Unset], cur |-> Unset, bindpending |-> FALSE,
              def |-> [pending |-> FALSE, op |-> "none", o |-> <<>>, blk |-> Unset],
              phis |-> <<>>, next |-> f.next, ret |-> f.ret, sret |-> 0, obj |-> f.obj,
              fpabi |-> f.llvmabi, rc |-> 0],
             [i \in DOMAIN f.params |-> i])

aarch64_compile_add_phi_copy(c, pred, succ, dest, src) ==
    [alloc_slot(c, dest, TypeWords(src.t)) EXCEPT
        !.phis = Append(@, [pred |-> pred, succ |-> succ, dest |-> dest, src |-> src, emitted |-> FALSE])]

BlockStarts(c, b) ==
    [c EXCEPT !.cur = b, !.entry[b] = IF @ = Unset THEN Pos(c) ELSE @, !.bindpending = TRUE]
aarch64_compile_set_block(c, b) ==
    BlockStarts(IF c.def.pending /\ c.def.blk # b THEN a64_flush_deferred_terminator(c) ELSE c, b)

---------------------------------------------------------------------------
(* aarch64_compile_emit, by kind of instruction.                           *)

Is64(t) == IF Width(t) = 4 THEN 4 ELSE 3
LoadBoth(c, inst) == emit_load_operand(emit_load_operand(c, inst.o[1], "x9"), inst.o[2], "x10")

(* Shift up and down again, the count in the register via.                 *)
Shifts(c, r, bits, down, via) ==
    E(E(c, "shl", r, r, via, 0, 4), down, r, r, via, 0, 4)
ExtendBy(c, r, bits, down, via) ==
    IF bits = 4 THEN c ELSE Shifts(emit_move_imm_ctx(c, via, 4 - bits), r, bits, down, via)

EmitArith(c, inst) ==
    emit_store_slot(E(LoadBoth(c, inst), inst.op, "x9", "x9", "x10", 0, Is64(inst.t)), inst.d, "x9")
EmitDivision(c, inst) ==
    LET z == Is64(inst.t)
        signed == inst.op \in {"sdiv", "srem"}
        ext(x, r, t) == IF signed /\ Bits(t) < z THEN ExtendBy(x, r, Bits(t), "ashr", "x12") ELSE x
        c1 == ext(ext(LoadBoth(c, inst), "x9", inst.o[1].t), "x10", inst.o[2].t)
        c2 == E(c1, "mov", "x11", "x9", "x9", 0, z)
        c3 == E(c2, IF signed THEN "sdiv" ELSE "udiv", "x9", "x9", "x10", 0, z)
        c4 == invalidate_cached_reg_a64(E(c3, "msub", "x11", "x9", "x10", 0, z), "x9")
    IN  emit_store_slot(c4, inst.d, IF inst.op \in {"srem", "urem"} THEN "x11" ELSE "x9")

emit_setcc_a64(c, p, r) ==
    invalidate_cached_reg_a64(E(emit_move_imm_ctx(c, r, 1), p, r, r, r, 0, 4), r)
EmitIcmp(c, inst) ==
    LET bits == Bits(inst.o[1].t)
        down == IF inst.p \in {"slt", "sge"} THEN "ashr" ELSE "lshr"
        c1 == LoadBoth(c, inst)
        c2 == IF bits >= 3 THEN c1
              ELSE Shifts(ExtendBy(c1, "x9", bits, down, "x11"), "x10", bits, down, "x11")
    IN  emit_store_slot(emit_setcc_a64(E(c2, "cmp", "x9", "x9", "x10", 0, Is64(inst.o[1].t)), inst.p, "x9"),
                        inst.d, "x9")
EmitSelect(c, inst) ==
    LET c1 == E(emit_load_operand(c, inst.o[1], "x9"), "test", "x9", "x9", "x9", 0, 3)
        c2 == emit_load_operand(emit_load_operand(c1, inst.o[3], "x9"), inst.o[2], "x10")
    IN  emit_store_slot(E(c2, "csel", "x9", "x10", "x9", 0, 4), inst.d, "x9")

EmitAlloca(c, inst) ==
    IF Len(inst.o) = 0 \/ inst.o[1].k = "imm"
    THEN LET words == TypeWords(inst.t) * (IF Len(inst.o) = 0 \/ inst.o[1].n < 1 THEN 1 ELSE inst.o[1].n)
             c1 == IF IsAlloca(c, inst.d) THEN c
                   ELSE [c EXCEPT !.stk = @ + words, !.alloca[inst.d] = c.stk + words]
         IN  emit_store_slot(E(c1, "lea", "x9", "rbp", "x9", -c1.alloca[inst.d], 4), inst.d, "x9")
    ELSE LET c1 == emit_move_imm_ctx(emit_load_operand(c, inst.o[1], "x9"), "x10", 1)
             c2 == emit_move_imm_ctx(E(c1, "add", "x9", "x9", "x10", 0, 4), "x10", -2)
             c3 == E(E(c2, "and", "x9", "x9", "x10", 0, 4), "sub", "rsp", "rsp", "x9", 0, 4)
         IN  emit_store_slot(E(c3, "mov", "x9", "rsp", "x9", 0, 4), inst.d, "x9")
EmitLoad(c, inst) ==
    LET c1 == emit_load_operand(c, inst.o[1], "x9")
    IN  IF TypeWords(inst.t) > 1
        THEN LET c2 == alloc_slot(c1, inst.d, 2)
             IN  emit_mem_copy_base_to_base(c2, "rbp", -c2.slot[inst.d], "x9", 0, 2)
        ELSE emit_store_slot(E(c1, "ld", "x9", "x9", "x9", 0, Width(inst.t)), inst.d, "x9")
EmitStore(c, inst) ==
    LET c1 == emit_load_operand(c, inst.o[2], "x10")
        v == inst.o[1]
    IN  IF TypeWords(v.t) > 1 THEN PutWide(c1, v, 2, "x10", 0)
        ELSE E(emit_load_operand(c1, v, "x9"), "st", "x9", "x10", "x10", 0, Width(v.t))

(* The index is scaled in place in x10; the cache is not told.             *)
EmitGep(c, inst) ==
    LET idx == inst.o[2]
        words == TypeWords(inst.t)
        c1 == emit_load_operand(c, inst.o[1], "x9")
        add(x) == E(x, "add", "x9", "x9", "x10", 0, 4)
        c2 == CASE idx.k = "imm" /\ idx.n = 0 -> c1
                [] idx.k = "imm" -> add(emit_move_imm_ctx(c1, "x10", idx.n * words))
                [] OTHER ->
                   LET c3 == emit_load_operand(c1, idx, "x10")
                       c4 == IF Bits(idx.t) < 4 THEN E(c3, "movsx", "x10", "x10", "x10", 0, Bits(idx.t)) ELSE c3
                   IN  add(E(emit_move_imm_ctx(c4, "x11", words), "mul", "x10", "x10", "x11", 0, 4))
    IN  emit_store_slot(c2, inst.d, "x9")
EmitExtend(c, inst) ==
    LET bits == IF inst.op = "trunc" THEN Bits(inst.t) ELSE Bits(inst.o[1].t)
    IN  emit_store_slot(ExtendBy(emit_load_operand(c, inst.o[1], "x9"), "x9", bits,
                                 IF inst.op = "sext" THEN "ashr" ELSE "lshr", "x10"), inst.d, "x9")
EmitCast(c, inst) == emit_store_slot(emit_load_operand(c, inst.o[1], "x9"), inst.d, "x9")

LoadFpBoth(c, inst, z) ==
    emit_load_fp_operand(emit_load_fp_operand(c, inst.o[1], "f0", z), inst.o[2], "f1", z)
EmitFpArith(c, inst) ==
    LET z == Width(inst.t)
    IN  emit_store_fp_slot(E(LoadFpBoth(c, inst, z), inst.op, "f0", "f0", "f1", 0, z), inst.d, "f0", z)
EmitFneg(c, inst) ==
    LET z == Width(inst.t)
    IN  emit_store_fp_slot(E(emit_load_fp_operand(c, inst.o[1], "f0", z), "fneg", "f0", "f0", "f0", 0, z),
                           inst.d, "f0", z)
EmitFrem(c, inst) ==
    LET z == Width(inst.t)
    IN  emit_store_fp_slot(invalidate_cached_gprs_a64(
            E(LoadFpBoth(c, inst, z), "frem", "f0", "f0", "f1", 0, z)), inst.d, "f0", z)
EmitFcmp(c, inst) ==
    LET z == Width(inst.o[1].t)
    IN  emit_store_slot(emit_setcc_a64(E(LoadFpBoth(c, inst, z), "fcmp", "f0", "f0", "f1", 0, z), inst.p, "x9"),
                        inst.d, "x9")
EmitIntToFp(c, inst) ==
    LET z == Width(inst.t)
        bits == Bits(inst.o[1].t)
        c1 == emit_load_operand(c, inst.o[1], "x9")
        c2 == IF inst.op = "uitofp" THEN ExtendBy(c1, "x9", bits, "lshr", "x10")
              ELSE IF bits < 4 THEN E(c1, "movsx", "x9", "x9", "x9", 0, 3) ELSE c1
    IN  emit_store_fp_slot(E(c2, "cvt2fp", "f0", "x9", "x9", 0, z), inst.d, "f0", z)
EmitFpToInt(c, inst) ==
    LET z == Width(inst.o[1].t)
    IN  emit_store_slot(E(emit_load_fp_operand(c, inst.o[1], "f0", z), "cvt2si", "x9", "f0", "f0", 0, z),
                        inst.d, "x9")
EmitFpCast(c, inst) ==
    LET z == Width(inst.t)
    IN  emit_store_fp_slot(E(emit_load_fp_operand(c, inst.o[1], "f0", Width(inst.o[1].t)),
                             "fcvt", "f0", "f0", "f0", 0, z), inst.d, "f0", z)

vreg_uses_indirect_aggregate_storage(c, v) == ~IsAlloca(c, v) /\ vreg_slot_size(c, v) = 1
EmitExtractvalue(c, inst) ==
    LET a == inst.o[1]
        c1 == alloc_slot(c, a.n, 1)
        c2 == IF a.k # "vreg" THEN emit_move_imm_ctx(c, "x9", 0)
              ELSE IF vreg_uses_indirect_aggregate_storage(c, a.n)
                   THEN E(E(c1, "ld", "x10", "rbp", "x10", -c1.slot[a.n], 4),
                          "ld", "x9", "x10", "x9", inst.i, 4)
                   ELSE E(c1, "ld", "x9", "rbp", "x9", -c1.slot[a.n] + inst.i, 4)
    IN  emit_store_slot(c2, inst.d, "x9")
EmitInsertvalue(c, inst) ==
    LET c1 == alloc_slot(c, inst.d, 2)
        off == -c1.slot[inst.d]
        c2 == PutWide(c1, inst.o[1], 2, "rbp", off)
    IN  E(emit_load_operand(c2, inst.o[2], "x9"), "st", "x9", "rbp", "x9", off + inst.i, 4)

---------------------------------------------------------------------------
direct_call_uses_external_fp_abi(callee) == callee.vararg \/ callee.llvmabi \/ ~callee.body

CallClass(ext, o) == IF ext /\ o.t \in FpTypes THEN "f" ELSE "g"
CallArg(c, cls, i, o) ==
    LET reg == RegsFor(cls, i, param_regs, param_fp_regs)
        r == CHOOSE x \in reg : TRUE
        at == StackIndex(cls, i, param_regs, param_fp_regs)
    IN  CASE reg # {} /\ cls[i] = "f" -> emit_load_fp_operand(c, o, r, Width(o.t))
          [] reg # {} -> emit_load_operand(c, o, r)
          [] OTHER -> E(emit_load_operand(c, o, "x9"), "st", "x9", "rsp", "x9", at, 4)
CallOrder(ext, cls) ==
    LET all == [i \in DOMAIN cls |-> i]
        stacked(i) == RegsFor(cls, i, param_regs, param_fp_regs) = {}
    IN  IF ext THEN all ELSE SelectSeq(all, stacked) \o SelectSeq(all, LAMBDA i : ~stacked(i))

EmitCall(c, inst, callee) ==
    LET args == Tail(inst.o)
        ext == direct_call_uses_external_fp_abi(callee)
        cls == [i \in DOMAIN args |-> CallClass(ext, args[i])]
        stacked == Cardinality({i \in DOMAIN args : RegsFor(cls, i, param_regs, param_fp_regs) = {}})
        room == 2 * ((stacked + 1) \div 2)
        Frame(x, k) == IF room = 0 THEN x ELSE E(x, "frame", "rsp", "rsp", "rsp", k, 4)
        c1 == FoldLeft(LAMBDA x, i : CallArg(x, cls, i, args[i]), Frame(c, room), CallOrder(ext, cls))
        c2 == E(emit_load_operand(c1, inst.o[1], "x16"), "call", "x0", "x16", "x16", 0, 4)
        c3 == invalidate_cached_gprs_a64(Frame(c2, -room))
    IN  IF ext /\ inst.t \in FpTypes THEN emit_store_fp_slot(c3, inst.d, "f0", Width(inst.t))
        ELSE emit_store_slot(c3, inst.d, "x0")

Defer(c, inst) ==
    [c EXCEPT !.def = [pending |-> TRUE, op |-> inst.op, o |-> inst.o, blk |-> c.cur]]

EmitBody(c, inst, callee) ==
    CASE inst.op \in Terminators -> Defer(c, inst)
      [] inst.op = "phi" -> alloc_slot(c, inst.d, TypeWords(inst.t))
      [] inst.op \in BinOps \ DivOps -> EmitArith(c, inst)
      [] inst.op \in DivOps -> EmitDivision(c, inst)
      [] inst.op = "icmp" -> EmitIcmp(c, inst)
      [] inst.op = "select" -> EmitSelect(c, inst)
      [] inst.op = "alloca" -> EmitAlloca(c, inst)
      [] inst.op = "load" -> EmitLoad(c, inst)
      [] inst.op = "store" -> EmitStore(c, inst)
      [] inst.op = "gep" -> EmitGep(c, inst)
      [] inst.op \in {"sext", "zext", "trunc"} -> EmitExtend(c, inst)
      [] inst.op = "bitcast" -> EmitCast(c, inst)
      [] inst.op \in FpOps -> EmitFpArith(c, inst)
      [] inst.op = "fneg" -> EmitFneg(c, inst)
      [] inst.op = "frem" -> EmitFrem(c, inst)
      [] inst.op = "fcmp" -> EmitFcmp(c, inst)
      [] inst.op \in {"sitofp", "uitofp"} -> EmitIntToFp(c, inst)
      [] inst.op = "fptosi" -> EmitFpToInt(c, inst)
      [] inst.op \in {"fpext", "fptrunc"} -> EmitFpCast(c, inst)
      [] inst.op = "extractvalue" -> EmitExtractvalue(c, inst)
      [] inst.op = "insertvalue" -> EmitInsertvalue(c, inst)
      [] inst.op = "call" -> EmitCall(c, inst, callee)

(* The registers used to stage copies are numbered above every register    *)
(* seen so far.                                                            *)
a64_direct_note_vregs(c, inst) ==
    [c EXCEPT !.next = FoldLeft(LAMBDA n, o : IF o.k = "vreg" /\ o.n >= n THEN o.n + 1 ELSE n,
                                IF inst.d >= c.next THEN inst.d + 1 ELSE c.next, inst.o)]

BindBlock(c) ==
    [IF c.bindpending THEN invalidate_cached_gprs_a64(c) ELSE c EXCEPT !.bindpending = FALSE]

aarch64_compile_emit(c, inst, callee) ==
    LET flush == c.def.pending /\ (inst.op # "alloca" \/ c.def.blk # c.cur)
        c1 == IF flush THEN a64_flush_deferred_terminator(c) ELSE c
        c3 == IF inst.op = "phi" THEN c ELSE BindBlock(c1)
    IN  EmitBody(a64_direct_note_vregs(c3, inst), inst, callee)

---------------------------------------------------------------------------
(* aarch64_compile_end.  The copies of a late edge are written one after   *)
(* the other, unstaged, all those of the edge.                             *)

LateStub(c, i) ==
    LET fx == c.fix[i]
        late == \E p \in Range(c.phis) :
                   p.pred = fx.source /\ p.succ = fx.target /\ ~p.emitted
        c1 == invalidate_cached_gprs_a64(
                 FoldLeft(LAMBDA x, j : emit_phi_copy_value(x, c.phis[j].dest, c.phis[j].src),
                          invalidate_cached_gprs_a64(c), EdgeCopies(c, fx.source, fx.target)))
    IN  IF ~late THEN c
        ELSE [PatchJump(emit_jmp_a64(c1, fx.target, Unset), fx.pos, Pos(c))
                 EXCEPT !.fix[i].target = Unset]

PatchFixup(c, fx) ==
    LET to == IF fx.hint # Unset THEN fx.hint ELSE c.entry[fx.target]
    IN  IF fx.target = Unset \/ to = Unset THEN c ELSE PatchJump(c, fx.pos, to)

LateStubs(c) == FoldLeft(LateStub, c, [i \in DOMAIN c.fix |-> i])
PatchFixups(c) == FoldLeft(PatchFixup, c, c.fix)
PatchFrame(c) == [c EXCEPT !.code[1].k = 2 * ((c.stk + 1) \div 2),
                           !.rc = IF Len(c.code) > BufLen THEN -1 ELSE 0]
aarch64_compile_end(c) ==
    PatchFrame(PatchFixups(LateStubs(a64_flush_deferred_terminator([c EXCEPT !.bindpending = FALSE]))))
================================================================================
