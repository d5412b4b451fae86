------------------------------ MODULE TargetRiscv64 -----------------------------
(***************************************************************************)
(* The riscv64 back end, target_riscv64.c: straight-line code only, every  *)
(* result in the next register of a pool that is never given back,         *)
(* parameters where they arrive, no frame.  What it does not know it       *)
(* refuses.  The argument registers are cut to two of each class and the   *)
(* pools to four; the values wider than a register's immediates and the    *)
(* rv64im variant without floating point are left out.                     *)
(***************************************************************************)
EXTENDS LrCpu

CONSTANT BufLen      \* instructions the caller's buffer holds

VRegs == 1..24

param_regs == <<"a0", "a1">>
param_fp_regs == <<"f0", "f1">>
rv_gpr_tmp_pool == <<"t3", "t4", "s2", "s3">>
rv_fpr_tmp_pool == <<"ft0", "ft1", "ft2", "ft3">>

Refuse(c) == [c EXCEPT !.rc = -1]
E(c, m, r, s, q, k, z) == [c EXCEPT !.code = Append(@, Op(m, r, s, q, k, z))]
rv_emit_mv(c, rd, rs) == IF rd = rs THEN c ELSE E(c, "mov", rd, rs, rs, 0, 4)

NoReg == [cls |-> "none", reg |-> "a0"]
Place(c, v, cls, reg) == [c EXCEPT !.vmap[v] = [cls |-> cls, reg |-> reg]]

IntLike(t) == t \in IntTypes \cup {"ptr"}

(* An operand in a register: where it is, or an immediate in a scratch     *)
(* register.  Anything else is refused.                                    *)
rv_operand_gpr(c, o, scratch) ==
    CASE o.k = "vreg" /\ c.vmap[o.n].cls = "g" -> [c |-> c, reg |-> c.vmap[o.n].reg]
      [] o.k = "imm" /\ IntLike(o.t) -> [c |-> E(c, "movi", scratch, scratch, scratch, o.n, 4), reg |-> scratch]
      [] OTHER -> [c |-> Refuse(c), reg |-> scratch]
rv_operand_fpr(c, o, scratch) ==
    CASE o.k = "vreg" /\ c.vmap[o.n].cls = "f" -> [c |-> c, reg |-> c.vmap[o.n].reg]
      [] o.k = "imm" /\ o.t \in FpTypes ->
         [c |-> E(E(c, "movf", "t1", "t1", "t1", o.n, Width(o.t)), "mov", scratch, "t1", "t1", 0, 4), reg |-> scratch]
      [] OTHER -> [c |-> Refuse(c), reg |-> scratch]

(* The next register of the pool, for the result v.                        *)
PoolLeft(c, cls) == IF cls = "g" THEN c.gpr_next < Len(rv_gpr_tmp_pool) ELSE c.fpr_next < Len(rv_fpr_tmp_pool)
NextReg(c, cls) == IF cls = "g" THEN rv_gpr_tmp_pool[c.gpr_next + 1] ELSE rv_fpr_tmp_pool[c.fpr_next + 1]
Bump(c, cls) == IF cls = "g" THEN [c EXCEPT !.gpr_next = @ + 1] ELSE [c EXCEPT !.fpr_next = @ + 1]

---------------------------------------------------------------------------
BeginParam(c, p) ==
    LET cls == IF p.t \in FpTypes THEN "f" ELSE "g"
        used == Cardinality({v \in VRegs : c.vmap[v].cls = cls})
        regs == IF cls = "f" THEN param_fp_regs ELSE param_regs
    IN  IF used >= Len(regs) THEN Refuse(c) ELSE Place(c, p.n, cls, regs[used + 1])

rv_compile_begin_common(f) ==
    FoldLeft(BeginParam,
             [code |-> <<>>, vmap |-> [v \in VRegs |-> NoReg], gpr_next |-> 0, fpr_next |-> 0,
              ra_saved |-> FALSE, obj |-> f.obj, cur |-> 0, rc |-> 0], f.params)
rv_compile_set_block(c, b) == [c EXCEPT !.cur = b]
rv_compile_add_phi_copy(c) == Refuse(c)
rv_compile_end(c) == IF Len(c.code) > BufLen THEN Refuse(c) ELSE c

---------------------------------------------------------------------------
EmitInt(c, inst) ==
    LET rd == NextReg(c, "g")
        a == rv_operand_gpr(Bump(c, "g"), inst.o[1], "t1")
        b == rv_operand_gpr(a.c, inst.o[2], "t2")
    IN  IF ~PoolLeft(c, "g") THEN Refuse(c)
        ELSE Place(E(b.c, inst.op, rd, a.reg, b.reg, 0, 4), inst.d, "g", rd)
EmitFp(c, inst) ==
    LET rd == NextReg(c, "f")
        a == rv_operand_fpr(Bump(c, "f"), inst.o[1], "ft0")
        b == IF inst.op = "fneg" THEN a ELSE rv_operand_fpr(a.c, inst.o[2], "ft1")
    IN  IF ~PoolLeft(c, "f") THEN Refuse(c)
        ELSE Place(E(b.c, inst.op, rd, a.reg, b.reg, 0, Width(inst.t)), inst.d, "f", rd)
EmitSitofp(c, inst) ==
    LET a == rv_operand_gpr(c, inst.o[1], "t1")
        rd == NextReg(c, "f")
    IN  IF ~PoolLeft(c, "f") THEN Refuse(c)
        ELSE Place(E(Bump(a.c, "f"), "cvt2fp", rd, a.reg, a.reg, 0, Width(inst.t)), inst.d, "f", rd)
EmitFptosi(c, inst) ==
    LET a == rv_operand_fpr(c, inst.o[1], "ft0")
        rd == NextReg(c, "g")
    IN  IF ~PoolLeft(c, "g") THEN Refuse(c)
        ELSE Place(E(Bump(a.c, "g"), "cvt2si", rd, a.reg, a.reg, 0, 4), inst.d, "g", rd)
EmitFpCast(c, inst) ==
    LET a == rv_operand_fpr(c, inst.o[1], "ft0")
        rd == NextReg(c, "f")
    IN  IF \/ ~PoolLeft(c, "f")
           \/ <<inst.o[1].t, inst.t>> # (IF inst.op = "fpext" THEN <<"f32", "f64">> ELSE <<"f64", "f32">>)
        THEN Refuse(c)
        ELSE Place(E(Bump(a.c, "f"), "fcvt", rd, a.reg, a.reg, 0, Width(inst.t)), inst.d, "f", rd)
(* Truncations and extensions alike are a move.                            *)
EmitCast(c, inst) ==
    LET a == rv_operand_gpr(c, inst.o[1], "t1")
        rd == NextReg(c, "g")
    IN  IF ~IntLike(inst.t) \/ ~IntLike(inst.o[1].t) \/ ~PoolLeft(c, "g") THEN Refuse(c)
        ELSE Place(rv_emit_mv(Bump(a.c, "g"), rd, a.reg), inst.d, "g", rd)

(* The arguments are moved one after the other; the return address is kept *)
(* in s1 from the first call on.                                           *)
CallArg(c, cls, i, o) ==
    LET a == IF cls[i] = "f" THEN rv_operand_fpr(c, o, "ft0") ELSE rv_operand_gpr(c, o, "t1")
        reg == RegsFor(cls, i, param_regs, param_fp_regs)
    IN  IF reg = {} THEN Refuse(c) ELSE rv_emit_mv(a.c, CHOOSE r \in reg : TRUE, a.reg)
EmitCall(c, inst) ==
    LET args == Tail(inst.o)
        cls == [i \in DOMAIN args |-> IF args[i].t \in FpTypes THEN "f" ELSE "g"]
        c1 == IF c.ra_saved THEN c ELSE [rv_emit_mv(c, "s1", "ra") EXCEPT !.ra_saved = TRUE]
        c2 == FoldLeft(LAMBDA x, i : CallArg(x, cls, i, args[i]), c1, [i \in DOMAIN args |-> i])
        c3 == E(E(c2, "code", "ra", "ra", "ra", 0, 4), "call", "a0", "ra", "ra", 0, 4)
    IN  IF ~c.obj THEN Refuse(c)
        ELSE IF inst.t \in FpTypes THEN Place(c3, inst.d, "f", "f0") ELSE Place(c3, inst.d, "g", "a0")

EmitRet(c, o) ==
    LET a == IF o.t \in FpTypes THEN rv_operand_fpr(c, o, "ft0") ELSE rv_operand_gpr(c, o, "t1")
        c1 == rv_emit_mv(a.c, IF o.t \in FpTypes THEN "f0" ELSE "a0", a.reg)
    IN  E(IF c.ra_saved THEN rv_emit_mv(c1, "ra", "s1") ELSE c1, "retra", "ra", "ra", "ra", 0, 4)

rv_compile_emit(c, inst) ==
    CASE c.cur = 0 \/ c.rc # 0 -> Refuse(c)
      [] inst.op \in BinOps -> EmitInt(c, inst)
      [] inst.op \in FpOps \cup {"fneg"} -> EmitFp(c, inst)
      [] inst.op = "sitofp" -> EmitSitofp(c, inst)
      [] inst.op = "fptosi" -> EmitFptosi(c, inst)
      [] inst.op \in {"fpext", "fptrunc"} -> EmitFpCast(c, inst)
      [] inst.op \in {"sext", "zext", "trunc", "bitcast"} -> EmitCast(c, inst)
      [] inst.op = "call" -> EmitCall(c, inst)
      [] inst.op = "ret" -> EmitRet(c, inst.o[1])
      [] inst.op = "phi" -> c
      [] OTHER -> Refuse(c)
================================================================================
