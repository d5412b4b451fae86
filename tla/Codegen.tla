--------------------------------- MODULE Codegen --------------------------------
(***************************************************************************)
(* Compiling one function.  lr_target_compile finalizes it, opens a        *)
(* compile context of the target, replays the function into it instruction *)
(* by instruction (lr_replay_function_stream) and closes it.  The target   *)
(* may also be fed as the instructions arrive (the branch of               *)
(* lr_session_emit for a compilation that is not deferred): a phi is then  *)
(* known only after branches to it were written, which the targets'        *)
(* compile_end repairs.  begin_direct_compile defers every compilation at  *)
(* this commit, so today the second order is a promise of the targets'     *)
(* interface rather than something a session does.  The function is one of *)
(* Programs; what its code computes is compared with what it means.        *)
(***************************************************************************)
EXTENDS LrCpu

CONSTANTS
    Programs,   \* the functions to compile
    Raws,       \* the words a caller leaves in the integer argument registers
    BufLen,     \* instructions the code buffer holds
    Fuel        \* bound on the steps of one execution

ASSUME CodegenAssumption ==
    /\ FrameMax \in Nat /\ BufLen \in Nat /\ Fuel \in Nat
    /\ Raws \subseteq 0..15

X86 == INSTANCE TargetX8664
A64 == INSTANCE TargetAarch64

VARIABLES
    func,       \* the function as the front end left it
    fin,        \* the function after lr_func_finalize
    cc,         \* the target's compile context
    at,         \* the block being replayed
    ip,         \* the next instruction of it
    phase       \* where lr_target_compile is

vars == <<func, fin, cc, at, ip, phase>>

RV == INSTANCE TargetRiscv64

(* The target's table of functions (lr_target_t).                          *)
compile_begin(f) ==
    CASE f.target = "x86_64" -> X86!compile_begin(f)
      [] f.target = "aarch64" -> A64!aarch64_compile_begin(f)
      [] f.target = "riscv64" -> RV!rv_compile_begin_common(f)
compile_end(f, c) ==
    CASE f.target = "x86_64" -> X86!compile_end(c)
      [] f.target = "aarch64" -> A64!aarch64_compile_end(c)
      [] f.target = "riscv64" -> RV!rv_compile_end(c)
compile_set_block(f, c, b) ==
    CASE f.target = "x86_64" -> X86!compile_set_block(c, b)
      [] f.target = "aarch64" -> A64!aarch64_compile_set_block(c, b)
      [] f.target = "riscv64" -> RV!rv_compile_set_block(c, b)
compile_emit(f, c, inst) ==
    CASE f.target = "x86_64" -> X86!compile_emit(c, inst, f.callee)
      [] f.target = "aarch64" -> A64!aarch64_compile_emit(c, inst, f.callee)
      [] f.target = "riscv64" -> RV!rv_compile_emit(c, inst)
compile_add_phi_copy(f, c, pred, succ, d, src) ==
    CASE f.target = "x86_64" -> X86!compile_add_phi_copy(c, pred, succ, d, src)
      [] f.target = "aarch64" -> A64!aarch64_compile_add_phi_copy(c, pred, succ, d, src)
      [] f.target = "riscv64" -> RV!rv_compile_add_phi_copy(c)

(* Every operand of every phi becomes a copy on its edge.                  *)
PhiCopiesOf(f, c, b, inst) ==
    FoldLeft(LAMBDA x, j : compile_add_phi_copy(f, x, inst.o[2 * j].n, b, inst.d, inst.o[2 * j - 1]),
             c, [j \in 1..(Len(inst.o) \div 2) |-> j])
replay_phi_copies(f, c) ==
    FoldLeftDomain(LAMBDA x, b :
        FoldLeft(LAMBDA y, inst : IF inst.op = "phi" THEN PhiCopiesOf(f, y, b, inst) ELSE y,
                 x, f.blocks[b]), c, f.blocks)

Init ==
    /\ func \in Programs
    /\ fin = func
    /\ cc = compile_begin(func)
    /\ at = 0 /\ ip = 1
    /\ phase = "new"

Finalize ==
    /\ phase = "new" /\ ~func.stream
    /\ fin' = lr_func_finalize(func)
    /\ phase' = "final"
    /\ UNCHANGED <<func, cc, at, ip>>

Begin ==
    /\ phase = "final"
    /\ cc' = replay_phi_copies(fin, compile_begin(fin))
    /\ phase' = "replay"
    /\ UNCHANGED <<func, fin, at, ip>>

(* A caller that feeds the target directly: nothing of the body is known.  *)
StreamBegin ==
    /\ phase = "new" /\ func.stream
    /\ phase' = "stream"
    /\ UNCHANGED <<func, fin, cc, at, ip>>

Current == IF at = 0 THEN <<>> ELSE fin.blocks[at]
HasTerminator(insts) == \E i \in DOMAIN insts : IsTerminator(insts[i])

(* A block without a terminator is closed by an unreachable.               *)
CloseBlock(c) ==
    IF phase = "replay" /\ at # 0 /\ ~HasTerminator(Current)
    THEN compile_emit(fin, c, Inst("unreachable", 0, "void", <<>>, "", 0)) ELSE c

SetBlock ==
    /\ phase \in {"replay", "stream"} /\ ip > Len(Current) /\ at < Len(fin.blocks)
    /\ cc' = compile_set_block(fin, CloseBlock(cc), at + 1)
    /\ at' = at + 1 /\ ip' = 1
    /\ UNCHANGED <<func, fin, phase>>

(* lr_session_emit: the copies of a phi follow it to the target.           *)
StreamedCopies(c, inst) ==
    IF phase = "stream" /\ inst.op = "phi" THEN PhiCopiesOf(fin, c, at, inst) ELSE c
EmitInst ==
    /\ phase \in {"replay", "stream"} /\ ip <= Len(Current)
    /\ cc' = StreamedCopies(compile_emit(fin, cc, Current[ip]), Current[ip])
    /\ ip' = ip + 1
    /\ UNCHANGED <<func, fin, at, phase>>

End ==
    /\ phase \in {"replay", "stream"} /\ ip > Len(Current) /\ at = Len(fin.blocks)
    /\ cc' = compile_end(fin, CloseBlock(cc))
    /\ phase' = "done"
    /\ UNCHANGED <<func, fin, at, ip>>

Next == Finalize \/ Begin \/ StreamBegin \/ SetBlock \/ EmitInst \/ End
Spec == Init /\ [][Next]_vars

---------------------------------------------------------------------------
(* The caller's side, external: a word per parameter, in the registers or  *)
(* on the stack as the function's convention says.                         *)

RawOf(t, n) == CASE t = "ptr" -> Val(EXT, 0) [] t = "f64" -> Val(F64, n % 4)
                 [] t = "f32" -> Val(F32, n % 4) [] OTHER -> IntV(n)
RawInputs(f) == [DOMAIN f.params -> Raws]
IrInput(f, raw) == [i \in DOMAIN f.params |-> Trunc(RawOf(f.params[i].t, raw[i]), Bits(f.params[i].t))]
ExtWords == <<IntV(6), IntV(9)>>

GpArgs(f) == CASE f.target = "x86_64" -> X86!param_regs [] f.target = "aarch64" -> A64!param_regs
               [] f.target = "riscv64" -> RV!param_regs
FpArgs == X86!param_fp_regs
ResultReg(f) == CASE f.target = "x86_64" -> "rax" [] f.target = "aarch64" -> "x0" [] f.target = "riscv64" -> "a0"
(* Where floating-point values travel in floating-point registers.         *)
FpConvention(f) == f.target = "riscv64" \/ f.llvmabi

CallEntry(f, raw) ==
    LET gp == IF f.ret = "agg" THEN Tail(GpArgs(f)) ELSE GpArgs(f)
        cls == [i \in DOMAIN f.params |-> IF FpConvention(f) /\ f.params[i].t \in FpTypes THEN "f" ELSE "g"]
        inreg(i) == RegsFor(cls, i, gp, FpArgs)
        args == {i \in DOMAIN cls : inreg(i) # {}}
        regs == UNION {inreg(i) : i \in args} \cup (IF f.ret = "agg" THEN {"rdi"} ELSE {})
        pushed == SelectSeq([i \in DOMAIN cls |-> i], LAMBDA i : inreg(i) = {})
    IN  Entry([r \in regs |-> IF f.ret = "agg" /\ r = "rdi" THEN Val(SRET, 0)
                              ELSE LET i == CHOOSE j \in args : r \in inreg(j)
                                   IN  RawOf(f.params[i].t, raw[i])],
              [j \in DOMAIN pushed |-> RawOf(f.params[pushed[j]].t, raw[pushed[j]])], ExtWords)

CalleeOf(f) ==
    [cls |-> f.callee.cls, ret |-> f.callee.ret, vararg |-> f.callee.vararg /\ f.target = "x86_64",
     abi |-> IF f.callee.body /\ ~f.callee.llvmabi /\ f.target # "riscv64" THEN "int" ELSE "ext",
     gp |-> GpArgs(f), fp |-> FpArgs, hidden |-> "first",
     sretreg |-> "rdi", counter |-> "rax", out |-> ResultReg(f)]

(* An internal function of the aarch64 target returns floats as integers.  *)
Returned(f, m) == CASE f.ret = "agg" -> <<m.mem[SRET][0], m.mem[SRET][1]>>
                    [] f.ret = "fagg" -> <<m.r["f0"], m.r["f1"]>>
                    [] f.ret \in FpTypes /\ (f.target = "x86_64" \/ FpConvention(f)) -> <<m.r["f0"]>>
                    [] OTHER -> <<m.r[ResultReg(f)]>>

Agrees(f, m, want) ==
    want.ok =>
        /\ ~m.bad
        /\ \A j \in DOMAIN want.ret : SameWord(Returned(f, m)[j], want.ret[j], f.ret)
        /\ \A j \in {0, 1} : want.ext[j + 1].b \in {INT, EXT} => m.mem[EXT][j] = want.ext[j + 1]

(* The code the back end produced computes what the function means, for    *)
(* every argument: the value returned and the memory written, through the  *)
(* caches, the slots, the deferred terminators and the edge copies.        *)
CodeMeansFunction ==
    (phase = "done" /\ cc.rc = 0) =>
        \A raw \in RawInputs(func) :
            Agrees(func, RunFrom(cc.code, CallEntry(func, raw), 1, CalleeOf(func), Fuel),
                   Meaning(func, IrInput(func, raw), ExtWords, Fuel))

(* The peephole passes of lr_func_finalize change no meaning: a folded     *)
(* value, a reused load or a dropped definition shows nowhere.             *)
FinalizeKeepsMeaning ==
    phase = "final" =>
        \A raw \in RawInputs(func) :
            LET want == Meaning(func, IrInput(func, raw), ExtWords, Fuel)
                got == Meaning(fin, IrInput(func, raw), ExtWords, Fuel)
            IN  want.ok => /\ got.ok
                           /\ \A j \in DOMAIN want.ret : SameWord(got.ret[j], want.ret[j], func.ret)
                           /\ \A j \in {1, 2} : want.ext[j].b \in {INT, EXT} => got.ext[j] = want.ext[j]

(* The words an alloca of the function asks for.                           *)
AllocaWords(v) ==
    LET insts == ToSet(FlattenSeq(fin.blocks))
        inst == CHOOSE x \in insts : x.op = "alloca" /\ x.d = v
    IN  TypeWords(inst.t) * (IF inst.o = <<>> THEN 1 ELSE inst.o[1].n)

Area(owner, v, last, words) == [owner |-> owner, v |-> v, words |-> (last - words + 1)..last]

(* What lies in the frame: slots, allocas, the saved result pointer.       *)
Areas ==
    {Area("slot", v, cc.slot[v], cc.ssz[v]) : v \in {u \in X86!VRegs : cc.slot[u] # 0}}
      \cup {Area("alloca", v, cc.alloca[v], AllocaWords(v)) : v \in {u \in X86!VRegs : cc.alloca[u] # 0}}
      \cup (IF cc.sret = 0 THEN {} ELSE {Area("result", 0, cc.sret, 1)})

HasFrame == func.target # "riscv64"

(* No two live stack objects overlap and all of them lie in the frame: the *)
(* slot of a register, an alloca of its full size, the saved result        *)
(* pointer.                                                                *)
SlotsDisjoint == HasFrame =>
    /\ \A a, d \in Areas : a = d \/ a.words \cap d.words = {}
    /\ \A a \in Areas : a.words # {} /\ a.words \subseteq 1..cc.stk

================================================================================
