---------------------------------- MODULE LrCpu ---------------------------------
(***************************************************************************)
(* The processor the back ends emit code for, external to the repository:  *)
(* as many registers and operations as the emitted code uses, with what    *)
(* matters to a code generator: partial register writes, flags that most   *)
(* arithmetic destroys, registers that a call clobbers, and a frame below  *)
(* which nothing may be kept.  A machine instruction is one element of     *)
(* the code sequence, its index its address.                               *)
(***************************************************************************)
EXTENDS LrIr

CONSTANT FrameMax    \* words of stack the machine has

(* m: operation, r: destination, s and q: sources, k: number, z: width.    *)
Op(m, r, s, q, k, z) == [m |-> m, r |-> r, s |-> s, q |-> q, k |-> k, z |-> z]

GpRegs == {"rax", "rcx", "rdx", "rdi", "r10", "r11", "rbp", "rsp",
           "x0", "x1", "x9", "x10", "x11", "x12", "x16",
           "a0", "a1", "t1", "t2", "t3", "t4", "s1", "s2", "s3", "ra"}
FpRegs == {"f0", "f1", "f16", "f17", "ft0", "ft1", "ft2", "ft3"}
Preserved == {"rbp", "rsp", "s1", "s2", "s3"}

(* How a called function finds its arguments: callee.cls lists the class   *)
(* of each ("g" or "f"); an internal callee takes all of them in general   *)
(* registers, after the hidden result pointer when there is one.           *)
RegsFor(cls, i, gp, fp) ==
    LET before(c) == Cardinality({j \in 1..(i - 1) : cls[j] = c}) + 1
        list == IF cls[i] = "f" THEN fp ELSE gp
    IN  IF before(cls[i]) <= Len(list) THEN {list[before(cls[i])]} ELSE {}
StackIndex(cls, i, gp, fp) == Cardinality({j \in 1..(i - 1) : RegsFor(cls, j, gp, fp) = {}})

FramePtr(n) == Val(FRAME, n)
MemRange(b) == IF b = FRAME THEN -FrameMax..8 ELSE 0..1

Load(m, a, z) ==
    IF a.b \notin {EXT, SRET, FRAME} \/ a.n \notin MemRange(a.b) THEN Undef
    ELSE LET v == m.mem[a.b][a.n]
         IN  IF v.b = INT THEN IntV(Low(v.n, z)) ELSE IF z = 4 \/ v.b = F32 THEN v ELSE Undef
BadAccess(m, a) ==
    \/ a.b \notin {EXT, SRET, FRAME} \/ a.n \notin MemRange(a.b)
    \/ a.b = FRAME /\ a.n < m.r["rsp"].n
(* A narrow write leaves the upper part; where nothing is known of it, it  *)
(* reads as ones.                                                          *)
Narrow(old, v, z) == Merge(IF old.b = INT THEN old ELSE IntV(15), v, z)
Store(m, a, v, z) ==
    IF BadAccess(m, a) THEN [m EXCEPT !.bad = TRUE]
    ELSE [m EXCEPT !.mem[a.b][a.n] = IF v.b = INT THEN Narrow(@, v, z) ELSE v]

(* A byte-wide result leaves the rest of the register, a dword clears it.  *)
PutReg(m, r, v, z) ==
    [m EXCEPT !.r[r] = IF v.b # INT \/ z = 4 THEN v
                       ELSE IF z = 3 THEN IntV(Low(v.n, 3)) ELSE Narrow(@, v, 2)]
Flags(m, a, c, z) == [m EXCEPT !.fl = [a |-> a, c |-> c, z |-> z]]

AluVal(op, a, c, z) ==
    CASE a.b = INT /\ c.b = INT ->
         IF op \in DivOps /\ Low(c.n, z) = 0 THEN Undef
         ELSE IntV(IntOp(op, a.n, c.n, z))
      [] op = "add" /\ a.b \in {EXT, SRET, FRAME} /\ c.b = INT -> Val(a.b, a.n + SignedOf(c.n, 4))
      [] op = "sub" /\ a.b = FRAME /\ c.b = INT -> Val(a.b, a.n - c.n)
      [] OTHER -> Undef

Taken(m, p) == m.fl.a.b = INT /\ m.fl.c.b = INT /\ Compare(p, m.fl.a.n, m.fl.c.n, m.fl.z)

(* A call: every register the convention does not preserve is lost, and so *)
(* is the stack below the pointer.                                         *)
CallResult(m, callee) ==
    LET sret == callee.ret = "agg"
        gp == IF sret /\ callee.hidden = "first" THEN Tail(callee.gp) ELSE callee.gp
        cls == IF callee.abi = "int" THEN [j \in DOMAIN callee.cls |-> "g"] ELSE callee.cls
        arg(i) == IF RegsFor(cls, i, gp, callee.fp) # {}
                  THEN m.r[CHOOSE x \in RegsFor(cls, i, gp, callee.fp) : TRUE]
                  ELSE m.mem[FRAME][m.r["rsp"].n + StackIndex(cls, i, gp, callee.fp)]
        seen(i) == IF cls[i] = "f" /\ callee.vararg /\ m.r[callee.counter].n = 0
                   THEN Undef ELSE arg(i)
        res == Callee([i \in DOMAIN cls |-> seen(i)])
        m1 == [m EXCEPT !.r = [x \in DOMAIN m.r |-> IF x \in Preserved THEN m.r[x] ELSE Undef],
                        !.mem[FRAME] = [n \in DOMAIN @ |-> IF n < m.r["rsp"].n THEN Undef ELSE @[n]],
                        !.mem[EXT][0] = res,
                        !.fl = [a |-> Undef, c |-> Undef, z |-> 4]]
        buf == m.r[callee.sretreg]
    IN  CASE sret -> Store(Store(m1, buf, res, 4), Val(buf.b, buf.n + 1), IntV(1), 4)
          [] callee.ret = "f64" -> [m1 EXCEPT !.r[callee.fp[1]] = Val(F64, res.n)]
          [] OTHER -> [m1 EXCEPT !.r[callee.out] = res]

FpWidth(b) == IF b = F64 THEN 4 ELSE 3

Exec(m, o, callee) ==
    LET s == m.r[o.s]
        q == m.r[o.q]
        at == Val(s.b, s.n + o.k)
        fp2 == s.b = q.b /\ s.b \in {F64, F32} /\ FpWidth(s.b) = o.z
    IN  CASE o.m = "frame" -> [m EXCEPT !.r["rsp"].n = @ - o.k]
          [] o.m = "mov"  -> PutReg(m, o.r, IF o.z = 4 THEN s ELSE Trunc(s, o.z), 4)
          [] o.m = "movi" -> PutReg(m, o.r, IntV(Low(o.k, 4)), 4)
          [] o.m = "zero" -> Flags(PutReg(m, o.r, IntV(0), 4), IntV(0), IntV(0), 4)
          [] o.m = "movf" -> PutReg(m, o.r, Val(IF o.z = 4 THEN F64 ELSE F32, o.k), 4)
          [] o.m = "glob" -> PutReg(m, o.r, Val(EXT, o.k), 4)
          [] o.m = "code" -> PutReg(m, o.r, Val(CODE, 0), 4)
          [] o.m = "addi" -> LET v == AluVal("add", s, IntV(Low(o.k, 4)), 4)
                             IN  Flags(PutReg(m, o.r, v, 4), v, IntV(0), 4)
          [] o.m = "lea"  -> PutReg(m, o.r, at, 4)
          [] o.m = "ld"   -> PutReg([m EXCEPT !.bad = @ \/ BadAccess(m, at)], o.r, Load(m, at, o.z), 4)
          [] o.m = "st"   -> Store(m, at, m.r[o.r], o.z)
          [] o.m \in BinOps ->
             LET v == AluVal(o.m, s, q, o.z)
             IN  Flags(PutReg(m, o.r, v, o.z), v, IntV(0), o.z)
          [] o.m = "cmp"  -> Flags(m, s, q, o.z)
          [] o.m = "test" -> Flags(m, s, IntV(0), o.z)
          [] o.m \in {"eq", "ne", "ult", "ugt", "slt", "sge"} ->
             PutReg(m, o.r, IF m.fl.a.b = UNDEF \/ m.fl.c.b = UNDEF THEN Undef
                            ELSE BoolV(Taken(m, o.m)), o.z)
          [] o.m = "movzx" -> PutReg(m, o.r, Trunc(s, o.z), 4)
          [] o.m = "movsx" -> PutReg(m, o.r, IF s.b = INT THEN IntV(Low(SignedOf(s.n, o.z), 4))
                                             ELSE Undef, 4)
          [] o.m = "csel" -> PutReg(m, o.r, IF m.fl.a.b # INT THEN Undef
                                            ELSE IF Taken(m, "ne") THEN s ELSE q, 4)
          [] o.m = "msub" ->
             LET v == AluVal("sub", m.r[o.r], AluVal("mul", s, q, o.z), o.z)
             IN  PutReg(m, o.r, v, o.z)
          [] o.m = "div2" ->
             LET of(op) == AluVal(IF o.k = 1 THEN "s" \o op ELSE "u" \o op, m.r["rax"], s, 4)
             IN  [m EXCEPT !.r["rax"] = of("div"), !.r["rdx"] = of("rem")]
          [] o.m = "call" -> CallResult([m EXCEPT !.bad = @ \/ s # Val(CODE, 0)], callee)
          [] o.m = "frem" -> [m EXCEPT !.r = [x \in DOMAIN m.r |->
                                 IF x \in Preserved THEN m.r[x]
                                 ELSE IF x = o.r /\ fp2 THEN Val(s.b, FpOp("frem", s.n, q.n)) ELSE Undef]]
          [] o.m = "fld"  -> LET v == Load(m, at, o.z)
                             IN  PutReg([m EXCEPT !.bad = @ \/ BadAccess(m, at)], o.r,
                                        IF v.b \in {F64, F32} /\ FpWidth(v.b) = o.z THEN v ELSE Undef, 4)
          [] o.m = "fst"  -> Store(m, at, m.r[o.r], 4)
          [] o.m = "fzero" -> PutReg(m, o.r, Val(IF o.z = 4 THEN F64 ELSE F32, 0), 4)
          [] o.m = "fneg" -> PutReg(m, o.r, IF s.b \in {F64, F32} /\ FpWidth(s.b) = o.z
                                            THEN Val(s.b, Low(-s.n, 4)) ELSE Undef, 4)
          [] o.m \in FpOps -> PutReg(m, o.r, IF fp2 THEN Val(s.b, FpOp(o.m, s.n, q.n)) ELSE Undef, 4)
          [] o.m = "fcmp" -> IF fp2 THEN Flags(m, IntV(s.n), IntV(q.n), 4) ELSE Flags(m, Undef, Undef, 4)
          [] o.m = "cvt2fp" -> PutReg(m, o.r, IF s.b = INT THEN Val(IF o.z = 4 THEN F64 ELSE F32, s.n)
                                               ELSE Undef, 4)
          [] o.m = "cvt2si" -> PutReg(m, o.r, IF s.b \in {F64, F32} THEN IntV(s.n) ELSE Undef, 4)
          [] o.m = "fcvt" -> PutReg(m, o.r, IF s.b = (IF o.z = 4 THEN F32 ELSE F64)
                                            THEN Val(IF o.z = 4 THEN F64 ELSE F32, s.n) ELSE Undef, 4)

RECURSIVE RunFrom(_, _, _, _, _)
RunFrom(code, m, pc, callee, fuel) ==
    LET o == code[pc]
    IN  IF pc \notin DOMAIN code \/ fuel = 0 \/ m.bad THEN [m EXCEPT !.bad = TRUE]
        ELSE CASE o.m = "ret" -> m
               [] o.m = "retra" -> [m EXCEPT !.bad = m.r["ra"] # Val(CODE, 1)]
               [] o.m = "jmp" -> RunFrom(code, m, o.k, callee, fuel - 1)
               [] o.m = "jne" -> RunFrom(code, m, IF Taken(m, "ne") THEN o.k ELSE pc + 1, callee, fuel - 1)
               [] OTHER -> RunFrom(code, Exec(m, o, callee), pc + 1, callee, fuel - 1)

(* A machine about to enter the function with these argument registers;    *)
(* stack holds the words the caller pushed.                                *)
Entry(regs, stack, ext) ==
    [r |-> [x \in GpRegs \cup FpRegs |->
              CASE x = "rbp" -> FramePtr(0) [] x = "rsp" -> FramePtr(0) [] x = "ra" -> Val(CODE, 1)
                [] x \in DOMAIN regs -> regs[x] [] OTHER -> Undef],
     mem |-> [b \in {EXT, SRET, FRAME} |->
                [n \in MemRange(b) |-> CASE b = EXT -> ext[n + 1]
                                         [] b = FRAME /\ n >= 2 /\ n - 1 \in DOMAIN stack -> stack[n - 1]
                                         [] OTHER -> Undef]],
     fl |-> [a |-> Undef, c |-> Undef, z |-> 4],
     bad |-> FALSE]
================================================================================
