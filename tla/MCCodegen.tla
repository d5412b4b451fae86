-------------------------------- MODULE MCCodegen -------------------------------
(***************************************************************************)
(* The functions the code generator is checked on: every pair of integer   *)
(* instructions of three widths, sequences of memory operations and calls, *)
(* floating point, aggregates, and control flow with phis.                 *)
(***************************************************************************)
EXTENDS Codegen

NoCallee == [body |-> TRUE, llvmabi |-> FALSE, vararg |-> FALSE, cls |-> <<>>, ret |-> "i64"]
Func(params, ret, blocks, callee, llvmabi, obj) ==
    [params |-> params, ret |-> ret, blocks |-> blocks, next |-> 16,
     callee |-> callee, llvmabi |-> llvmabi, obj |-> obj, target |-> "x86_64", stream |-> FALSE]

I(op, d, t, o) == Inst(op, d, t, o, "", 0)
P(op, d, t, o, p) == Inst(op, d, t, o, p, 0)
X(op, d, t, o, i) == Inst(op, d, t, o, "", i)
Ret(o) == I("ret", 0, "void", <<o>>)
Br(b) == I("br", 0, "void", <<Block(b)>>)
CondBr(o, t, f) == I("condbr", 0, "void", <<o, Block(t), Block(f)>>)
FuncOp == [k |-> "func", n |-> 0, t |-> "ptr"]

P3(t) == <<VReg(1, t), VReg(2, t), VReg(3, "ptr")>>

---------------------------------------------------------------------------
(* Two integer instructions of one width.                                  *)

First(t) ==
    {I(op, 4, t, o) : op \in BinOps \ {"shl", "lshr", "ashr"},
                      o \in {<<VReg(1, t), VReg(2, t)>>}
                            \cup IF t = "i32" THEN {<<VReg(2, t), Imm(-1, t)>>, <<Imm(1, t), Imm(-1, t)>>} ELSE {}}
    \cup {I(op, 4, t, <<VReg(1, t), Imm(1, t)>>) : op \in {"shl", "lshr", "ashr"}}
    \cup {I("load", 4, t, <<VReg(3, "ptr")>>)}

Second(t) ==
    {<<I(op, 5, t, <<VReg(4, t), VReg(1, t)>>), Ret(VReg(5, t))>> : op \in {"add", "sdiv", "urem", "mul"}}
    \cup {<<I(op, 5, t, <<VReg(4, t), Imm(1, t)>>), Ret(VReg(5, t))>> : op \in {"lshr", "ashr"}}
    \cup {<<I("sub", 5, t, <<VReg(2, t), VReg(4, t)>>), Ret(VReg(5, t))>>,
          <<I("sext", 5, "i64", <<VReg(4, t)>>), Ret(VReg(5, "i64"))>>,
          <<I("zext", 5, "i64", <<VReg(4, t)>>), Ret(VReg(5, "i64"))>>,
          <<I("trunc", 5, "i8", <<VReg(4, t)>>), I("zext", 6, "i64", <<VReg(5, "i8")>>), Ret(VReg(6, "i64"))>>,
          <<I("store", 0, "void", <<VReg(4, t), VReg(3, "ptr")>>), I("load", 5, t, <<VReg(3, "ptr")>>), Ret(VReg(5, t))>>,
          <<I("gep", 5, "ptr", <<VReg(3, "ptr"), Imm(1, "i64")>>),
            I("store", 0, "void", <<VReg(4, t), VReg(5, "ptr")>>), Ret(VReg(1, t))>>,
          <<P("icmp", 5, "i1", <<VReg(4, t), VReg(2, t)>>, "ult"), I("zext", 6, "i64", <<VReg(5, "i1")>>), Ret(VReg(6, "i64"))>>,
          <<P("icmp", 5, "i1", <<VReg(4, t), VReg(1, t)>>, "sge"),
            I("select", 6, t, <<VReg(5, "i1"), VReg(2, t), VReg(4, t)>>), Ret(VReg(6, t))>>,
          <<P("icmp", 5, "i1", <<VReg(4, t), VReg(4, t)>>, "eq"),
            I("select", 6, t, <<VReg(5, "i1"), Imm(0, t), VReg(5, t)>>), Ret(VReg(6, t))>>}

RetType(b) == LET r == b[Len(b)].o[1] IN r.t
IntPrograms ==
    UNION {{Func(P3(t), RetType(b), <<(<<a>> \o b)>>, NoCallee, FALSE, FALSE) : a \in First(t), b \in Second(t)}
             : t \in {"i8", "i32", "i64"}}

---------------------------------------------------------------------------
(* Memory: an alloca and the memory behind the parameter, with loads that  *)
(* may be reused, stores and calls between them.                           *)

Int2(body) == [NoCallee EXCEPT !.body = body, !.cls = <<"g", "g", "g">>]
MemOps(i) ==
    {I("store", 0, "void", <<VReg(1, "i64"), VReg(4, "ptr")>>),
     I("store", 0, "void", <<VReg(2, "i64"), VReg(3, "ptr")>>),
     I("store", 0, "void", <<Imm(3, "i8"), VReg(4, "ptr")>>),
     I("load", 6 + i, "i64", <<VReg(3, "ptr")>>),
     I("load", 6 + i, "i64", <<VReg(4, "ptr")>>),
     I("call", 6 + i, "i64", <<FuncOp, VReg(2, "i64"), VReg(1, "i64"), Imm(2, "i64")>>)}
MemPrograms ==
    {Func(P3("i64"), "i64",
          << <<I("alloca", 4, "i64", <<>>), I("store", 0, "void", <<Imm(7, "i64"), VReg(4, "ptr")>>),
               a, c, I("load", 9, "i64", <<VReg(4, "ptr")>>), I("load", 10, "i64", <<VReg(3, "ptr")>>),
               d, I("load", 12, "i64", <<VReg(4, "ptr")>>), I("mul", 13, "i64", <<VReg(9, "i64"), VReg(10, "i64")>>),
               I("sub", 14, "i64", <<VReg(13, "i64"), VReg(12, "i64")>>), Ret(VReg(14, "i64"))>> >>,
          Int2(d.op = "load"), FALSE, d.op = "load") : a \in MemOps(1), c \in MemOps(2), d \in MemOps(5)}
DynAlloca ==
    {Func(<<VReg(1, "i64"), VReg(2, "i64")>>, "i64",
          << <<I("alloca", 4, "i64", <<Imm(2, "i64")>>), I("and", 5, "i64", <<VReg(1, "i64"), Imm(1, "i64")>>),
               I("alloca", 6, "i64", <<VReg(5, "i64")>>),
               I("store", 0, "void", <<VReg(1, "i64"), VReg(6, "ptr")>>),
               I("gep", 7, "ptr", <<VReg(4, "ptr"), VReg(5, "i64")>>),
               I("store", 0, "void", <<VReg(2, "i64"), VReg(7, "ptr")>>),
               I("call", 8, "i64", <<FuncOp, VReg(1, "i64"), Imm(1, "i64"), VReg(2, "i64")>>),
               I("load", 9, "i64", <<VReg(o, "ptr")>>), I("add", 10, "i64", <<VReg(8, "i64"), VReg(9, "i64")>>),
               Ret(VReg(10, "i64"))>> >>, Int2(TRUE), FALSE, FALSE) : o \in {6, 7}}

---------------------------------------------------------------------------
(* Calls: both conventions, a mix of classes, more arguments than          *)
(* registers, variable arguments, a result through a hidden pointer.       *)

Arg(c, n) == IF c = "f" THEN (IF n = 2 THEN Imm(3, "f64") ELSE VReg(3, "f64"))
             ELSE (IF n = 2 THEN Imm(2, "i64") ELSE VReg((n % 2) + 1, "i64"))
Classes == {<<"g">>, <<"f">>, <<"g", "f">>, <<"f", "g", "f">>, <<"g", "g", "g", "f">>, <<"f", "f", "g", "f">>}
CallPrograms ==
    {Func(<<VReg(1, "i64"), VReg(2, "i64"), VReg(3, "f64")>>, "i64",
          << <<I("add", 4, "i64", <<VReg(1, "i64"), VReg(2, "i64")>>),
               I("call", 5, "i64", <<FuncOp>> \o [n \in DOMAIN cls |-> Arg(cls[n], n)]),
               I("add", 6, "i64", <<VReg(5, "i64"), VReg(4, "i64")>>), Ret(VReg(6, "i64"))>> >>,
          [body |-> k[1], llvmabi |-> k[2], vararg |-> k[3], cls |-> cls, ret |-> "i64"], a, FALSE)
        : cls \in Classes, a \in BOOLEAN,
          k \in {<<TRUE, FALSE, FALSE>>, <<TRUE, TRUE, FALSE>>, <<FALSE, FALSE, FALSE>>, <<FALSE, FALSE, TRUE>>}}
AggCall ==
    {Func(<<VReg(1, "i64"), VReg(2, "i64")>>, r[1],
          << <<I("call", 5, "agg", <<FuncOp, VReg(2, "i64"), VReg(1, "i64")>>),
               X("insertvalue", 6, "agg", <<b, VReg(1, "i64")>>, 1),
               X("extractvalue", 7, "i64", <<VReg(5, "agg")>>, 1),
               I("add", 8, "i64", <<VReg(7, "i64"), VReg(1, "i64")>>), Ret(r[2])>> >>,
          [NoCallee EXCEPT !.cls = <<"g", "g">>, !.ret = "agg"], FALSE, FALSE)
        : r \in {<<"i64", VReg(8, "i64")>>, <<"agg", VReg(5, "agg")>>, <<"agg", VReg(6, "agg")>>},
          b \in {VReg(5, "agg"), UndefOp("agg")}}

---------------------------------------------------------------------------
(* Floating point, in both conventions; f1 and f2 are doubles.             *)

FpFirst == {I(op, 4, "f64", <<VReg(1, "f64"), o>>) : op \in FpOps \cup {"frem"}, o \in {VReg(2, "f64"), Imm(2, "f64")}}
           \cup {I("fneg", 4, "f64", <<VReg(1, "f64")>>), I("load", 4, "f64", <<VReg(5, "ptr")>>)}
FpSecond ==
    {<<I("fadd", 6, "f64", <<VReg(4, "f64"), VReg(1, "f64")>>), Ret(VReg(6, "f64"))>>,
     <<I("fptosi", 6, "i64", <<VReg(4, "f64")>>), I("add", 7, "i64", <<VReg(6, "i64"), VReg(3, "i64")>>),
       I("sitofp", 8, "f64", <<VReg(7, "i64")>>), Ret(VReg(8, "f64"))>>,
     <<P("fcmp", 6, "i1", <<VReg(4, "f64"), VReg(2, "f64")>>, "ult"),
       I("select", 7, "i64", <<VReg(6, "i1"), VReg(3, "i64"), Imm(0, "i64")>>),
       I("uitofp", 8, "f64", <<VReg(6, "i1")>>), I("fptosi", 9, "i64", <<VReg(8, "f64")>>),
       I("add", 10, "i64", <<VReg(9, "i64"), VReg(7, "i64")>>), I("sitofp", 11, "f64", <<VReg(10, "i64")>>), Ret(VReg(11, "f64"))>>,
     <<I("fptrunc", 6, "f32", <<VReg(4, "f64")>>), I("fmul", 7, "f32", <<VReg(6, "f32"), VReg(6, "f32")>>),
       I("fpext", 8, "f64", <<VReg(7, "f32")>>), Ret(VReg(8, "f64"))>>}
FpPrograms ==
    {Func(<<VReg(1, "f64"), VReg(2, "f64"), VReg(3, "i64")>>, "f64",
          << <<I("alloca", 5, "f64", <<>>), I("store", 0, "void", <<VReg(2, "f64"), VReg(5, "ptr")>>), a>> \o b >>,
          NoCallee, l, FALSE) : a \in FpFirst, b \in FpSecond, l \in BOOLEAN}
FpAggPrograms ==
    {Func(<<VReg(1, "f64"), VReg(2, "f64"), VReg(3, "f64")>>, "fagg",
          << <<I("alloca", 4, "fagg", <<>>), I("store", 0, "void", <<VReg(1, "f64"), VReg(4, "ptr")>>),
               I("gep", 5, "ptr", <<VReg(4, "ptr"), Imm(1, "i64")>>),
               I("store", 0, "void", <<VReg(3, "f64"), VReg(5, "ptr")>>),
               I("load", 6, "fagg", <<VReg(4, "ptr")>>),
               I("fadd", 7, "fagg", <<VReg(6, "fagg"), VReg(6, "fagg")>>), Ret(VReg(r, "fagg"))>> >>,
          NoCallee, l, FALSE) : r \in {6, 7}, l \in BOOLEAN}

---------------------------------------------------------------------------
(* Control flow: a diamond, a loop whose phis exchange their values, an    *)
(* edge from a branch to its own block, both edges to one block.           *)

P2 == <<VReg(1, "i64"), VReg(2, "i64")>>
Phi(d, t, o) == I("phi", d, t, o)
Diamond ==
    {Func(P2, "i64",
          << <<P("icmp", 3, "i1", <<VReg(1, "i64"), q>>, "slt"), CondBr(VReg(3, "i1"), 2, e)>>,
             <<I("mul", 4, "i64", <<VReg(1, "i64"), VReg(2, "i64")>>), Br(4)>>,
             <<I("sub", 5, "i64", <<VReg(1, "i64"), VReg(2, "i64")>>), Br(4)>>,
             <<Phi(6, "i64", <<VReg(4, "i64"), Block(2)>> \o IF e = 3 THEN <<x, Block(3)>> ELSE <<VReg(2, "i64"), Block(1)>>),
               Phi(7, "i64", <<VReg(2, "i64"), Block(2)>> \o IF e = 3 THEN <<VReg(5, "i64"), Block(3)>> ELSE <<x, Block(1)>>),
               I("sub", 8, "i64", <<VReg(6, "i64"), VReg(7, "i64")>>), Ret(VReg(8, "i64"))>> >>,
          NoCallee, FALSE, FALSE)
        : q \in {VReg(2, "i64"), Imm(0, "i64")}, e \in {3, 4}, x \in {VReg(1, "i64"), Imm(5, "i64")}}
Loop ==
    {Func(P2, "i64",
          << <<Br(2)>>,
             <<Phi(3, "i64", <<VReg(1, "i64"), Block(1), VReg(4, "i64"), Block(b)>>),
               Phi(4, "i64", <<VReg(2, "i64"), Block(1), VReg(3, "i64"), Block(b)>>),
               Phi(5, "i64", <<Imm(0, "i64"), Block(1), VReg(6, "i64"), Block(b)>>),
               I("add", 6, "i64", <<VReg(5, "i64"), Imm(1, "i64")>>),
               P("icmp", 7, "i1", <<VReg(6, "i64"), Imm(n, "i64")>>, "ult"),
               CondBr(VReg(7, "i1"), b, 3)>>,
             <<I("sub", 8, "i64", <<VReg(3, "i64"), VReg(4, "i64")>>), Ret(VReg(8, "i64"))>> >>
          \o (IF b = 4 THEN << <<Br(2)>> >> ELSE <<>>),
          NoCallee, FALSE, FALSE) : b \in {2, 4}, n \in {1, 3}}
AggLoop ==
    {Func(P2, "i64",
          << <<X("insertvalue", 3, "agg", <<UndefOp("agg"), VReg(1, "i64")>>, 0),
               X("insertvalue", 4, "agg", <<VReg(3, "agg"), VReg(2, "i64")>>, 1), Br(2)>>,
             <<Phi(5, "agg", <<VReg(4, "agg"), Block(1), VReg(8, "agg"), Block(2)>>),
               X("extractvalue", 6, "i64", <<VReg(5, "agg")>>, 0),
               X("extractvalue", 7, "i64", <<VReg(5, "agg")>>, 1),
               X("insertvalue", 8, "agg", <<VReg(5, "agg"), VReg(7, "i64")>>, 0),
               P("icmp", 9, "i1", <<VReg(6, "i64"), VReg(7, "i64")>>, "eq"),
               CondBr(VReg(9, "i1"), 3, 2)>>,
             <<Ret(VReg(6, "i64"))>> >>, NoCallee, FALSE, FALSE)}
SameTarget ==
    {Func(P2, "i64",
          << <<P("icmp", 3, "i1", <<VReg(1, "i64"), VReg(2, "i64")>>, "ne"), CondBr(VReg(3, "i1"), 3, 3)>>,
             <<>>,
             <<Phi(4, "i64", <<VReg(2, "i64"), Block(1)>>), Ret(VReg(4, "i64"))>> >>, NoCallee, FALSE, FALSE)}
(* An address in a select: the global with an offset while no object file  *)
(* is written.                                                             *)
SelectGlobal(off, obj) ==
    Func(P2, "i64",
         << <<P("icmp", 3, "i1", <<VReg(1, "i64"), VReg(2, "i64")>>, "ult"),
              I("alloca", 4, "i64", <<>>), I("store", 0, "void", <<VReg(1, "i64"), VReg(4, "ptr")>>),
              I("select", 5, "ptr", <<VReg(3, "i1"), VReg(4, "ptr"), Global(off)>>),
              I("load", 6, "i64", <<VReg(5, "ptr")>>), Ret(VReg(6, "i64"))>> >>, NoCallee, FALSE, obj)

ControlPrograms == Diamond \cup Loop \cup AggLoop \cup SameTarget
                   \cup {SelectGlobal(0, TRUE), SelectGlobal(1, FALSE)}

(* A latch listed before the header it jumps back to.                      *)
Rotated ==
    {Func(P2, "i64",
          << <<Br(3)>>,
             <<I("add", 6, "i64", <<VReg(5, "i64"), Imm(1, "i64")>>), Br(3)>>,
             <<Phi(3, "i64", <<VReg(1, "i64"), Block(1), VReg(4, "i64"), Block(2)>>),
               Phi(4, "i64", <<VReg(2, "i64"), Block(1), VReg(3, "i64"), Block(2)>>),
               Phi(5, "i64", <<Imm(0, "i64"), Block(1), VReg(6, "i64"), Block(2)>>),
               P("icmp", 7, "i1", <<VReg(5, "i64"), Imm(1, "i64")>>, "ult"),
               CondBr(VReg(7, "i1"), 2, 4)>>,
             <<I("sub", 8, "i64", <<VReg(3, "i64"), VReg(4, "i64")>>), Ret(VReg(8, "i64"))>> >>,
          NoCallee, FALSE, FALSE)}

---------------------------------------------------------------------------
(* The pool on each target.                                                *)

Pool == IntPrograms \cup MemPrograms \cup DynAlloca \cup CallPrograms \cup AggCall
        \cup FpPrograms \cup FpAggPrograms \cup ControlPrograms \cup Rotated

On(ps, target) == {[f EXCEPT !.target = target, !.obj = @ \/ target # "x86_64"] : f \in ps}
Streamed(ps) == {[f EXCEPT !.stream = TRUE, !.next = Len(f.params) + 1] : f \in ps}

Ops(f) == UNION {{[op |-> inst.op, t |-> inst.t] : inst \in Range(f.blocks[b])} : b \in DOMAIN f.blocks}
Has(f, ops, types) == \E x \in Ops(f) : x.op \in ops /\ x.t \in types

(* aarch64: the right shifts and remainders of an i8 and the arithmetic of *)
(* two-lane aggregates are wrong there, an aggregate is not returned.      *)
RightShifts == {"lshr", "ashr"}
OnAarch64 == On({f \in Pool : /\ ~Has(f, RightShifts \cup {"urem", "udiv"}, {"i8"})
                              /\ ~Has(f, {"fadd"}, {"fagg"}) /\ ~Has(f, {"call"}, {"agg"})
                              /\ f.ret # "agg"}, "aarch64")

(* riscv64: full registers; nothing is kept in a temporary over a call.    *)
RvCall ==
    {Func(<<VReg(1, "i64"), VReg(2, "f64")>>, "i64",
          << <<I("call", 5, "i64", <<FuncOp>> \o [n \in DOMAIN cls |->
                   IF cls[n] = "f" THEN VReg(2, "f64") ELSE IF n = 1 THEN VReg(1, "i64") ELSE Imm(2, "i64")]),
               I("mul", 6, "i64", <<VReg(5, "i64"), VReg(5, "i64")>>), Ret(VReg(6, "i64"))>> >>,
          [body |-> FALSE, llvmabi |-> FALSE, vararg |-> FALSE, cls |-> cls, ret |-> "i64"], TRUE, TRUE)
        : cls \in {<<"g">>, <<"f">>, <<"g", "f">>, <<"f", "g">>, <<"g", "g">>, <<"g", "g", "g">>}}
Full(f) == \A i \in DOMAIN f.params : f.params[i].t \notin {"i8", "i32"}
OnRiscv64 == On({f \in IntPrograms : Full(f) /\ ~Has(f, {"trunc"}, {"i8"})} \cup RvCall
                \cup {f \in FpPrograms : f.llvmabi} \cup Diamond, "riscv64")

(* Streaming: x86 loses the copies of a conditional branch whose two edges *)
(* lead to one block, aarch64 the order of copies into a header that is    *)
(* listed after its latch.                                                 *)
Branching == Diamond \cup Loop \cup AggLoop \cup {SelectGlobal(0, TRUE)}
OnStream == Streamed(Branching \cup Rotated \cup DynAlloca \cup FpAggPrograms)
            \cup Streamed(On(Branching \cup SameTarget, "aarch64"))

MCPrograms == Pool \cup OnAarch64 \cup OnRiscv64 \cup OnStream

================================================================================
