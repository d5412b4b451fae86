-------------------------------- MODULE IrTypes --------------------------------
(***************************************************************************)
(* The types of ir.h, the layout ir.c gives them, and the modules and      *)
(* functions that are printed and parsed as text.  A type is [k, n, sub,   *)
(* name]: kind, element count (or 1 for packed and for variadic), parts    *)
(* and the name of a named structure.                                      *)
(*                                                                         *)
(* A symbol is a pair of its visible name and its scope, 0 for none: the   *)
(* code appends the scope as ".__liric_local.<scope>".                     *)
(***************************************************************************)
EXTENDS Integers, Sequences, SequencesExt, FiniteSets

Ty(k, n, sub, name) == [k |-> k, n |-> n, sub |-> sub, name |-> name]
Scalar(k) == Ty(k, 0, <<>>, "")
Void == Scalar("void")
I1 == Scalar("i1")
I8 == Scalar("i8")
I16 == Scalar("i16")
I32 == Scalar("i32")
I64 == Scalar("i64")
Float == Scalar("float")
Double == Scalar("double")
Ptr == Scalar("ptr")
Array(n, elem) == Ty("array", n, <<elem>>, "")
Vector(n, elem) == Ty("vector", n, <<elem>>, "")
Struct(fields) == Ty("struct", 0, fields, "")
NamedStruct(name, fields) == Ty("struct", 0, fields, name)
FuncType(ret, params, vararg) == Ty("func", IF vararg THEN 1 ELSE 0, <<ret>> \o params, "")
(* A structure referred to by name, as the text does it.                   *)
TypeRef(name) == Ty("named", 0, <<>>, name)

IsInt(t) == t.k \in {"i1", "i8", "i16", "i32", "i64"}
IsFp(t) == t.k \in {"float", "double"}
IsSeq(t) == t.k \in {"array", "vector"}
IsAggregate(t) == t.k = "struct" \/ IsSeq(t)
IsPacked(t) == t.n = 1

ScalarSize(k) == CASE k \in {"i1", "i8"} -> 1 [] k = "i16" -> 2 [] k \in {"i32", "float"} -> 4
                   [] k \in {"i64", "double", "ptr"} -> 8 [] OTHER -> 0

AlignUp(n, a) == ((n + a - 1) \div a) * a
MaxOf(S) == CHOOSE x \in S : \A y \in S : x >= y

RECURSIVE lr_type_size(_), lr_type_align(_), FieldsEnd(_, _)

(* Where the first i fields of a structure end.                            *)
FieldsEnd(t, i) ==
    IF i = 0 THEN 0
    ELSE (IF IsPacked(t) THEN FieldsEnd(t, i - 1)
          ELSE AlignUp(FieldsEnd(t, i - 1), lr_type_align(t.sub[i]))) + lr_type_size(t.sub[i])

lr_type_align(t) ==
    CASE t.k = "array"  -> lr_type_align(t.sub[1])
      [] t.k = "vector" -> MaxOf({1, t.n * lr_type_size(t.sub[1]), lr_type_align(t.sub[1])})
      [] t.k = "struct" -> IF IsPacked(t) THEN 1
                           ELSE MaxOf({1} \cup {lr_type_align(t.sub[i]) : i \in DOMAIN t.sub})
      [] OTHER -> MaxOf({1, ScalarSize(t.k)})

lr_type_size(t) ==
    CASE IsSeq(t) -> t.n * lr_type_size(t.sub[1])
      [] t.k = "struct" -> IF IsPacked(t) \/ t.sub = <<>> THEN FieldsEnd(t, Len(t.sub))
                           ELSE AlignUp(FieldsEnd(t, Len(t.sub)), lr_type_align(t))
      [] OTHER -> ScalarSize(t.k)

(* Fields are counted from 0, as in the code.                              *)
lr_struct_field_offset(t, i) ==
    IF IsPacked(t) THEN FieldsEnd(t, i)
    ELSE AlignUp(FieldsEnd(t, i), lr_type_align(t.sub[i + 1]))

(* lr_aggregate_index_path: the type an index path leads to, {} if none.   *)
RECURSIVE IndexPath(_, _)
IndexPath(t, idx) ==
    IF idx = <<>> THEN {t}
    ELSE IF t.k = "struct" /\ Head(idx) < Len(t.sub) THEN IndexPath(t.sub[Head(idx) + 1], Tail(idx))
    ELSE IF IsSeq(t) /\ Head(idx) < t.n THEN IndexPath(t.sub[1], Tail(idx))
    ELSE {}

---------------------------------------------------------------------------
(* Operands, instructions and functions.  o holds the parts of a constant  *)
(* expression, which only text has; s is a name, n a number.               *)

Opnd(k, n, t, s) == [k |-> k, n |-> n, t |-> t, s |-> s, o |-> <<>>]
NoName == <<"(none)", 0>>
VRegOp(n, t) == Opnd("vreg", n, t, NoName)
ImmOp(n, t) == Opnd("imm", n, t, NoName)
FpOp(n, t) == Opnd("fp", n, t, NoName)
BlockOp(id) == Opnd("block", id, Void, NoName)
GlobalOp(sym, off, t) == Opnd("global", off, t, sym)
NullOp(t) == Opnd("null", 0, t, NoName)
UndefOp(t) == Opnd("undef", 0, t, NoName)

InstOf(op, d, t, o) ==
    [op |-> op, d |-> d, t |-> t, o |-> o, idx |-> <<>>, p |-> "", va |-> FALSE, fixed |-> 0]

CastOps == {"sext", "zext", "trunc", "bitcast", "ptrtoint", "inttoptr",
            "sitofp", "uitofp", "fptosi", "fptoui", "fpext", "fptrunc"}
BinaryOps == {"add", "sub", "mul", "sdiv", "srem", "udiv", "urem", "and", "or", "xor",
              "shl", "lshr", "ashr", "fadd", "fsub", "fmul", "fdiv", "frem"}
TerminatorOps == {"ret", "retvoid", "br", "condbr", "unreachable"}

(* lr_gep_analyze_step: the type below an index, and the bytes it scales.  *)
GepNext(t, first, op) ==
    IF first THEN t
    ELSE IF t.k = "struct" THEN (IF op.n < Len(t.sub) THEN t.sub[op.n + 1] ELSE t)
    ELSE IF IsSeq(t) THEN t.sub[1] ELSE t
GepScale(t, first) == lr_type_size(IF ~first /\ IsSeq(t) THEN t.sub[1] ELSE t)

BlockOf(label, insts) == [label |-> label, insts |-> insts]
FuncOf(name, ret, params, pv, va, blocks) ==
    [name |-> name, ret |-> ret, params |-> params, pv |-> pv, va |-> va, blocks |-> blocks]
RelocOf(off, sym, add) == [off |-> off, sym |-> sym, add |-> add]
GlobalOf(name, t, const, ext, bytes, relocs) ==
    [name |-> name, t |-> t, const |-> const, ext |-> ext, bytes |-> bytes, relocs |-> relocs]
ModuleOf(globals, funcs) == [globals |-> globals, funcs |-> funcs]

IsDecl(f) == f.blocks = <<>>
GlobalsNamed(m, sym) == {g \in Range(m.globals) : g.name = sym}
FuncsNamed(m, sym) == {f \in Range(m.funcs) : f.name = sym}
FirstNamed(seq, sym) == seq[SelectInSeq(seq, LAMBDA x : x.name = sym)]

(* Little-endian bytes of a small number, and the signed number back.      *)
ToBytes(n, size) ==
    [i \in 1..size |-> IF i <= 4 THEN (n \div (256 ^ (i - 1))) % 256 ELSE IF n < 0 THEN 255 ELSE 0]
RECURSIVE LeNat(_)
LeNat(b) == IF b = <<>> THEN 0 ELSE Head(b) + 256 * LeNat(Tail(b))
LeInt(b) == IF b # <<>> /\ b[Len(b)] >= 128
            THEN -(1 + LeNat([i \in DOMAIN b |-> 255 - b[i]])) ELSE LeNat(b)
Zeros(n) == [i \in 1..n |-> 0]
Overwrite(buf, off, b) ==
    [i \in DOMAIN buf |-> IF i > off /\ i <= off + Len(b) THEN b[i - off] ELSE buf[i]]
================================================================================
