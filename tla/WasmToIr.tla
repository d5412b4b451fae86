-------------------------------- MODULE WasmToIr --------------------------------
(***************************************************************************)
(* wasm_to_ir.c: the functions of a decoded file become functions of the   *)
(* IR.  Locals live in slots, operands are registers on a stack kept while *)
(* converting, blocks of the source become blocks with a continuation, and *)
(* the result of a block goes through a slot of its own.  Then the module  *)
(* is replayed into a session.                                             *)
(*                                                                         *)
(* Before that, wasm_decode.c: the sections of a file read into tables.    *)
(* Bytes are 0..255, names are sequences of bytes.  A reader takes a       *)
(* cursor and returns it moved, with the value read.                       *)
(***************************************************************************)
EXTENDS IrTypes, FiniteSetsExt, TLC

(* Two's complement of the low bits of n.                                  *)
LowBits(n, bits) ==
    LET u == n % (2 ^ bits) IN IF u >= 2 ^ (bits - 1) THEN u - 2 ^ bits ELSE u

(* The last group of seven bits: the bits that still fit the width, or the *)
(* sign.  Unsigned numbers are identified with the signed of equal bits.   *)
LastGroup(g, k, width, signed) ==
    LET room == width - 7 * (k - 1)
    IN  IF room < 7 THEN LowBits(g, room)
        ELSE IF signed /\ g >= 64 THEN g - 128 ELSE g

RECURSIVE Groups(_, _, _, _, _)
Groups(b, i, n, width, signed) ==
    IF i = n THEN LastGroup(b[i] % 128, n, width, signed)
    ELSE (b[i] % 128) + 128 * Groups(b, i + 1, n, width, signed)

(* How many bytes the number has, 0 if none is read.  The signed readers   *)
(* take a number that ends with the input.                                 *)
LebLen(b, width, signed) ==
    LET most == (width + 6) \div 7
        ends == {i \in 1..Min({Len(b), most}) : b[i] < 128}
    IN  IF ends # {} THEN Min(ends)
        ELSE IF signed /\ Len(b) \in 1..(most - 1) THEN Len(b) ELSE 0

read_leb(b, width, signed) ==
    LET n == LebLen(b, width, signed)
    IN  [n |-> n, v |-> IF n = 0 THEN 0 ELSE Groups(b, 1, n, width, signed)]

lr_wasm_read_leb_u32(b) == read_leb(b, 32, FALSE)
lr_wasm_read_leb_i32(b) == read_leb(b, 32, TRUE)
lr_wasm_read_leb_i64(b) == read_leb(b, 64, TRUE)

---------------------------------------------------------------------------
(* Cursors.                                                                *)

ByteCursor(data) == [data |-> data, pos |-> 1, failed |-> FALSE]
Rest(c) == SubSeq(c.data, c.pos, Len(c.data))
Took(c, v) == [c |-> c, v |-> v]
FailAt(c) == [c EXCEPT !.failed = TRUE]

cur_u8(c) ==
    IF c.pos > Len(c.data) THEN Took(FailAt(c), 0) ELSE Took([c EXCEPT !.pos = @ + 1], c.data[c.pos])

LebAt(c, r) == IF r.n = 0 THEN Took(FailAt(c), 0) ELSE Took([c EXCEPT !.pos = @ + r.n], r.v)
cur_u32(c) == LebAt(c, lr_wasm_read_leb_u32(Rest(c)))
cur_i32(c) == LebAt(c, lr_wasm_read_leb_i32(Rest(c)))
cur_i64(c) == LebAt(c, lr_wasm_read_leb_i64(Rest(c)))

cur_bytes(c, n) ==
    IF c.pos + n > Len(c.data) + 1 THEN Took(FailAt(c), <<>>)
    ELSE Took([c EXCEPT !.pos = @ + n], SubSeq(c.data, c.pos, c.pos + n - 1))

(* What is read after r, at the cursor r leaves.                           *)
Then(r, More(_, _)) == More(r.c, r.v)
cur_name(c) == Then(cur_u32(c), cur_bytes)

(* n values, each taken by the reader.                                     *)
AddTo(list, r) == Took(r.c, Append(list, r.v))
Many(c, n, Read(_)) ==
    FoldLeft(LAMBDA acc, i : IF acc.c.failed THEN acc ELSE AddTo(acc.v, Read(acc.c)),
             Took(c, <<>>), [i \in 1..n |-> i])
Counted(c, Read(_)) == Then(cur_u32(c), LAMBDA c1, n : Many(c1, n, Read))

---------------------------------------------------------------------------
(* The sections.                                                           *)

decode_type(c) ==
    Then(cur_u8(c), LAMBDA c1, form :
        IF form # 96 THEN Took(FailAt(c), 0)
        ELSE Then(Counted(c1, cur_u8), LAMBDA c2, params :
             Then(Counted(c2, cur_u8), LAMBDA c3, results :
                  Took(c3, [params |-> params, results |-> results]))))

(* Of a memory the limits are read, of a table only what stands before     *)
(* them and one number.                                                    *)
decode_memory(c) ==
    Then(cur_u8(c), LAMBDA c1, flags :
    Then(cur_u32(c1), LAMBDA c2, low :
        IF flags % 2 = 1 THEN Then(cur_u32(c2), LAMBDA c3, high : Took(c3, <<low, high>>))
        ELSE Took(c2, <<low>>)))

ImportEntry(c, name, kind) ==
    LET entry(t) == [name |-> name, kind |-> kind, type |-> t]
    IN  CASE kind = 0 -> Then(cur_u32(c), LAMBDA c1, t : Took(c1, entry(t)))
          [] kind = 1 -> Took(cur_u32(cur_u8(c).c).c, entry(0))
          [] kind = 2 -> Took(decode_memory(c).c, entry(0))
          [] kind = 3 -> Took(cur_u8(cur_u8(c).c).c, entry(0))
          [] OTHER -> Took(FailAt(c), entry(0))
decode_import(c) ==
    Then(cur_name(c), LAMBDA c1, mod :
    Then(cur_name(c1), LAMBDA c2, name :
    Then(cur_u8(c2), LAMBDA c3, kind : ImportEntry(c3, name, kind))))

(* A constant and the end; a segment's offset is never wide, and anything  *)
(* else counts as zero.                                                    *)
Constant(c, op, wide) ==
    CASE op = 65 -> cur_i32(c) [] op = 66 /\ wide -> cur_i64(c) [] OTHER -> Took(c, 0)
InitExpr(c, wide) ==
    Then(cur_u8(c), LAMBDA c1, op :
    Then(Constant(c1, op, wide), LAMBDA c2, val :
    Then(cur_u8(c2), LAMBDA c3, end : Took(IF end = 11 THEN c3 ELSE FailAt(c3), val))))

decode_global(c) ==
    Then(cur_u8(c), LAMBDA c1, t :
    Then(cur_u8(c1), LAMBDA c2, mut :
    Then(InitExpr(c2, TRUE), LAMBDA c3, init :
         Took(c3, [type |-> t, mutable |-> mut # 0, init |-> init]))))

decode_export(c) ==
    Then(cur_name(c), LAMBDA c1, name :
    Then(cur_u8(c1), LAMBDA c2, kind :
    Then(cur_u32(c2), LAMBDA c3, index :
         Took(c3, [name |-> name, kind |-> kind, index |-> index]))))

decode_group(c) ==
    Then(cur_u32(c), LAMBDA c1, n : Then(cur_u8(c1), LAMBDA c2, t : Took(c2, [count |-> n, type |-> t])))

(* The body is what the declarations leave of the entry's bytes.           *)
decode_code(c) ==
    Then(cur_u32(c), LAMBDA c1, size :
    Then(Counted(c1, decode_group), LAMBDA c2, groups :
         Took([c2 EXCEPT !.pos = c1.pos + size],
              [groups |-> groups, body |-> SubSeq(c.data, c2.pos, c1.pos + size - 1)])))

decode_data(c) ==
    Then(cur_u32(c), LAMBDA c1, flags :
    Then(IF flags % 4 >= 2 THEN cur_u32(c1) ELSE Took(c1, 0), LAMBDA c2, mem :
    Then(IF flags % 2 = 0 THEN InitExpr(c2, FALSE) ELSE Took(c2, 0), LAMBDA c3, off :
    Then(cur_name(c3), LAMBDA c4, bytes :
         Took(c4, [mem |-> mem, offset |-> off, bytes |-> bytes])))))

---------------------------------------------------------------------------
(* lr_wasm_decode: magic and version, then one section after the other.    *)

EmptyWasm == [types |-> <<>>, imports |-> <<>>, funcs |-> <<>>, memories |-> <<>>,
              globals |-> <<>>, exports |-> <<>>, codes |-> <<>>, data |-> <<>>]
Magic == <<0, 97, 115, 109, 1, 0, 0, 0>>

decode_start(data) ==
    IF SubSeq(data, 1, 8) = Magic THEN [ByteCursor(data) EXCEPT !.pos = 9] ELSE FailAt(ByteCursor(data))

(* A section replaces what an earlier one of its kind left.                *)
SectionTables ==
    1 :> "types" @@ 2 :> "imports" @@ 3 :> "funcs" @@ 5 :> "memories" @@ 6 :> "globals"
      @@ 7 :> "exports" @@ 10 :> "codes" @@ 11 :> "data"
Contents(c, id) ==
    CASE id = 1 -> Counted(c, decode_type)
      [] id = 2 -> Counted(c, decode_import)
      [] id = 3 -> Counted(c, cur_u32)
      [] id = 5 -> Counted(c, decode_memory)
      [] id = 6 -> Counted(c, decode_global)
      [] id = 7 -> Counted(c, decode_export)
      [] id = 10 -> Counted(c, decode_code)
      [] id = 11 -> Counted(c, decode_data)
      [] OTHER -> Took(c, <<>>)
decode_section(c, m) ==
    Then(cur_u8(c), LAMBDA c1, id :
    Then(cur_u32(c1), LAMBDA c2, size :
    Then(Contents([c2 EXCEPT !.data = SubSeq(@, 1, c2.pos + size - 1)], id), LAMBDA c3, table :
         Took([c EXCEPT !.pos = c2.pos + size, !.failed = c2.failed \/ c3.failed],
              IF id \in DOMAIN SectionTables THEN [m EXCEPT ![SectionTables[id]] = table] ELSE m))))

---------------------------------------------------------------------------
(* wasm_to_ir.c                                                            *)

CONSTANTS
    MaxStack,   \* the operands the converter has room for
    MaxCtrl     \* the nesting it has room for

ASSUME LimitsAssumption == MaxStack \in Nat \ {0} /\ MaxCtrl \in Nat \ {0}

wasm_to_lr_type(vt) ==
    CASE vt = 127 -> I32 [] vt = 126 -> I64 [] vt = 125 -> Float [] vt = 124 -> Double [] OTHER -> I32
FuncResult(ft) == IF ft.results = <<>> THEN Void ELSE wasm_to_lr_type(ft.results[1])
ParamsOf(ft) == [i \in DOMAIN ft.params |-> wasm_to_lr_type(ft.params[i])]
FuncImports(w) == SelectSeq(w.imports, LAMBDA x : x.kind = 0)

---------------------------------------------------------------------------
(* The module: functions and interned names, whose position is their id;   *)
(* failed, if it is given up.                                              *)

EmptyIr == [funcs |-> <<>>, syms |-> <<>>, failed |-> FALSE]
GiveUp(m) == [m EXCEPT !.failed = TRUE]
Intern(m, name) == IF Contains(m.syms, name) THEN m ELSE [m EXCEPT !.syms = Append(@, name)]
SymId(m, name) == SelectInSeq(m.syms, LAMBDA x : x = name)

NewFunc(name, ft, blocks) ==
    FuncOf(name, FuncResult(ft), ParamsOf(ft), [i \in DOMAIN ft.params |-> i - 1], FALSE, blocks)
AddFunc(m, f) == [Intern(m, f.name) EXCEPT !.funcs = Append(@, f)]

(* A name that is declared already is not declared again.                  *)
DeclareImport(m, w, x) ==
    IF m.failed \/ x.type >= Len(w.types) THEN GiveUp(m)
    ELSE IF \E i \in DOMAIN m.funcs : m.funcs[i].name = x.name THEN m
    ELSE AddFunc(m, NewFunc(x.name, w.types[x.type + 1], <<>>))

(* A function has its first export's name, or one made from its number;    *)
(* 256 stands for the text of the prefix.                                  *)
FuncName(w, i) ==
    LET mine == SelectSeq(w.exports, LAMBDA e : e.kind = 0 /\ e.index = Len(FuncImports(w)) + i - 1)
    IN  IF mine # <<>> THEN mine[1].name ELSE <<256, i - 1>>

CreateFunc(m, w, i) ==
    IF m.failed \/ w.funcs[i] >= Len(w.types) THEN GiveUp(m)
    ELSE AddFunc(m, NewFunc(FuncName(w, i), w.types[w.funcs[i] + 1], << BlockOf("entry", <<>>) >>))

---------------------------------------------------------------------------
(* The converter of one function: x.                                       *)

NewCtx(f) == [f |-> f, cur |-> 1, next |-> Len(f.params), stack |-> <<>>, ctrl |-> <<>>,
              locals |-> <<>>, c |-> ByteCursor(<<>>), failed |-> FALSE]
ctx_err(x) == [x EXCEPT !.failed = TRUE]

vpush(x, v, t) ==
    IF Len(x.stack) >= MaxStack THEN ctx_err(x) ELSE [x EXCEPT !.stack = Append(@, [v |-> v, t |-> t])]
vpop(x) == IF x.stack = <<>> THEN ctx_err(x) ELSE [x EXCEPT !.stack = Front(@)]
Top(x) == IF x.stack = <<>> THEN [v |-> 0, t |-> I32] ELSE Last(x.stack)

Reg(x) == [x EXCEPT !.next = @ + 1]
emit_wasm_inst(x, inst) ==
    IF x.failed THEN x ELSE [x EXCEPT !.f.blocks[x.cur].insts = Append(@, inst)]
(* A register for the result, and the instruction.                         *)
EmitTo(x, op, t, o) == emit_wasm_inst(Reg(x), InstOf(op, x.next, t, o))
Store(x, val, slot) == EmitTo(x, "store", Void, << val, VRegOp(slot, Ptr) >>)
Alloca(x, t) == EmitTo(x, "alloca", t, << ImmOp(1, I32) >>)
PushNew(x, op, t, o, pt) == vpush(EmitTo(x, op, t, o), x.next, pt)
emit_icmp(x, pred, o) == emit_wasm_inst(Reg(x), [InstOf("icmp", x.next, I1, o) EXCEPT !.p = pred])
NewBlock(x, label) == [x EXCEPT !.f.blocks = Append(@, BlockOf(label, <<>>))]
LastBlock(x) == Len(x.f.blocks)
Jump(x, b) == emit_wasm_inst(x, InstOf("br", 0, Void, << BlockOp(b) >>))

emit_binop(x, op) ==
    LET r == Top(x)
        l == Top(vpop(x))
    IN  PushNew(vpop(vpop(x)), op, l.t, << VRegOp(l.v, l.t), VRegOp(r.v, l.t) >>, l.t)

(* The result of a comparison is one bit, and is kept as an i32.           *)
emit_cmp(x, pred) ==
    LET r == Top(x)
        l == Top(vpop(x))
        y == vpop(vpop(x))
    IN  vpush(emit_icmp(y, pred, << VRegOp(l.v, l.t), VRegOp(r.v, l.t) >>), y.next, I32)
emit_eqz(x, t) ==
    LET y == vpop(x)
    IN  vpush(emit_icmp(y, "eq", << VRegOp(Top(x).v, t), ImmOp(0, t) >>), y.next, I32)

(* A branch on the operand c: the register that holds c # 0 is next.       *)
CondJump(x, c, b1, b2) ==
    LET y == emit_icmp(x, "ne", << VRegOp(c.v, I32), ImmOp(0, I32) >>)
    IN  emit_wasm_inst(y, InstOf("condbr", 0, Void, << VRegOp(x.next, I1), BlockOp(b1), BlockOp(b2) >>))

emit_select(x) ==
    LET c == Top(x)
        b == Top(vpop(x))
        a == Top(vpop(vpop(x)))
        y == vpop(vpop(vpop(x)))
    IN  PushNew(emit_icmp(y, "ne", << VRegOp(c.v, I32), ImmOp(0, I32) >>), "select", a.t,
                << VRegOp(y.next, I1), VRegOp(a.v, a.t), VRegOp(b.v, a.t) >>, a.t)

emit_cast(x, op, from, to) == PushNew(vpop(x), op, to, << VRegOp(Top(x).v, from) >>, to)

---------------------------------------------------------------------------
(* Structured control.                                                     *)

CtrlEntry(x, kind, cont, hdr, els, rt, slot) ==
    [kind |-> kind, cont |-> cont, hdr |-> hdr, els |-> els, rt |-> rt, slot |-> slot,
     height |-> Len(x.stack)]
(* Mutant of ctrl_push: room for one less. *)
CtrlPushTooFew(x, e) == IF Len(x.ctrl) >= MaxCtrl - 1 THEN ctx_err(x) ELSE [x EXCEPT !.ctrl = Append(@, e)]

ctrl_push(x, e) == IF Len(x.ctrl) >= MaxCtrl THEN ctx_err(x) ELSE [x EXCEPT !.ctrl = Append(@, e)]

(* The slot of a block that has a result; register 0 is no slot.           *)
ResultSlot(x, rt) == IF rt = Void THEN x ELSE Alloca(x, rt)
SlotReg(x, rt) == IF rt = Void THEN 0 ELSE x.next

OpBlock(x, rt) ==
    LET y == NewBlock(x, "block_cont")
        z == ResultSlot(y, rt)
    IN  ctrl_push(z, CtrlEntry(z, "block", LastBlock(y), 0, 0, rt, SlotReg(y, rt)))

OpLoop(x, rt) ==
    LET y == NewBlock(NewBlock(x, "loop_hdr"), "loop_cont")
        hdr == LastBlock(x) + 1
        z == [Jump(y, hdr) EXCEPT !.cur = hdr]
    IN  ctrl_push(z, CtrlEntry(z, "loop", hdr + 1, hdr, 0, rt, 0))

OpIf(x, rt) ==
    LET then == LastBlock(x) + 1
        y == NewBlock(NewBlock(NewBlock(vpop(x), "if_then"), "if_else"), "if_merge")
        z == [CondJump(ResultSlot(y, rt), Top(x), then, then + 1) EXCEPT !.cur = then]
    IN  ctrl_push(z, CtrlEntry(z, "if", then + 2, 0, then + 1, rt, SlotReg(y, rt)))

StoreResult(x, e, always) ==
    IF e.rt # Void /\ (always \/ e.slot # 0) /\ Len(x.stack) > e.height
    THEN Store(vpop(x), VRegOp(Top(x).v, Top(x).t), e.slot) ELSE x

(* Mutant of OpElse: the first branch runs into the second.                *)
ElseFallsThrough(x) ==
    LET e == Last(x.ctrl)
    IN  [Jump(StoreResult(x, e, TRUE), e.els) EXCEPT !.cur = e.els, !.ctrl[Len(x.ctrl)].els = 0]

OpElse(x) ==
    IF x.ctrl = <<>> THEN ctx_err(x)
    ELSE LET e == Last(x.ctrl)
         IN  [Jump(StoreResult(x, e, TRUE), e.cont) EXCEPT !.cur = e.els, !.ctrl[Len(x.ctrl)].els = 0]

(* The last end leaves the function, the others a block.                   *)
OpEnd(x) ==
    IF x.ctrl = <<>> THEN x
    ELSE LET e == Last(x.ctrl)
             out == [x EXCEPT !.ctrl = Front(@)]
             stored == StoreResult(out, e, FALSE)
             empty == [Jump([stored EXCEPT !.cur = e.els], e.cont) EXCEPT !.cur = stored.cur]
             y == [Jump(IF e.kind = "if" /\ e.els # 0 THEN empty ELSE stored, e.cont) EXCEPT !.cur = e.cont]
         IN  IF Len(x.ctrl) = 1 THEN [Jump(out, e.cont) EXCEPT !.cur = e.cont]
             ELSE IF e.rt # Void /\ e.slot # 0
             THEN PushNew(y, "load", e.rt, << VRegOp(e.slot, Ptr) >>, e.rt) ELSE y

Dead(x) == LET y == NewBlock(x, "dead") IN [y EXCEPT !.cur = LastBlock(y)]
TargetOf(e) == IF e.kind = "loop" THEN e.hdr ELSE e.cont

OpBr(x, depth) ==
    IF depth >= Len(x.ctrl) THEN ctx_err(x) ELSE Dead(Jump(x, TargetOf(x.ctrl[Len(x.ctrl) - depth])))

OpBrIf(x, depth) ==
    IF depth >= Len(x.ctrl) THEN ctx_err(x)
    ELSE LET y == NewBlock(vpop(x), "br_if_ft")
             ft == LastBlock(y)
         IN  [CondJump(y, Top(x), TargetOf(x.ctrl[Len(x.ctrl) - depth]), ft) EXCEPT !.cur = ft]

Return(x) ==
    IF x.f.ret = Void THEN emit_wasm_inst(x, InstOf("retvoid", 0, Void, <<>>))
    ELSE emit_wasm_inst(vpop(x), InstOf("ret", 0, Void, << VRegOp(Top(x).v, Top(x).t) >>))

(* The callee is named by its index among the functions: symbols have to   *)
(* be interned in that order.  An imported callee's type is taken from the *)
(* import of that position in the table, which holds imports of all kinds. *)
OpCall(x, w, callee) ==
    LET imported == Len(FuncImports(w))
        type == IF callee < imported THEN w.imports[callee + 1].type
                ELSE w.funcs[callee - imported + 1]
        ft == w.types[type + 1]
        n == Len(ft.params)
        args == SubSeq(x.stack, Len(x.stack) - n + 1, Len(x.stack))
        y == [x EXCEPT !.stack = SubSeq(@, 1, Len(@) - n)]
        o == << GlobalOp(callee + 1, 0, Ptr) >> \o [i \in DOMAIN args |-> VRegOp(args[i].v, args[i].t)]
    IN  IF \/ callee >= imported + Len(w.funcs)
           \/ type >= Len(w.types)
           \/ n > Len(x.stack)
        THEN ctx_err(x)
        ELSE IF FuncResult(ft) = Void THEN emit_wasm_inst(y, InstOf("call", 0, Void, o))
        ELSE PushNew(y, "call", FuncResult(ft), o, FuncResult(ft))

---------------------------------------------------------------------------
(* Locals, memory, constants.                                              *)

OpLocalGet(x, i) ==
    IF i >= Len(x.locals) THEN ctx_err(x)
    ELSE LET l == x.locals[i + 1] IN PushNew(x, "load", l.t, << VRegOp(l.slot, Ptr) >>, l.t)
OpLocalSet(x, i) ==
    IF i >= Len(x.locals) THEN ctx_err(x)
    ELSE Store(vpop(x), VRegOp(Top(x).v, Top(x).t), x.locals[i + 1].slot)
OpLocalTee(x, i) ==
    IF i >= Len(x.locals) THEN ctx_err(x) ELSE vpush(OpLocalSet(x, i), Top(x).v, Top(x).t)

(* The address: an offset is added in 32 bits, then it is a pointer.       *)
MemAddress(x, a, off) ==
    LET y == IF off = 0 THEN x ELSE EmitTo(x, "add", I32, << VRegOp(a.v, I32), ImmOp(off, I32) >>)
        at == IF off = 0 THEN a.v ELSE x.next
    IN  EmitTo(y, "inttoptr", Ptr, << VRegOp(at, I32) >>)

OpLoad(x, op, off) ==
    LET t == IF op = 41 THEN I64 ELSE I32
        y == MemAddress(vpop(x), Top(x), off)
    IN  PushNew(y, "load", t, << VRegOp(y.next - 1, Ptr) >>, t)

OpStore(x, off) ==
    LET val == Top(x)
        y == MemAddress(vpop(vpop(x)), Top(vpop(x)), off)
    IN  Store(y, VRegOp(val.v, val.t), y.next - 1)

OpConst(x, n, t) == PushNew(x, "add", t, << ImmOp(0, t), ImmOp(n, t) >>, t)

---------------------------------------------------------------------------
(* One instruction of the body, at the cursor.                             *)

(* Comparisons from equality on, and arithmetic from addition on, in the   *)
(* order of the opcodes.                                                   *)
Comparisons == << "eq", "ne", "slt", "ult", "sgt", "ugt", "sle", "ule", "sge", "uge" >>
Arithmetic == << "add", "sub", "mul", "sdiv", "udiv", "srem", "urem", "and", "or", "xor",
                 "shl", "ashr", "lshr" >>

parse_blocktype(b) == IF b = 64 THEN Void ELSE wasm_to_lr_type(b)

Opcode(x) == x.c.data[x.c.pos]

ConvertControl(x, w, op, n) ==
    CASE op = 0 -> emit_wasm_inst(x, InstOf("unreachable", 0, Void, <<>>))
      [] op = 1 -> x
      [] op = 2 -> OpBlock(x, parse_blocktype(n))
      [] op = 3 -> OpLoop(x, parse_blocktype(n))
      [] op = 4 -> OpIf(x, parse_blocktype(n))
      [] op = 5 -> OpElse(x)
      [] op = 11 -> OpEnd(x)
      [] op = 12 -> OpBr(x, n)
      [] op = 13 -> OpBrIf(x, n)
      [] op = 15 -> Dead(Return(x))
      [] op = 16 -> OpCall(x, w, n)

ConvertValue(x, op, n) ==
    CASE op = 26 -> vpop(x)
      [] op = 27 -> emit_select(x)
      [] op = 32 -> OpLocalGet(x, n)
      [] op = 33 -> OpLocalSet(x, n)
      [] op = 34 -> OpLocalTee(x, n)
      [] op \in {40, 41, 44, 45, 46, 47} -> OpLoad(x, op, n)
      [] op \in {54, 55, 58, 59} -> OpStore(x, n)
      [] op = 65 -> OpConst(x, n, I32)
      [] op = 66 -> OpConst(x, n, I64)
      [] op = 69 -> emit_eqz(x, I32)
      [] op = 80 -> emit_eqz(x, I64)
      [] op \in 70..79 -> emit_cmp(x, Comparisons[op - 69])
      [] op \in 81..90 -> emit_cmp(x, Comparisons[op - 80])
      [] op \in 106..118 -> emit_binop(x, Arithmetic[op - 105])
      [] op \in 124..136 -> emit_binop(x, Arithmetic[op - 123])
      [] op = 167 -> emit_cast(x, "trunc", I64, I32)
      [] op = 172 -> emit_cast(x, "sext", I32, I64)
      [] op = 173 -> emit_cast(x, "zext", I32, I64)
      [] OTHER -> ctx_err(x)

(* What follows the opcode: a number, a type, or alignment and offset.     *)
Immediate(op, c) ==
    CASE op \in {2, 3, 4} -> cur_u8(c)
      [] op \in {12, 13, 16, 32, 33, 34} -> cur_u32(c)
      [] op \in {40, 41, 44, 45, 46, 47, 54, 55, 58, 59} -> cur_u32(cur_u32(c).c)
      [] op = 65 -> cur_i32(c)
      [] op = 66 -> cur_i64(c)
      [] OTHER -> Took(c, 0)

convert_inst(x, w) ==
    LET op == Opcode(x)
        imm == Immediate(op, [x.c EXCEPT !.pos = @ + 1])
        y == [x EXCEPT !.c = imm.c]
    IN  IF op \in 0..16 THEN ConvertControl(y, w, op, imm.v) ELSE ConvertValue(y, op, imm.v)

(* The slots: parameters are stored, the other locals are zero.            *)
AddLocal(x, t, val) ==
    LET y == Store(Alloca(x, t), val, x.next)
    IN  [y EXCEPT !.locals = Append(@, [slot |-> x.next, t |-> t])]

RECURSIVE AddLocals(_, _)
AddLocals(x, ts) ==
    IF ts = <<>> THEN x ELSE AddLocals(AddLocal(x, Head(ts), ImmOp(0, Head(ts))), Tail(ts))
RECURSIVE AddParams(_, _)
AddParams(x, i) ==
    IF i > Len(x.f.params) THEN x
    ELSE AddParams(AddLocal(x, x.f.params[i], VRegOp(x.f.pv[i], x.f.params[i])), i + 1)

Declared(groups) ==
    FlattenSeq([g \in DOMAIN groups |->
        [i \in 1..groups[g].count |-> wasm_to_lr_type(groups[g].type)]])

convert_start(f, code) ==
    LET x == AddLocals(AddParams(NewCtx(f), 1), Declared(code.groups))
        y == NewBlock(x, "func_exit")
    IN  [ctrl_push(y, CtrlEntry(y, "block", LastBlock(y), 0, 0, f.ret, 0)) EXCEPT !.c = ByteCursor(code.body)]

(* Behind the last end: the value on the stack, or zero.                   *)
convert_end(x) ==
    IF x.f.ret # Void /\ x.stack = <<>>
    THEN emit_wasm_inst(x, InstOf("ret", 0, Void, << ImmOp(0, x.f.ret) >>)) ELSE Return(x)

---------------------------------------------------------------------------
(* lr_wasm_to_session: s is the session's module, with names of its own.   *)

(* All names first, so that a call can be mapped from the module's symbol  *)
(* id to the session's.                                                    *)
RECURSIVE InternAll(_, _)
InternAll(s, funcs) == IF funcs = <<>> THEN s ELSE InternAll(Intern(s, Head(funcs).name), Tail(funcs))

(* Mutant of map_operand_to_session: the module's id is used as it is.     *)
IdUnmapped(op, s, m) == op

(* The ids of functions come first; any other symbol is interned by its    *)
(* name, which finds what is there: the module has no names but those of   *)
(* its functions.                                                          *)
map_operand_to_session(op, s, m) ==
    IF op.k # "global" THEN op
    ELSE IF op.s <= Len(m.funcs) THEN [op EXCEPT !.s = SymId(s, m.funcs[op.s].name)]
    ELSE IF op.s <= Len(m.syms) THEN [op EXCEPT !.s = SymId(Intern(s, m.syms[op.s]), m.syms[op.s])]
    ELSE op

(* lr_session_emit gives the next register to what has a result and names  *)
(* none, and goes on behind the register that is named.                    *)
HasDest(inst) ==
    inst.op \notin TerminatorOps \cup {"store"} /\ (inst.op = "call" => inst.t # Void)
session_emit(r, inst, s, m) ==
    LET d == IF ~HasDest(inst) \/ inst.d = 0 THEN r.next ELSE inst.d
        new == [inst EXCEPT !.d = IF HasDest(inst) THEN d ELSE 0,
                            !.o = [i \in DOMAIN inst.o |-> map_operand_to_session(inst.o[i], s, m)]]
    IN  [insts |-> Append(r.insts, new), next |-> IF HasDest(inst) THEN Max({r.next, d + 1}) ELSE r.next]

replay_block(r, b, s, m) ==
    LET q == FoldLeft(LAMBDA acc, inst : session_emit(acc, inst, s, m),
                      [insts |-> <<>>, next |-> r.next], b.insts)
    IN  [blocks |-> Append(r.blocks, BlockOf("bb", q.insts)), next |-> q.next]

replay_function_to_session(f, s, m) ==
    LET r == FoldLeft(LAMBDA acc, b : replay_block(acc, b, s, m),
                      [blocks |-> <<>>, next |-> Len(f.params)], f.blocks)
    IN  [s EXCEPT !.funcs = Append(@, [f EXCEPT !.blocks = r.blocks])]
=============================================================================
