-------------------------------- MODULE BcDecode --------------------------------
(***************************************************************************)
(* bc_decode.c: the bitstream, and the records of LLVM bitcode decoded     *)
(* into a module.  Values are numbered: globals and functions, then the    *)
(* constants of the module, then for each function its parameters, its     *)
(* constants and its instructions.  A record may use a value whose record  *)
(* is still to come; it gets a register in advance.                        *)
(*                                                                         *)
(* A name is one byte of the string table, which stands for an entry of    *)
(* Names.  Numbers of 32 bits are taken modulo Wrap: only their wrapping   *)
(* around matters.                                                         *)
(*                                                                         *)
(* The bitstream reader comes first.  A stream is a sequence of bits,      *)
(* the low bit of a byte first.  The entries of a block are read with a    *)
(* width and a list of abbreviations that belong to the block; the ones    *)
(* that BLOCKINFO gives for its kind come first.  Memory that cannot be    *)
(* had is left out.                                                        *)
(***************************************************************************)
EXTENDS LlParser

END_BLOCK == 0
ENTER_BLOCK == 1
DEFINE_ABBREV == 2
UNABBREV_RECORD == 3
FIRST_USER_ABBREV == 4

(* How an abbreviation encodes an operand.                                 *)
LITERAL == 0
FIXED == 1
VBR == 2
ARRAY == 3
CHAR6 == 4
BLOB == 5
AbbrevOp(kind, value) == [kind |-> kind, value |-> value]

(* rec and char6 are the operands of the last record and which of them are *)
(* in char6, blob the bytes that went with it; info the abbreviations of   *)
(* blocks to come, by the kind of block.                                   *)
NewReader ==
    [pos |-> 0, alen |-> 2, abbrevs |-> <<>>, info |-> [b \in {} |-> <<>>], rec |-> <<>>,
     char6 |-> <<>>, blob |-> <<>>, err |-> FALSE]

bc_error(r) == [r EXCEPT !.err = TRUE]

Got(r, v) == [r |-> r, v |-> v]

(* The number in w bits from pos on; those of a wide field are zero at the *)
(* high end.                                                               *)
BitsAt(bits, pos, w) == FoldRight(LAMBDA b, high : b + 2 * high, SubSeq(bits, pos + 1, pos + w), 0)

bc_read_fixed(bits, r, w) ==
    IF w = 0 THEN Got(r, 0)
    ELSE IF r.pos + w > Len(bits) THEN Got(bc_error(r), 0)
    ELSE Got([r EXCEPT !.pos = @ + w], BitsAt(bits, r.pos, w))

(* Chunks of w bits, the high bit of each saying whether another follows.  *)
RECURSIVE VbrFrom(_, _, _, _), VbrRest(_, _, _, _)
VbrFrom(bits, r, w, shift) ==
    LET c == bc_read_fixed(bits, r, w)
    IN  IF c.r.err THEN Got(c.r, 0)
        ELSE IF c.v < 2 ^ (w - 1) THEN c
        ELSE IF shift + w - 1 > 63 THEN Got(bc_error(c.r), 0)
        ELSE VbrRest(bits, c, w, shift + w - 1)
VbrRest(bits, c, w, shift) ==
    LET rest == VbrFrom(bits, c.r, w, shift)
    IN  Got(rest.r, IF rest.r.err THEN 0 ELSE c.v - 2 ^ (w - 1) + 2 ^ (w - 1) * rest.v)

bc_read_vbr(bits, r, w) == VbrFrom(bits, r, w, 0)

bc_align32(r) == [r EXCEPT !.pos = ((@ + 31) \div 32) * 32]

---------------------------------------------------------------------------
(* Abbreviations.                                                          *)

EncodedOp(bits, kind) ==
    IF kind.v \in {FIXED, VBR}
    THEN LET value == bc_read_vbr(bits, kind.r, 5) IN Got(value.r, AbbrevOp(kind.v, value.v))
    ELSE Got(kind.r, AbbrevOp(kind.v, 0))
LiteralOp(value) == Got(value.r, AbbrevOp(LITERAL, value.v))
AbbrevOpAfter(bits, literal) ==
    IF literal.v = 1 THEN LiteralOp(bc_read_vbr(bits, literal.r, 8))
    ELSE EncodedOp(bits, bc_read_fixed(bits, literal.r, 3))

RECURSIVE AbbrevOps(_, _, _, _), AbbrevOpsAfter(_, _, _, _)
AbbrevOps(bits, r, n, ops) ==
    IF n = 0 \/ r.err THEN Got(r, ops)
    ELSE AbbrevOpsAfter(bits, AbbrevOpAfter(bits, bc_read_fixed(bits, r, 1)), n - 1, ops)
AbbrevOpsAfter(bits, op, n, ops) == AbbrevOps(bits, op.r, n, Append(ops, op.v))

(* The operands of the abbreviation that follows in the stream.            *)
ReadAbbrev(bits, r) ==
    LET n == bc_read_vbr(bits, r, 5) IN AbbrevOps(bits, n.r, n.v, <<>>)

bc_abbrev_list_push(list, ops) == Append(list, ops)

bc_read_define_abbrev(bits, r) ==
    LET a == ReadAbbrev(bits, r)
    IN  IF a.r.err THEN a.r ELSE [a.r EXCEPT !.abbrevs = bc_abbrev_list_push(@, a.v)]

bc_find_blockinfo(r, id) == IF id \in DOMAIN r.info THEN r.info[id] ELSE <<>>

bc_get_or_create_blockinfo(r, id) ==
    IF id \in DOMAIN r.info THEN r
    ELSE [r EXCEPT !.info = [b \in DOMAIN @ \cup {id} |-> IF b = id THEN <<>> ELSE @[b]]]

---------------------------------------------------------------------------
(* Records.  v is the code of the record that has been read.               *)

bc_record_push(r, val, char6) == [r EXCEPT !.rec = Append(@, val), !.char6 = Append(@, char6)]

(* A scalar operand.                                                       *)
ReadScalar(bits, r, op) ==
    CASE op.kind = LITERAL -> Got(r, op.value)
      [] op.kind = FIXED -> bc_read_fixed(bits, r, op.value)
      [] op.kind = VBR -> bc_read_vbr(bits, r, op.value)
      [] op.kind = CHAR6 -> bc_read_fixed(bits, r, 6)

(* An element whose encoding is none of these three is read in six bits.   *)
ReadElement(bits, r, op) ==
    ReadScalar(bits, r, IF op.kind \in {FIXED, VBR, CHAR6} THEN op ELSE AbbrevOp(VBR, 6))

PushRead(x, char6) == bc_record_push(x.r, x.v, char6)

RECURSIVE ReadArray(_, _, _, _)
ReadArray(bits, r, op, n) ==
    IF n = 0 \/ r.err THEN r
    ELSE ReadArray(bits, PushRead(ReadElement(bits, r, op), op.kind = CHAR6), op, n - 1)
ArrayAfter(bits, count, op) == ReadArray(bits, count.r, op, count.v)

(* The bytes of a blob begin and end at a word.                            *)
ReadBlob(bits, len) ==
    LET r == bc_align32(len.r)
        byte(i) == BitsAt(bits, r.pos + 8 * (i - 1), 8)
    IN  IF r.pos + 8 * len.v > Len(bits) THEN bc_error(r)
        ELSE bc_align32([r EXCEPT !.blob = [i \in 1..len.v |-> byte(i)], !.pos = @ + 8 * len.v])

(* The operands of an abbreviation from the i-th on; the first is the code *)
(* of the record.                                                          *)
RECURSIVE AbbrevRecord(_, _, _, _, _), ScalarThen(_, _, _, _, _)
AbbrevRecord(bits, r, ops, i, code) ==
    IF i > Len(ops) \/ r.err THEN Got(r, code)
    ELSE CASE ops[i].kind = ARRAY ->
              IF i = Len(ops) THEN Got(bc_error(r), 0)
              ELSE AbbrevRecord(bits, ArrayAfter(bits, bc_read_vbr(bits, r, 6), ops[i + 1]), ops, i + 2, code)
           [] ops[i].kind = BLOB -> AbbrevRecord(bits, ReadBlob(bits, bc_read_vbr(bits, r, 6)), ops, i + 1, code)
           [] OTHER -> ScalarThen(bits, ReadScalar(bits, r, ops[i]), ops, i, code)
ScalarThen(bits, x, ops, i, code) ==
    AbbrevRecord(bits, IF i = 1 THEN x.r ELSE PushRead(x, ops[i].kind = CHAR6), ops, i + 1,
                 IF i = 1 THEN x.v ELSE code)

UnabbrevAfter(bits, code, count) ==
    Got(ReadArray(bits, count.r, AbbrevOp(VBR, 6), count.v), code.v)
UnabbrevRecord(bits, code) == UnabbrevAfter(bits, code, bc_read_vbr(bits, code.r, 6))

(* Mutant of bc_read_record: what the last record left is kept.            *)
RecordAppended(bits, r, id) ==
    IF id = UNABBREV_RECORD THEN UnabbrevRecord(bits, bc_read_vbr(bits, r, 6))
    ELSE IF id - FIRST_USER_ABBREV \notin 0..(Len(r.abbrevs) - 1) THEN Got(bc_error(r), 0)
    ELSE AbbrevRecord(bits, r, r.abbrevs[id - FIRST_USER_ABBREV + 1], 1, 0)

bc_read_record(bits, r, id) ==
    LET fresh == [r EXCEPT !.rec = <<>>, !.char6 = <<>>, !.blob = <<>>]
    IN  IF id = UNABBREV_RECORD THEN UnabbrevRecord(bits, bc_read_vbr(bits, fresh, 6))
        ELSE IF id - FIRST_USER_ABBREV \notin 0..(Len(r.abbrevs) - 1) THEN Got(bc_error(fresh), 0)
        ELSE AbbrevRecord(bits, fresh, r.abbrevs[id - FIRST_USER_ABBREV + 1], 1, 0)

---------------------------------------------------------------------------
(* Blocks.                                                                 *)

(* A block inside one that has no inner blocks: its kind is not read, only *)
(* a width and the length in words.                                        *)
WordsAfter(bits, r) == bc_read_fixed(bits, bc_align32(r), 32)
SkipWords(words) == [words.r EXCEPT !.pos = @ + 32 * words.v]
bc_skip_block(bits, r) == SkipWords(WordsAfter(bits, bc_read_vbr(bits, r, 4).r))

(* The head of a block: its kind, the width of its entries and its end.    *)
HeadWords(id, width, words) ==
    [r |-> words.r, id |-> id, alen |-> width, end |-> words.r.pos + 32 * words.v]
HeadWidth(bits, id, width) == HeadWords(id.v, width.v, WordsAfter(bits, width.r))
ReadBlockHead(bits, r) ==
    LET id == bc_read_vbr(bits, r, 8) IN HeadWidth(bits, id, bc_read_vbr(bits, id.r, 4))

(* What the enclosing block keeps while an inner one is read.              *)
FrameOf(r, id, end) == [id |-> id, end |-> end, alen |-> r.alen, abbrevs |-> r.abbrevs, bid |-> -1]

OpenBlock(r, head) == [r EXCEPT !.alen = head.alen, !.abbrevs = bc_find_blockinfo(r, head.id)]

CloseBlock(r, frame) == [r EXCEPT !.alen = frame.alen, !.abbrevs = frame.abbrevs]

(* One entry of BLOCKINFO, whose own width is always two bits: a record    *)
(* says for which kind of block the abbreviations after it are.            *)
InfoRecord(x, frame) ==
    [r |-> x.r, frame |-> IF x.v = 1 /\ x.r.rec # <<>> THEN [frame EXCEPT !.bid = x.r.rec[1]] ELSE frame]
InfoAbbrev(a, frame) ==
    LET r == bc_get_or_create_blockinfo(a.r, frame.bid)
    IN  [r |-> IF a.r.err \/ frame.bid = -1 THEN a.r ELSE [r EXCEPT !.info[frame.bid] = bc_abbrev_list_push(@, a.v)],
         frame |-> frame]
bc_process_blockinfo_content(bits, entry, frame) ==
    IF entry.v = DEFINE_ABBREV THEN InfoAbbrev(ReadAbbrev(bits, entry.r), frame)
    ELSE IF entry.v = ENTER_BLOCK THEN [r |-> bc_error(entry.r), frame |-> frame]
    ELSE InfoRecord(bc_read_record(bits, entry.r, entry.v), frame)

---------------------------------------------------------------------------
(* Above the bitstream.                                                    *)

CONSTANT Names      \* the names, by the byte that stands for them

Wrap == 2 ^ 30
INT64_MIN == -(2 ^ 30)
FarAhead == 65536

(* A value: a register, a constant (op, and the bytes and parts it is made *)
(* of), a global or a function.                                            *)
ValueOf(k, t) == [k |-> k, t |-> t, n |-> 0, s |-> NoName, op |-> UndefOp(t), bytes |-> <<>>, agg |-> <<>>]
VRegValue(v, t) == [ValueOf("vreg", t) EXCEPT !.n = v]
ConstValue(t, op) == [ValueOf("const", t) EXCEPT !.op = op]
SymbolValue(k, sym) == [ValueOf(k, Ptr) EXCEPT !.s = sym]

(* The decoder.  lv is the value table in use and outer the module's while *)
(* a function is decoded; id the number of the next value; fn and cur the  *)
(* function and its block; nb the blocks it declared; fix what the phis    *)
(* need after switches; inits the initial values still to be applied.      *)
NewDecoder(scope, strtab) ==
    [scope |-> scope, strtab |-> strtab, version |-> 0, mod |-> ModuleOf(<<>>, <<>>), types |-> <<>>,
     sname |-> "", lv |-> <<>>, outer |-> <<>>, inits |-> <<>>, funcs |-> <<>>, body |-> 0,
     fn |-> <<>>, next |-> 0, cur |-> 0, nb |-> 0, id |-> 0, fix |-> <<>>, ctype |-> I32, err |-> FALSE]

Push(d, v) == [d EXCEPT !.lv = Append(@, v)]

---------------------------------------------------------------------------
(* The type table.                                                         *)

HasType(d, i) == i < Len(d.types)
bc_get_type(d, i) == d.types[i + 1]
TypeOr(d, i, t) == IF HasType(d, i) THEN bc_get_type(d, i) ELSE t

bc_type_table_push(d, t) == [d EXCEPT !.types = Append(@, t)]

Spelled(byte) == IF byte \in DOMAIN Names THEN Names[byte] ELSE "?"

(* Types that have no counterpart become void.                             *)
SimpleType(code) ==
    CASE code \in {3, 10, 23} -> Float
      [] code \in {4, 14, 15} -> Double
      [] code \in {8, 25} -> Ptr
      [] OTHER -> Void

IntType(width) ==
    CASE width = 1 -> I1 [] width = 8 -> I8 [] width = 16 -> I16 [] width = 32 -> I32 [] width = 64 -> I64

PartsKnown(d, ids) == \A i \in DOMAIN ids : HasType(d, ids[i])
Parts(d, ids) == [i \in DOMAIN ids |-> bc_get_type(d, ids[i])]

TypeSequence(d, k, rec) ==
    IF HasType(d, rec[2]) THEN bc_type_table_push(d, Ty(k, rec[1], << bc_get_type(d, rec[2]) >>, "")) ELSE Fail(d)
TypeStruct(d, rec, name) ==
    IF PartsKnown(d, Tail(rec))
    THEN bc_type_table_push([d EXCEPT !.sname = ""], Ty("struct", rec[1], Parts(d, Tail(rec)), name))
    ELSE Fail(d)
TypeFunction(d, rec) ==
    IF PartsKnown(d, Tail(rec)) THEN bc_type_table_push(d, Ty("func", rec[1], Parts(d, Tail(rec)), "")) ELSE Fail(d)

(* A name belongs to the structure whose record follows.                   *)
bc_decode_type_block(d, code, rec) ==
    CASE code = 1 -> d
      [] code = 7 -> IF rec[1] \in {1, 8, 16, 32, 64} THEN bc_type_table_push(d, IntType(rec[1])) ELSE Fail(d)
      [] code = 11 -> TypeSequence(d, "array", rec)
      [] code = 12 -> TypeSequence(d, "vector", rec)
      [] code = 18 -> [TypeStruct(d, rec, "") EXCEPT !.sname = d.sname]
      [] code = 19 -> [d EXCEPT !.sname = IF rec = <<>> THEN "" ELSE Spelled(rec[1])]
      [] code = 20 -> TypeStruct(d, rec, d.sname)
      [] code = 21 -> TypeFunction(d, rec)
      [] OTHER -> bc_type_table_push(d, SimpleType(code))

---------------------------------------------------------------------------
(* Values as operands.                                                     *)

(* A constant of up to eight bytes is a number, {} if it is none.          *)
bc_try_operand_from_const_bytes(t, bytes) ==
    LET size == lr_type_size(t)
        raw == LeNat(SubSeq(bytes, 1, size))
    IN  IF size = 0 \/ Len(bytes) < size \/ size > 8 THEN {}
        ELSE IF IsFp(t) THEN {FpOp(raw, t)} ELSE {ImmOp(raw, t)}

PackedOr(t, bytes, op) ==
    LET packed == bc_try_operand_from_const_bytes(t, bytes)
    IN  IF op.k = "undef" /\ bytes # <<>> /\ packed # {} THEN CHOOSE x \in packed : TRUE ELSE op

OperandOf(v) ==
    CASE v.k = "vreg" -> VRegOp(v.n, v.t)
      [] v.k = "const" -> PackedOr(v.t, v.bytes, v.op)
      [] v.k \in {"global", "func"} -> GlobalOp(v.s, 0, Ptr)

(* The table grows up to the value, each new entry with a register of its  *)
(* own; among constants the entries have no registers.                     *)
RECURSIVE ExtendTo(_, _, _, _)
ExtendTo(d, id, t, regs) ==
    IF id < Len(d.lv) THEN d
    ELSE ExtendTo(Push(IF regs THEN lr_vreg_new(d) ELSE d, VRegValue(IF regs THEN d.next ELSE 0, t)), id, t, regs)

OperandAt(d, id) == Res(d, OperandOf(d.lv[id + 1]))
bc_make_operand_from_value(d, id, t, regs) ==
    IF id > Len(d.lv) + FarAhead THEN Res(d, UndefOp(t)) ELSE OperandAt(ExtendTo(d, id, t, regs), id)

bc_decode_signed_vbr(v) == IF v % 2 = 0 THEN v \div 2 ELSE IF v # 1 THEN -(v \div 2) ELSE INT64_MIN

bc_decode_char6(v) ==
    CASE v < 26 -> 97 + v [] v \in 26..51 -> 65 + v - 26 [] v \in 52..61 -> 48 + v - 52 [] v = 62 -> 46 [] OTHER -> 95

---------------------------------------------------------------------------
(* The bytes of constants.                                                 *)

PartCount(t, v) ==
    LET n == IF t.k = "struct" THEN Len(t.sub) ELSE t.n IN IF n > Len(v.agg) THEN Len(v.agg) ELSE n
PartType(t, i) == IF t.k = "struct" THEN t.sub[i] ELSE t.sub[1]
PartOffset(t, i) ==
    IF t.k = "struct" THEN lr_struct_field_offset(t, i - 1)
    ELSE (i - 1) * (IF lr_type_size(t.sub[1]) = 0 THEN 8 ELSE lr_type_size(t.sub[1]))

bc_store_le_bytes(buf, off, n, size) == Overwrite(buf, off, ToBytes(n, IF size > 8 THEN 8 ELSE size))
CopyBytes(buf, off, bytes, size) ==
    Overwrite(buf, off, IF Len(bytes) < size THEN bytes ELSE SubSeq(bytes, 1, size))

(* buf with the constant written at off, {} if it cannot be: parts that    *)
(* are addresses, undefined or later in the table have no bytes.           *)
RECURSIVE bc_materialize_const_bytes(_, _, _, _, _), MaterializeParts(_, _, _, _, _, _)
MaterializeParts(lv, t, v, buf, off, i) ==
    IF i > PartCount(t, v) THEN {buf}
    ELSE IF v.agg[i] >= Len(lv) THEN {}
    ELSE UNION {MaterializeParts(lv, t, v, b, off, i + 1) :
                   b \in bc_materialize_const_bytes(lv, PartType(t, i), lv[v.agg[i] + 1], buf, off + PartOffset(t, i))}
bc_materialize_const_bytes(lv, t, v, buf, off) ==
    LET size == lr_type_size(t)
    IN  IF IsAggregate(t) /\ v.agg # <<>> THEN MaterializeParts(lv, t, v, buf, off, 1)
        ELSE IF size = 0 \/ off >= Len(buf) THEN {}
        ELSE IF v.bytes # <<>> THEN {CopyBytes(buf, off, v.bytes, size)}
        ELSE IF v.k # "const" THEN {}
        ELSE CASE v.op.k \in {"null", "imm"} -> {bc_store_le_bytes(buf, off, v.op.n, size)}
               [] v.op.k = "fp" /\ IsFp(t) ->
                  {bc_store_le_bytes(buf, off, IF t.k = "float" THEN Float32(v.op.n) ELSE v.op.n, size)}
               [] OTHER -> {}

(* The same for the initial value of a global g, where addresses become    *)
(* relocations.                                                            *)
bc_global_add_reloc(g, off, sym, add) == [g EXCEPT !.relocs = << RelocOf(off, sym, add) >> \o @]

ApplyScalar(g, t, off, v) ==
    LET size == lr_type_size(t)
        put(n) == [g EXCEPT !.bytes = bc_store_le_bytes(@, off, n, size)]
    IN  CASE v.k \in {"global", "func"} -> bc_global_add_reloc(g, off, v.s, 0)
          [] v.k = "const" /\ v.op.k = "global" -> bc_global_add_reloc(g, off, v.op.s, v.op.n)
          [] v.k = "const" /\ v.op.k = "imm" -> put(v.op.n)
          [] v.k = "const" /\ v.op.k = "fp" /\ IsFp(t) -> put(IF t.k = "float" THEN Float32(v.op.n) ELSE v.op.n)
          [] OTHER -> g

RECURSIVE bc_apply_global_init_value(_, _, _, _, _), ApplyParts(_, _, _, _, _, _)
ApplyParts(lv, g, t, off, v, i) ==
    IF i > PartCount(t, v) THEN g
    ELSE ApplyParts(lv, IF v.agg[i] >= Len(lv) THEN g
                        ELSE bc_apply_global_init_value(lv, g, PartType(t, i), off + PartOffset(t, i), lv[v.agg[i] + 1]),
                    t, off, v, i + 1)
bc_apply_global_init_value(lv, g, t, off, v) ==
    IF IsAggregate(t) /\ v.agg # <<>> THEN ApplyParts(lv, g, t, off, v, 1)
    ELSE ApplyScalar(IF v.bytes = <<>> THEN g
                     ELSE [g EXCEPT !.bytes = CopyBytes(@, off, v.bytes, lr_type_size(t))], t, off, v)

bc_try_set_i8_array_initializer(g, v) ==
    IF g.t.k = "array" /\ g.t.sub[1].k = "i8" /\ v.bytes # <<>>
    THEN [g EXCEPT !.bytes = CopyBytes(Zeros(g.t.n), 0, v.bytes, g.t.n)] ELSE g

(* The number of an initial value is one more than that of its value; the  *)
(* other candidates are for tables that count from the constants.          *)
bc_resolve_global_init_value_index(d, init, base) ==
    LET cands == << init - 1, init, base + init - 1, base + init >>
        i == SelectInSeq(cands, LAMBDA c : c < Len(d.lv) /\ d.lv[c + 1].k # "vreg")
    IN  IF i = 0 THEN {} ELSE {cands[i]}

InitialGlobal(d, g, v) ==
    LET size == IF lr_type_size(g.t) = 0 THEN 8 ELSE lr_type_size(g.t)
        zero == [g EXCEPT !.bytes = Zeros(size), !.relocs = <<>>]
    IN  bc_try_set_i8_array_initializer(bc_apply_global_init_value(d.lv, zero, g.t, 0, v), v)

ApplyInit(d, ref, base) ==
    LET at == bc_resolve_global_init_value_index(d, ref.init, base)
    IN  IF at = {} THEN [d EXCEPT !.inits = Append(@, ref)]
        ELSE [d EXCEPT !.mod.globals[ref.g] = InitialGlobal(d, @, d.lv[(CHOOSE i \in at : TRUE) + 1])]

(* All that can be applied are, the others wait.                           *)
bc_apply_global_initializers(d, base) ==
    FoldLeft(LAMBDA e, ref : ApplyInit(e, ref, base), [d EXCEPT !.inits = <<>>], d.inits)

---------------------------------------------------------------------------
(* Constants, of the type that the last SETTYPE chose.                     *)

PushConst(d, op) == Push(d, ConstValue(d.ctype, op))
PushUndef(d) == PushConst(d, UndefOp(d.ctype))

ConstSetType(d, rec) == IF HasType(d, rec[1]) THEN [d EXCEPT !.ctype = bc_get_type(d, rec[1])] ELSE Fail(d)
ConstNull(d) == PushConst(d, IF d.ctype.k = "ptr" THEN NullOp(d.ctype) ELSE ImmOp(0, d.ctype))
ConstInteger(d, rec) == PushConst(d, ImmOp(bc_decode_signed_vbr(rec[1]), d.ctype))
ConstFloat(d, rec) == PushConst(d, FpOp(rec[1], d.ctype))

(* A string: its bytes, which are decoded if all of them are in char6.     *)
ConstString(d, rec, char6) ==
    LET packed == \A i \in DOMAIN char6 : char6[i]
        bytes == [i \in DOMAIN rec |-> IF packed THEN bc_decode_char6(rec[i]) ELSE rec[i] % 256]
    IN  Push(d, [ConstValue(d.ctype, UndefOp(d.ctype)) EXCEPT !.bytes = bytes])

(* The elements of an array or a vector, one after the other.              *)
ConstData(d, rec) ==
    LET size == lr_type_size(d.ctype.sub[1])
        bytes == [i \in 1..(d.ctype.n * size) |->
                     IF (i - 1) \div size < Len(rec) THEN ToBytes(rec[(i - 1) \div size + 1], size)[((i - 1) % size) + 1]
                     ELSE 0]
    IN  Push(d, [ConstValue(d.ctype, PackedOr(d.ctype, bytes, UndefOp(d.ctype))) EXCEPT !.bytes = bytes])

(* An array of bytes looks its elements up, which extends the table if one *)
(* of them is later.                                                       *)
RECURSIVE ByteElements(_, _, _)
ByteElements(d, ids, bytes) ==
    IF ids = <<>> THEN Res(d, bytes)
    ELSE LET r == bc_make_operand_from_value(d, Head(ids), I8, FALSE)
         IN  ByteElements(r.p, Tail(ids), Append(bytes, IF r.o.k = "imm" THEN r.o.n % 256 ELSE 0))

AggregateOver(r, t, ids) ==
    LET v == [ConstValue(t, UndefOp(t)) EXCEPT !.agg = ids, !.bytes = r.o]
        packed == IF lr_type_size(t) = 0 THEN {}
                  ELSE bc_materialize_const_bytes(r.p.lv, t, v, Zeros(lr_type_size(t)), 0)
        bytes == CHOOSE b \in packed : TRUE
    IN  Push(r.p, IF packed = {} THEN v ELSE [v EXCEPT !.bytes = bytes, !.op = PackedOr(t, bytes, v.op)])
ConstAggregate(d, rec) ==
    AggregateOver(IF d.ctype.k = "array" /\ d.ctype.sub[1].k = "i8"
                  THEN ByteElements(d, SubSeq(rec, 1, IF d.ctype.n = 0 THEN Len(rec) ELSE d.ctype.n), <<>>)
                  ELSE Res(d, <<>>), d.ctype, rec)

(* A cast keeps its operand and changes the type.                          *)
CastOver(r, t) == Push(r.p, ConstValue(t, [r.o EXCEPT !.t = t]))
ConstCastRecord(d, rec) ==
    IF Len(rec) < 3 THEN PushUndef(d)
    ELSE CastOver(bc_make_operand_from_value(d, rec[3], TypeOr(d, rec[2], Ptr), FALSE), d.ctype)

(* Pairs of a type and a value.                                            *)
RECURSIVE PairOperands(_, _, _)
PairOperands(d, words, ops) ==
    IF words = <<>> THEN Res(d, ops)
    ELSE LET r == bc_make_operand_from_value(d, words[2], TypeOr(d, words[1], I64), FALSE)
         IN  PairOperands(r.p, SubSeq(words, 3, Len(words)), Append(ops, r.o))

bc_const_gep_try_compute_offset(src, idx) ==
    IF \A i \in DOMAIN idx : idx[i].k = "imm" THEN ConstGepOffset(src, idx, TRUE) ELSE 0

GepOverIndices(r, base, src) ==
    PushConst(r.p, [base EXCEPT !.t = r.p.ctype, !.n = @ + bc_const_gep_try_compute_offset(src, r.o)])
GepOverBase(r, src, words) ==
    IF r.o.k # "global" THEN PushUndef(r.p)
    ELSE IF Len(words) % 2 = 1 THEN PushConst(r.p, [r.o EXCEPT !.t = r.p.ctype])
    ELSE GepOverIndices(PairOperands(r.p, words, <<>>), r.o, src)

(* An address in a global: the element type and flags may come first, as   *)
(* the code of the record and its length say.                              *)
ConstGepRecord(d, code, rec) ==
    LET typed == code \in {24, 31, 32} \/ Len(rec) % 2 = 1
        at == (IF typed THEN 1 ELSE 0) + (IF code \in {24, 32} THEN 1 ELSE 0)
        src == IF typed THEN TypeOr(d, rec[1], TypeOr(d, rec[at + 1], I8)) ELSE TypeOr(d, rec[at + 1], I8)
    IN  IF code = 31 \/ at + 1 >= Len(rec) THEN PushUndef(d)
        ELSE GepOverBase(bc_make_operand_from_value(d, rec[at + 2], Ptr, FALSE), src, SubSeq(rec, at + 3, Len(rec)))

bc_decode_constants_block(d, code, rec, char6) ==
    CASE code = 1 -> ConstSetType(d, rec)
      [] code = 2 -> ConstNull(d)
      [] code \in {4, 5} -> ConstInteger(d, rec)
      [] code = 6 -> ConstFloat(d, rec)
      [] code = 7 -> ConstAggregate(d, rec)
      [] code \in {8, 9} -> ConstString(d, rec, char6)
      [] code = 22 -> IF IsSeq(d.ctype) THEN ConstData(d, rec) ELSE ConstString(d, rec, [i \in DOMAIN rec |-> FALSE])
      [] code = 11 -> ConstCastRecord(d, rec)
      [] code \in {12, 20, 24, 31, 32} -> ConstGepRecord(d, code, rec)
      [] OTHER -> PushUndef(d)
=============================================================================
