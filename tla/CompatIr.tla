------------------------------ MODULE CompatIr ------------------------------
(* The objects of the LLVM-compatible builder in liric_compat.c and the     *)
(* calls that make them: values, functions, blocks, instructions, phis,     *)
(* switches and globals, for a session that builds IR.  An operator takes   *)
(* the module m and returns it as the call leaves it; m.ret is the value or *)
(* object the call returns, m.reg the register an emission returns.         *)
(*                                                                          *)
(* Handles are positions in m.values, m.funcs, m.blocks, m.globals; 0 is    *)
(* NULL.  Ghost state, read by no operator that models code:                *)
(*   an instruction's want   what its operands were meant to be: values,    *)
(*                           or blocks, written -b, or functions called by  *)
(*                           name, written FuncWant(f)                      *)
(*   a value's g and from    the instruction or global it stands for, and   *)
(*                           the folded operation                           *)
(*   a function's defs       which instruction each register was given to   *)
EXTENDS Integers, Sequences, FiniteSets, SequencesExt, FiniteSetsExt

-----------------------------------------------------------------------------
(* Names.  The names of values and blocks of a function are made distinct   *)
(* by a number, those of globals by ".number", from caches that are filled  *)
(* as names are given out.                                                  *)
(*                                                                          *)
(* A name is the sequence of its pieces: words without digits or dots, the  *)
(* digits, ".", "_data" and the tag of a file-local name.  A symbol id is   *)
(* the name it was interned for.                                            *)

DigitTokens == << "0", "1", "2", "3", "4", "5", "6", "7", "8", "9" >>
IsDigit(t) == t \in ToSet(DigitTokens)
Decimal(n) == IF n < 10 THEN << DigitTokens[n + 1] >>
              ELSE << DigitTokens[(n \div 10) + 1], DigitTokens[(n % 10) + 1] >>
LocalTag == ".__liric_local."

(* The blocks of a function along the next pointers.                        *)
Chain(m, f) ==
    LET walk[k \in 0 .. Len(m.blocks)] ==
            IF k = 0 THEN IF m.funcs[f].first = 0 THEN << >> ELSE << m.funcs[f].first >>
            ELSE LET c == walk[k - 1]
                 IN  IF c = << >> \/ m.blocks[Last(c)].next = 0 THEN c
                     ELSE Append(c, m.blocks[Last(c)].next)
    IN  walk[Len(m.blocks)]
Linked(m, f) == ToSet(Chain(m, f))

----------------------------------------------------------------------------
(* Names within a function                                                  *)

BlockNames(m, f) ==
    { m.blocks[b].name : b \in Linked(m, f) \cup { d \in ToSet(m.detached) : m.blocks[d].func = f } } \ { << >> }

HasCache(m, f) == m.caches[f].exists
local_name_in_use(m, f, name) ==
    IF HasCache(m, f) THEN name \in m.caches[f].names ELSE name \in BlockNames(m, f)

local_name_cache_slot(m, f) == [m EXCEPT !.caches[f].exists = TRUE]
seed_local_name_cache(m, f) ==
    IF m.caches[f].names # {} THEN m ELSE [m EXCEPT !.caches[f].names = BlockNames(m, f)]

register_local_name(m, f, name) ==
    IF f = 0 \/ name = << >> THEN m
    ELSE [seed_local_name_cache(local_name_cache_slot(m, f), f) EXCEPT !.caches[f].names = @ \cup { name }]

(* The number a name ends in, when its digits are all at its end.           *)
EndNumber(name) ==
    LET ds == { i \in DOMAIN name : IsDigit(name[i]) }
    IN  IF ds = {} \/ \E i \in Min(ds) .. Len(name) : ~ IsDigit(name[i]) THEN 0
        ELSE FoldLeft(LAMBDA n, t : 10 * n + (CHOOSE k \in 0 .. 9 : DigitTokens[k + 1] = t),
                      0, SubSeq(name, Min(ds), Len(name)))
compute_local_name_next_suffix(m, f) ==
    Max({0} \cup { EndNumber(n) : n \in m.caches[f].names }) + 1

(* The first number that gives a free name, from the one the function's     *)
(* cache has reached.                                                       *)
FirstNumber(m, f, name, from) == from
FirstFree(m, f, name, from) ==
    CHOOSE k \in from .. from + Cardinality(m.caches[f].names) :
        /\ ~ local_name_in_use(m, f, name \o Decimal(k))
        /\ \A j \in from .. k - 1 : local_name_in_use(m, f, name \o Decimal(j))
NextSuffix(m, f) ==
    IF m.caches[f].next_suffix # 0 THEN m.caches[f].next_suffix ELSE compute_local_name_next_suffix(m, f)
UniqueFrom(m, f, name) ==
    LET k == FirstFree(m, f, name, NextSuffix(m, f))
    IN  [m |-> [m EXCEPT !.caches[f].next_suffix = k + 1], name |-> name \o Decimal(k)]
make_unique_local_name(m, f, name) ==
    IF ~ local_name_in_use(m, f, name) THEN [m |-> m, name |-> name]
    ELSE UniqueFrom(IF m.caches[f].next_suffix # 0 THEN m
                    ELSE seed_local_name_cache(local_name_cache_slot(m, f), f), f, name)

----------------------------------------------------------------------------
(* Names of globals and functions                                           *)

reserve_symbol_name_exact(m, name) == [m EXCEPT !.reserved = @ \cup { name }]

(* x.1 and x_data.1 are reserved together.                                  *)
reserve_sibling_data_name(m, name) ==
    LET dots == { i \in 2 .. Len(name) - 1 : name[i] = "." }
        dot == Max(dots)
        base == SubSeq(name, 1, dot - 1)
        tail == SubSeq(name, dot, Len(name))
    IN  IF dots = {} THEN m
        ELSE IF ~ IsDigit(name[dot + 1]) THEN m
        ELSE reserve_symbol_name_exact(m, IF Last(base) = "_data" THEN Front(base) \o tail
                                          ELSE base \o << "_data" >> \o tail)

(* A file-local name also reserves the name it is shown as.                 *)
reserve_symbol_name_variants(m, name) ==
    LET r == reserve_symbol_name_exact(m, name)
        visible == SelectSeq(name, LAMBDA t : t # LocalTag)
    IN  IF visible = name THEN reserve_sibling_data_name(r, name)
        ELSE reserve_sibling_data_name(reserve_symbol_name_exact(r, visible), visible)

lc_module_name_reserved(m, name) == name \in m.reserved

Numbered(name, k) == IF k = 0 THEN name ELSE name \o << "." >> \o Decimal(k)
(* The first of name, name.1, name.2 ... from a number on that is free.     *)
FreeNumber(m, name, from) ==
    CHOOSE k \in from .. from + Cardinality(m.reserved) :
        /\ ~ lc_module_name_reserved(m, Numbered(name, k))
        /\ \A j \in from .. k - 1 : lc_module_name_reserved(m, Numbered(name, j))
make_unique_symbol_name(m, name) == Numbered(name, FreeNumber(m, name, 0))

----------------------------------------------------------------------------
(* Looking a symbol up: the cache by symbol id first, then the lists.       *)

compat_func_candidate_score(m, f) ==
    (IF m.funcs[f].first # 0 THEN 4 ELSE 0) + (IF m.funcs[f].abi THEN 2 ELSE 0)
        + (IF m.funcs[f].decl THEN 0 ELSE 1)
find_func_linear(m, name) ==
    LET named == { f \in DOMAIN m.funcs : m.funcs[f].name = name }
        best == { f \in named : \A g \in named :
                    compat_func_candidate_score(m, g) <= compat_func_candidate_score(m, f) }
    IN  IF named = {} THEN 0 ELSE Min(best)
find_global_linear(m, name) ==
    LET named == { g \in DOMAIN m.globals : m.globals[g].name = name }
    IN  IF named = {} THEN 0 ELSE Min(named)

InCache(cache, name) == IF name \in DOMAIN cache THEN cache[name] ELSE 0
Cached(cache, name, x) == [n \in DOMAIN cache \cup { name } |-> IF n = name THEN x ELSE cache[n]]

(* What a lookup finds, and the module with the cache as it leaves it.      *)
FoundFunc(m, name) ==
    IF InCache(m.func_by_sym, name) # 0 THEN m.func_by_sym[name] ELSE find_func_linear(m, name)
lookup_func_cached(m, name) ==
    IF FoundFunc(m, name) = 0 THEN m
    ELSE [m EXCEPT !.func_by_sym = Cached(@, name, FoundFunc(m, name))]
FoundGlobal(m, name) ==
    IF InCache(m.global_by_sym, name) # 0 THEN m.global_by_sym[name] ELSE find_global_linear(m, name)
lookup_global_cached(m, name) ==
    IF FoundGlobal(m, name) = 0 THEN m
    ELSE [m EXCEPT !.global_by_sym = Cached(@, name, FoundGlobal(m, name))]

cache_func_by_symbol(m, name, f) ==
    reserve_symbol_name_variants([m EXCEPT !.func_by_sym = Cached(@, name, f)], m.funcs[f].name)
cache_global_by_symbol(m, name, g) ==
    reserve_symbol_name_variants([m EXCEPT !.global_by_sym = Cached(@, name, g)], m.globals[g].name)
(* A global that has been renamed is known by its present name.             *)
canonical_global_sym_id(m, g) ==
    [m EXCEPT !.global_by_sym = Cached(@, m.globals[g].name, g)]

-----------------------------------------------------------------------------
(* The constants the LLVM-compatible builder folds instead of emitting an   *)
(* instruction.  A 64-bit integer of the code is a word of WordBits bits    *)
(* here, signed as int64_t is; uint64_t is its value modulo 2^WordBits.     *)

CONSTANT WordBits
ASSUME WordBitsAssumption == WordBits \in Nat \ {0}

Modulus == 2 ^ WordBits
Unsigned(a) == a % Modulus
Signed(u) == IF u % Modulus >= Modulus \div 2 THEN (u % Modulus) - Modulus ELSE u % Modulus
Words == - (Modulus \div 2) .. (Modulus \div 2) - 1

(* C's division: towards zero.                                              *)
Abs(a) == IF a < 0 THEN - a ELSE a
Quot(a, b) == IF (a < 0) = (b < 0) THEN Abs(a) \div Abs(b) ELSE - (Abs(a) \div Abs(b))
Rem(a, b) == a - b * Quot(a, b)
Bit(a, i) == (Unsigned(a) \div 2 ^ i) % 2
Bits(F(_)) == Signed(SumSet({ F(i) * 2 ^ i : i \in 0 .. WordBits - 1 }))

Divisions == {"sdiv", "srem", "udiv", "urem"}
Shifts == {"shl", "lshr", "ashr"}
IntOps == {"add", "sub", "mul", "and", "or", "xor"} \cup Divisions \cup Shifts

UDivSigned(a, b) == Quot(a, b)
UDiv(a, b) == Signed(Unsigned(a) \div Unsigned(b))

(* A division by zero is left to the program.                               *)
Folds(op, b) == op \in IntOps /\ ~ (op \in Divisions /\ b = 0)
compat_fold_int_binop(op, a, b) ==
    CASE op = "add" -> Signed(a + b)
      [] op = "sub" -> Signed(a - b)
      [] op = "mul" -> Signed(a * b)
      [] op = "sdiv" -> Quot(a, b)
      [] op = "srem" -> Rem(a, b)
      [] op = "udiv" -> UDiv(a, b)
      [] op = "urem" -> Signed(Unsigned(a) % Unsigned(b))
      [] op = "and" -> Bits(LAMBDA i : IF Bit(a, i) = 1 /\ Bit(b, i) = 1 THEN 1 ELSE 0)
      [] op = "or" -> Bits(LAMBDA i : IF Bit(a, i) = 1 \/ Bit(b, i) = 1 THEN 1 ELSE 0)
      [] op = "xor" -> Bits(LAMBDA i : IF Bit(a, i) # Bit(b, i) THEN 1 ELSE 0)
      [] op = "shl" -> Signed(a * 2 ^ b)
      [] op = "lshr" -> Signed(Unsigned(a) \div 2 ^ b)
      [] op = "ashr" -> a \div 2 ^ b

Preds == {"eq", "ne", "sgt", "sge", "slt", "sle", "ugt", "uge", "ult", "ule"}
Truth(p) == IF p THEN 1 ELSE 0
compat_fold_icmp(pred, a, b) ==
    LET u == Unsigned(a) v == Unsigned(b)
    IN  Truth(CASE pred = "eq" -> u = v
                [] pred = "ne" -> u # v
                [] pred = "sgt" -> a > b
                [] pred = "sge" -> a >= b
                [] pred = "slt" -> a < b
                [] pred = "sle" -> a <= b
                [] pred = "ugt" -> u > v
                [] pred = "uge" -> u >= v
                [] pred = "ult" -> u < v
                [] pred = "ule" -> u <= v)

----------------------------------------------------------------------------
(* What LLVM's instructions compute, stated by what determines the result.  *)

(* The word whose residue is r.                                             *)
WordOf(r) == CHOOSE w \in Words : \E k \in - Modulus .. Modulus : w = r + k * Modulus
Half == Modulus \div 2
IntMeaning(op, a, b) ==
    LET u == IF a < 0 THEN a + Modulus ELSE a
        v == IF b < 0 THEN b + Modulus ELSE b
        SameBits(p(_, _), w) == \A i \in 0 .. WordBits - 1 : (Bit(w, i) = 1) <=> p(Bit(a, i) = 1, Bit(b, i) = 1)
    IN  CASE op = "add" -> WordOf(u + v)
          [] op = "sub" -> WordOf(u - v)
          [] op = "mul" -> WordOf(u * v)
          [] op = "sdiv" -> CHOOSE q \in Words : \E r \in Words :
                                a = q * b + r /\ Abs(r) < Abs(b) /\ r * a >= 0
          [] op = "srem" -> CHOOSE r \in Words : \E q \in Words :
                                a = q * b + r /\ Abs(r) < Abs(b) /\ r * a >= 0
          [] op = "udiv" -> WordOf(CHOOSE q \in 0 .. Modulus - 1 : q * v <= u /\ u < (q + 1) * v)
          [] op = "urem" -> WordOf(CHOOSE r \in 0 .. v - 1 : \E q \in 0 .. Modulus - 1 : u = q * v + r)
          [] op = "and" -> CHOOSE w \in Words : SameBits(LAMBDA p, q : p /\ q, w)
          [] op = "or" -> CHOOSE w \in Words : SameBits(LAMBDA p, q : p \/ q, w)
          [] op = "xor" -> CHOOSE w \in Words : SameBits(LAMBDA p, q : p # q, w)
          [] op = "shl" -> CHOOSE w \in Words : \A i \in 0 .. WordBits - 1 :
                                Bit(w, i) = IF i < b THEN 0 ELSE Bit(a, i - b)
          [] op = "lshr" -> CHOOSE w \in Words : \A i \in 0 .. WordBits - 1 :
                                Bit(w, i) = IF i + b < WordBits THEN Bit(a, i + b) ELSE 0
          [] op = "ashr" -> CHOOSE w \in Words : \A i \in 0 .. WordBits - 1 :
                                Bit(w, i) = IF i + b < WordBits THEN Bit(a, i + b) ELSE Bit(a, WordBits - 1)
(* Unsigned order is signed order with the top bit flipped.                 *)
CmpMeaning(pred, a, b) ==
    LET flip(w) == IF w < 0 THEN w + Half ELSE w - Half
    IN  Truth(\/ pred \in {"eq", "sge", "sle", "uge", "ule"} /\ a = b
              \/ pred = "ne" /\ a # b
              \/ pred \in {"sgt", "sge"} /\ b < a
              \/ pred \in {"slt", "sle"} /\ a < b
              \/ pred \in {"ugt", "uge"} /\ flip(b) < flip(a)
              \/ pred \in {"ult", "ule"} /\ flip(a) < flip(b))

-----------------------------------------------------------------------------
(* Values and functions                                                     *)

NoId == 99          \* UINT32_MAX
NoReg == 98         \* an instruction without result

Value(kind, ty) == [kind |-> kind, ty |-> ty, n |-> 0, fn |-> 0, bl |-> 0, name |-> << >>,
                    lname |-> << >>, g |-> 0, from |-> << >>]
NewBlock(f, id, name) == [func |-> f, id |-> id, name |-> name, next |-> 0, insts |-> << >>, gone |-> FALSE]

value_pool_alloc(m, v) == [m EXCEPT !.values = Append(@, v), !.ret = Len(m.values) + 1]
lc_value_vreg(m, id, ty, f) ==
    value_pool_alloc(m, [Value("vreg", ty) EXCEPT !.n = id, !.fn = f, !.g = m.serial])
lc_value_const_int(m, ty, n, from) == value_pool_alloc(m, [Value("int", ty) EXCEPT !.n = n, !.from = from])
lc_value_const_null(m, ty) == value_pool_alloc(m, Value("null", ty))
lc_value_global(m, name, g) == value_pool_alloc(m, [Value("global", "ptr") EXCEPT !.name = name, !.g = g])
lc_value_argument(m, i, ty, f) == value_pool_alloc(m, [Value("arg", ty) EXCEPT !.n = i, !.fn = f])
lc_value_global_with_addend(m, h, addend) ==
    LET v == m.values[h]
    IN  value_pool_alloc(m, [v EXCEPT !.n = @ + addend, !.lname = << >>])

lc_value_set_name(m, h, name) ==
    LET s == [m EXCEPT !.values[h].lname = name] v == m.values[h]
    IN  IF v.kind \in {"vreg", "arg", "block"} THEN register_local_name(s, v.fn, name) ELSE s

----------------------------------------------------------------------------
(* Operands                                                                 *)

Operand(k, n, name, ty) == [k |-> k, n |-> n, name |-> name, ty |-> ty]
lc_value_to_desc(m, h) ==
    LET v == m.values[h]
    IN  CASE v.kind = "vreg" -> Operand("vreg", v.n, << >>, v.ty)
          [] v.kind = "int" -> Operand("imm", v.n, << >>, v.ty)
          [] v.kind = "null" -> Operand("null", 0, << >>, v.ty)
          [] v.kind = "undef" -> Operand("undef", 0, << >>, v.ty)
          [] v.kind = "global" -> Operand("global", v.n, v.name, v.ty)
          [] v.kind = "arg" ->
                IF v.n < m.funcs[v.fn].num_params /\ m.funcs[v.fn].param_vregs # << >>
                THEN Operand("vreg", m.funcs[v.fn].param_vregs[v.n + 1], << >>, v.ty)
                ELSE Operand("imm", 0, << >>, v.ty)
          [] v.kind = "block" -> Operand("block", m.blocks[v.bl].id, << >>, "none")
block_operand_desc(m, b) == Operand("block", m.blocks[b].id, << >>, "none")
global_operand_desc(name) == Operand("global", 0, name, "ptr")
compat_operand_equal(a, b) ==
    a.k = b.k /\ a.ty = b.ty /\ (a.k \notin {"null", "undef"} => a.n = b.n /\ a.name = b.name)

(* What a value stands for, and what an operand of function f decodes to.   *)
FuncWant(f) == - f - 50
Meaning(m, h) ==
    LET v == m.values[h]
    IN  CASE h < -50 -> << "func", - h - 50, 0 >>
          [] h < 0 /\ h >= -50 -> << "block", - h >>
          [] v.kind = "vreg" -> << "reg", v.fn, v.g >>
          [] v.kind = "arg" -> << "arg", v.fn, v.n >>
          [] v.kind = "int" -> << "int", v.n >>
          [] v.kind = "global" -> IF v.fn # 0 THEN << "func", v.fn, v.n >> ELSE << "global", v.g, v.n >>
          [] OTHER -> << v.kind >>
Bound(m, f) == { b \in DOMAIN m.blocks : m.blocks[b].func = f }
Decode(m, f, op) ==
    LET one(S) == IF Cardinality(S) = 1 THEN CHOOSE x \in S : TRUE ELSE << "lost" >>
        params == m.funcs[f].param_vregs
    IN  CASE op.k = "vreg" -> one({ << "reg", f, d[2] >> : d \in { e \in m.funcs[f].defs : e[1] = op.n } }
                                  \cup { << "arg", f, i - 1 >> : i \in { j \in DOMAIN params : params[j] = op.n } })
          [] op.k = "imm" -> << "int", op.n >>
          [] op.k = "global" -> one({ << "func", k, op.n >> : k \in { j \in DOMAIN m.funcs : m.funcs[j].name = op.name } }
                                    \cup { << "global", g, op.n >> : g \in { j \in DOMAIN m.globals : m.globals[j].name = op.name } })
          [] op.k = "block" -> one({ << "block", b >> : b \in { c \in Bound(m, f) : m.blocks[c].id = op.n } })
          [] OTHER -> << op.k >>

compat_owner_func(m, h) ==
    LET v == m.values[h]
    IN  IF v.kind = "block" /\ v.fn = 0 THEN m.blocks[v.bl].func ELSE v.fn

(* Only the linked blocks of the function that owns the value are searched. *)
lc_value_replace_all_uses_with(m, from, to) ==
    LET old == lc_value_to_desc(m, from)
        new == lc_value_to_desc(m, to)
        f == IF compat_owner_func(m, from) # 0 THEN compat_owner_func(m, from) ELSE compat_owner_func(m, to)
        Replaced(inst) ==
            [inst EXCEPT !.ops = [i \in DOMAIN @ |-> IF compat_operand_equal(@[i], old) THEN new ELSE @[i]],
                         !.want = [i \in DOMAIN @ |-> IF Meaning(m, @[i]) = Meaning(m, from) THEN to ELSE @[i]]]
        In(b) == b \in Linked(m, f)
    IN  IF from = to \/ f = 0 THEN m
        ELSE [m EXCEPT !.blocks = [b \in DOMAIN @ |->
                 IF In(b) THEN [@[b] EXCEPT !.insts = [i \in DOMAIN @ |-> Replaced(@[i])]] ELSE @[b]]]

----------------------------------------------------------------------------
(* Emission                                                                 *)

Terminators == {"ret", "ret_void", "br", "condbr", "unreachable"}
opcode_has_dest(op, ty) == op \notin Terminators \cup {"store"} /\ (op = "call" => ty # "void")

(* The session is bound to the block before every instruction; its table of *)
(* blocks grows to the block's id.                                          *)
lr_session_bind_ir(m, b) ==
    [m EXCEPT !.block_count = IF @ <= m.blocks[b].id THEN m.blocks[b].id + 1 ELSE @]

lr_session_emit(m, b, f, op, ty, pred, ops, want) ==
    LET has == opcode_has_dest(op, ty)
        r == m.funcs[f].next_vreg
        inst == [op |-> op, ty |-> ty, pred |-> pred, dest |-> IF has THEN r ELSE NoReg, ops |-> ops, want |-> want]
    IN  [m EXCEPT !.blocks[b].insts = Append(@, inst), !.serial = @ + 1, !.reg = IF has THEN r ELSE 0,
                  !.funcs[f].next_vreg = IF has THEN @ + 1 ELSE @,
                  !.funcs[f].defs = IF has THEN @ \cup { << r, m.serial + 1 >> } ELSE @]

OperandOf(m, h) ==
    IF h < -50 THEN global_operand_desc(m.funcs[- h - 50].name)
    ELSE IF h < 0 THEN block_operand_desc(m, - h) ELSE lc_value_to_desc(m, h)
compat_emit(m, b, f, op, ty, pred, want) ==
    IF m.blocks[b].func = 0 \/ m.blocks[b].func # f THEN [m EXCEPT !.reg = 0]
    ELSE lr_session_emit(lr_session_bind_ir(m, b), b, f, op, ty, pred,
                         [i \in DOMAIN want |-> OperandOf(m, want[i])], want)

wrap_vreg(m, ty, f) == lc_value_vreg(m, m.reg, ty, f)
NameReturned(m, name) == lc_value_set_name(m, m.ret, name)
NameUnique(u) == NameReturned(u.m, u.name)
wrap_vreg_named(m, ty, f, name) ==
    IF name = << >> THEN wrap_vreg(m, ty, f)
    ELSE NameUnique(make_unique_local_name(wrap_vreg(m, ty, f), f, name))

----------------------------------------------------------------------------
(* Instructions that compute                                                *)

IsConst(m, h) == m.values[h].kind = "int"
compat_const_int_like(m, h) == m.values[h].kind \in {"int", "null"}

compat_binop(m, b, f, op, l, r, name) ==
    LET x == m.values[l] y == m.values[r]
        folded == lc_value_const_int(m, x.ty, compat_fold_int_binop(op, x.n, y.n), << op, x.n, y.n >>)
    IN  IF IsConst(m, l) /\ IsConst(m, r) /\ Folds(op, y.n) THEN NameReturned(folded, name)
        ELSE wrap_vreg_named(compat_emit(m, b, f, op, x.ty, "none", << l, r >>), x.ty, f, name)

compat_icmp(m, b, f, pred, l, r, name) ==
    LET x == m.values[l] y == m.values[r]
        folded == lc_value_const_int(m, "i1", compat_fold_icmp(pred, x.n, y.n), << pred, x.n, y.n >>)
    IN  IF compat_const_int_like(m, l) /\ compat_const_int_like(m, r)
        THEN NameReturned(folded, name)
        ELSE wrap_vreg_named(compat_emit(m, b, f, "icmp", "i1", pred, << l, r >>), "i1", f, name)

Returning(m, h) == [m EXCEPT !.ret = h]
compat_cast(m, b, f, op, h, to, name) ==
    LET v == m.values[h]
    IN  IF v.ty = to THEN Returning(m, h)
        ELSE IF op = "ptrtoint" /\ v.kind = "null" THEN lc_value_const_int(m, to, 0, << >>)
        ELSE IF op = "inttoptr" /\ v.kind = "int" /\ v.n = 0 THEN lc_value_const_null(m, to)
        ELSE wrap_vreg_named(compat_emit(m, b, f, op, to, "none", << h >>), to, f, name)
lc_create_zext_or_trunc(m, b, f, h, to, name) ==
    IF m.values[h].ty = to THEN Returning(m, h)
    ELSE compat_cast(m, b, f, IF m.values[h].ty = "i1" THEN "zext" ELSE "trunc", h, to, name)

lc_create_select(m, b, f, c, x, y, name) ==
    wrap_vreg_named(compat_emit(m, b, f, "select", m.values[x].ty, "none", << c, x, y >>), m.values[x].ty, f, name)
lc_create_alloca(m, b, f, name) == wrap_vreg_named(compat_emit(m, b, f, "alloca", "i64", "none", << >>), "ptr", f, name)
lc_create_load(m, b, f, p, name) == wrap_vreg_named(compat_emit(m, b, f, "load", "i64", "none", << p >>), "i64", f, name)
lc_create_store(m, b, v, p) == compat_emit(m, b, m.blocks[b].func, "store", "void", "none", << v, p >>)

(* Indices that step by nothing are dropped when the base is a scalar.      *)
lc_create_gep(m, b, f, scalar, p, indices, name) ==
    LET idle(h) == m.values[h].kind = "undef" \/ (IsConst(m, h) /\ m.values[h].n = 0)
        kept == CHOOSE k \in {Len(indices)} \cup 1 .. Len(indices) :
                    /\ \A j \in k + 1 .. Len(indices) : scalar /\ idle(indices[j])
                    /\ k > 1 /\ scalar => ~ idle(indices[k])
    IN  wrap_vreg_named(compat_emit(m, b, f, "gep", "i64", "none", << p >> \o SubSeq(indices, 1, kept)), "ptr", f, name)

lc_create_ret(m, b, h) == compat_emit(m, b, m.blocks[b].func, "ret", m.values[h].ty, "none", << h >>)
lc_create_ret_void(m, b) == compat_emit(m, b, m.blocks[b].func, "ret_void", "void", "none", << >>)
lc_create_unreachable(m, b) == compat_emit(m, b, m.blocks[b].func, "unreachable", "void", "none", << >>)
lc_create_call(m, b, f, ty, callee, args, name) ==
    IF ty = "void" THEN Returning(compat_emit(m, b, f, "call", ty, "none", << callee >> \o args), 0)
    ELSE wrap_vreg_named(compat_emit(m, b, f, "call", ty, "none", << callee >> \o args), ty, f, name)
=============================================================================
