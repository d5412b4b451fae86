--------------------------- MODULE CompatObjects ----------------------------
(* Functions, blocks, phis, switches and globals of the LLVM-compatible     *)
(* builder; conventions as in CompatIr.                                     *)
EXTENDS CompatIr

(* Function types by name; how many parameters each has.                    *)
CONSTANTS FuncTypes, NumParams
ASSUME FuncTypesAssumption == NumParams \in [FuncTypes -> Nat]

----------------------------------------------------------------------------
(* Functions                                                                *)

(* A function made by lr_func_create has a type object of its own.          *)
lr_func_create(m, name, ty, decl, abi) ==
    LET n == NumParams[ty]
        f == [name |-> name, ty |-> "own", decl |-> decl, abi |-> abi, num_params |-> n,
              param_vregs |-> [i \in 1 .. n |-> i - 1], next_vreg |-> n,
              first |-> 0, last |-> 0, num_blocks |-> 0, defs |-> {}]
    IN  [m EXCEPT !.funcs = Append(@, f), !.ret = Len(m.funcs) + 1,
                  !.caches = Append(@, [exists |-> FALSE, names |-> {}, next_suffix |-> 0])]

create_func_value(m, f) ==
    LET v == lc_value_global(m, m.funcs[f].name, 0)
    IN  cache_func_by_symbol([v EXCEPT !.values[Len(m.values) + 1].fn = f], m.funcs[f].name, f)
FuncValue(m) == create_func_value(m, m.ret)

func_signature_matches(m, f, ty) == m.funcs[f].ty = ty /\ m.funcs[f].num_params = NumParams[ty]
func_reinit_for_create(m, f, ty) ==
    [m EXCEPT !.funcs[f] = [@ EXCEPT !.ty = ty, !.num_params = NumParams[ty], !.param_vregs = << >>,
                                     !.decl = FALSE, !.abi = TRUE, !.first = 0, !.last = 0,
                                     !.num_blocks = 0, !.next_vreg = NumParams[ty] + 1]]
lc_func_create(m, name, ty) ==
    LET l == lookup_func_cached(m, name) f == FoundFunc(m, name)
    IN  FuncValue(IF f = 0 THEN lr_func_create(l, name, ty, FALSE, TRUE)
                  ELSE IF func_signature_matches(l, f, ty)
                  THEN [l EXCEPT !.ret = f, !.funcs[f].decl = FALSE, !.funcs[f].abi = TRUE]
                  ELSE [func_reinit_for_create(l, f, ty) EXCEPT !.ret = f])
lc_func_declare(m, name, ty) ==
    LET l == lookup_func_cached(m, name) f == FoundFunc(m, name)
        changed == l.funcs[f].decl /\ ~ func_signature_matches(l, f, ty)
    IN  FuncValue(IF f = 0 THEN lr_func_create(l, name, ty, TRUE, TRUE)
                  ELSE [l EXCEPT !.ret = f, !.funcs[f].abi = TRUE,
                                 !.funcs[f].ty = IF changed THEN ty ELSE @,
                                 !.funcs[f].num_params = IF changed THEN NumParams[ty] ELSE @,
                                 !.funcs[f].next_vreg = IF changed THEN NumParams[ty] + 1 ELSE @])

----------------------------------------------------------------------------
(* Blocks                                                                   *)

(* The new block becomes the last of its function's list.                   *)
LinkLast(m, f, b) ==
    LET last == m.funcs[f].last
        s == IF m.funcs[f].first = 0 THEN [m EXCEPT !.funcs[f].first = b, !.funcs[f].decl = FALSE]
             ELSE [m EXCEPT !.blocks[last].next = b]
    IN  [s EXCEPT !.funcs[f].last = b]

lr_block_create(m, f, name) ==
    LET b == Len(m.blocks) + 1
        s == [m EXCEPT !.blocks = Append(@, NewBlock(f, m.funcs[f].num_blocks, name)), !.funcs[f].num_blocks = @ + 1]
    IN  [LinkLast(s, f, b) EXCEPT !.ret = b]

UniqueBlockName(m, f, name) ==
    IF f = 0 \/ name = << >> THEN [m |-> m, name |-> name] ELSE make_unique_local_name(m, f, name)
NamedBlock(u, f) == register_local_name(lr_block_create(u.m, f, u.name), f, u.name)

(* The name is made distinct before the block exists, registered after.     *)
lc_block_create(m, f, name) ==
    NamedBlock(UniqueBlockName(m, f, name), f)

detached_block_add(m, b) == [m EXCEPT !.detached = IF b \in ToSet(@) THEN @ ELSE Append(@, b)]
detached_block_remove(m, b) ==
    [m EXCEPT !.detached = LET moved == [i \in DOMAIN @ |-> IF @[i] = b THEN Last(@) ELSE @[i]] IN Front(moved)]

block_bind_func_internal(m, b, f) ==
    IF (m.blocks[b].func = f /\ m.blocks[b].id # NoId) \/ m.blocks[b].func \notin {0, f} THEN m
    ELSE [m EXCEPT !.blocks[b].func = f, !.blocks[b].id = m.funcs[f].num_blocks, !.funcs[f].num_blocks = @ + 1]

(* f = 0: a block without function, which gets its id when it is bound.     *)
DetachedBlock(u, f) ==
    LET b == Len(u.m.blocks) + 1
        id == IF f = 0 THEN NoId ELSE u.m.funcs[f].num_blocks
        n == [u.m EXCEPT !.blocks = Append(@, NewBlock(f, id, u.name)), !.ret = b,
                         !.funcs = [k \in DOMAIN @ |-> IF k = f THEN [@[k] EXCEPT !.num_blocks = @ + 1] ELSE @[k]]]
    IN  detached_block_add(register_local_name(n, f, u.name), b)
lc_block_create_detached(m, f, name) == DetachedBlock(UniqueBlockName(m, f, name), f)

(* A block is in its function's list if it is the last or has a successor.  *)
block_linked_in_func(m, f, b) ==
    f # 0 /\ m.blocks[b].func = f /\ (m.funcs[f].last = b \/ m.blocks[b].next # 0)
lc_block_attach(m, b) ==
    LET f == m.blocks[b].func
    IN  IF b \notin ToSet(m.detached) THEN m
        ELSE IF f = 0 \/ block_linked_in_func(m, f, b) THEN detached_block_remove(m, b)
        ELSE detached_block_remove(LinkLast([m EXCEPT !.blocks[b].next = 0], f, b), b)

lc_block_has_terminator(m, b) ==
    m.blocks[b].insts # << >> /\ Last(m.blocks[b].insts).op \in Terminators

(* A branch binds a target that has no function yet; a builder's CreateBr   *)
(* and CreateCondBr have attached it by then.                               *)
BindTarget(m, b, t) ==
    IF m.blocks[t].func = 0 THEN block_bind_func_internal(m, t, m.blocks[b].func) ELSE m
(* ops: blocks as targets, and the condition before them.                   *)
EmitBranch(m, b, op, targets, ops) ==
    IF \E t \in targets : m.blocks[t].func # m.blocks[b].func THEN m
    ELSE compat_emit(m, b, m.blocks[b].func, op, "void", "none", ops)
lc_create_br(m, b, t) ==
    IF m.blocks[b].func = 0 THEN m ELSE EmitBranch(BindTarget(m, b, t), b, "br", { t }, << - t >>)
lc_create_cond_br(m, b, c, t, e) ==
    IF m.blocks[b].func = 0 THEN m
    ELSE EmitBranch(BindTarget(BindTarget(m, b, t), b, e), b, "condbr", { t, e }, << c, - t, - e >>)
CreateBr(m, b, t) == lc_create_br(lc_block_attach(BindTarget(m, b, t), t), b, t)
CreateCondBr(m, b, c, t, e) ==
    lc_create_cond_br(lc_block_attach(lc_block_attach(BindTarget(BindTarget(m, b, t), b, e), t), e), b, c, t, e)

lc_func_uses_block_id(m, f, skip, id) ==
    \E b \in Linked(m, f) \ { skip } : \E i \in DOMAIN m.blocks[b].insts :
        \E j \in DOMAIN m.blocks[b].insts[i].ops :
            LET op == m.blocks[b].insts[i].ops[j] IN op.k = "block" /\ op.n = id
RemapNothing(m, f, id) == m
lc_func_remap_block_operands_after_erase(m, f, id) ==
    LET down(op) == IF op.k = "block" /\ op.n > id THEN [op EXCEPT !.n = @ - 1] ELSE op
        inst(x) == [x EXCEPT !.ops = [j \in DOMAIN @ |-> down(@[j])]]
        In(b) == b \in Linked(m, f)
    IN  [m EXCEPT !.blocks = [b \in DOMAIN @ |->
            IF In(b) THEN [@[b] EXCEPT !.insts = [i \in DOMAIN @ |-> inst(@[i])]] ELSE @[b]]]

lr_find_prev_block(m, f, b) ==
    LET c == Chain(m, f) ps == { i \in 1 .. Len(c) - 1 : c[i + 1] = b }
    IN  IF m.funcs[f].first = b \/ ps = {} THEN 0 ELSE c[Min(ps)]
InList(m, f, b) == lr_find_prev_block(m, f, b) # 0 \/ m.funcs[f].first = b
Unlink(m, f, b) ==
    LET prev == lr_find_prev_block(m, f, b)
        s == IF prev # 0 THEN [m EXCEPT !.blocks[prev].next = m.blocks[b].next]
             ELSE [m EXCEPT !.funcs[f].first = m.blocks[b].next]
    IN  [s EXCEPT !.funcs[f].last = IF @ = b THEN prev ELSE @]

(* The ids above the erased one move down, in the blocks and in the         *)
(* operands that name them.                                                 *)
IdsDown(m, f, id) ==
    LET In(b) == b \in Linked(m, f)
    IN  [m EXCEPT !.funcs[f].num_blocks = IF @ > 0 THEN @ - 1 ELSE 0,
                  !.funcs[f].decl = (m.funcs[f].first = 0),
                  !.blocks = [b \in DOMAIN @ |->
                      IF In(b) /\ @[b].id > id THEN [@[b] EXCEPT !.id = @ - 1] ELSE @[b]]]
lr_llvm_compat_block_erase(m, b) ==
    LET f == m.blocks[b].func id == m.blocks[b].id
    IN  IF f = 0 THEN m
        ELSE IF lc_func_uses_block_id(m, f, b, id) \/ ~ InList(m, f, b) THEN m
        ELSE lc_func_remap_block_operands_after_erase(
                 IdsDown([Unlink(m, f, b) EXCEPT !.blocks[b] = [@ EXCEPT !.func = 0, !.next = 0, !.gone = TRUE]],
                         f, id), f, id)

MoveAllowed(m, b, anchor) ==
    b # anchor /\ m.blocks[b].func # 0 /\ m.blocks[b].func = m.blocks[anchor].func
(* The list with an unlinked block put next to the anchor.                  *)
LinkAfterLastKept(m, f, b, anchor) ==
    [m EXCEPT !.blocks[b].next = m.blocks[anchor].next, !.blocks[anchor].next = b]
LinkAfter(m, f, b, anchor) ==
    [m EXCEPT !.blocks[b].next = m.blocks[anchor].next, !.blocks[anchor].next = b,
              !.funcs[f].last = IF @ = anchor THEN b ELSE @]
LinkBefore(m, f, b, anchor) ==
    LET prev == lr_find_prev_block(m, f, anchor)
    IN  IF prev # 0 THEN [m EXCEPT !.blocks[prev].next = b, !.blocks[b].next = anchor]
        ELSE [m EXCEPT !.funcs[f].first = b, !.blocks[b].next = anchor]
lr_llvm_compat_block_move_after(m, b, anchor) ==
    LET f == m.blocks[b].func
    IN  IF ~ MoveAllowed(m, b, anchor) THEN m
        ELSE IF m.blocks[anchor].next = b \/ ~ InList(m, f, b) THEN m
        ELSE LinkAfter(Unlink(m, f, b), f, b, anchor)
lr_llvm_compat_block_move_before(m, b, anchor) ==
    LET f == m.blocks[b].func
    IN  IF ~ MoveAllowed(m, b, anchor) THEN m
        ELSE IF m.blocks[b].next = anchor \/ ~ InList(m, f, b) THEN m
        ELSE LinkBefore(Unlink(m, f, b), f, b, anchor)

(* Without an anchor a block that is already in the list goes to its end.   *)
InsertAttached(m, f, b, before, attached) ==
    IF before = 0 /\ attached /\ m.funcs[f].last \notin {0, b}
    THEN lr_llvm_compat_block_move_after(m, b, m.funcs[f].last)
    ELSE IF before \in {0, b} THEN m
    ELSE IF m.blocks[before].func # f THEN m ELSE lr_llvm_compat_block_move_before(m, b, before)
InsertBound(m, f, b, before) ==
    LET attached == m.funcs[f].last = b \/ m.blocks[b].next # 0
    IN  IF m.blocks[b].func # f THEN m
        ELSE InsertAttached(IF attached THEN m ELSE lc_block_attach(m, b), f, b, before, attached)
lr_llvm_compat_function_insert_block(m, f, b, before) ==
    InsertBound(IF m.blocks[b].func = 0 THEN block_bind_func_internal(m, b, f) ELSE m, f, b, before)

----------------------------------------------------------------------------
(* Phis.  m.phis[p] keeps the incoming values and the ids their blocks had. *)

PhiAt(m, p) ==
    LET is == m.blocks[m.phis[p].block].insts
    IN  { i \in DOMAIN is : is[i].op = "phi" /\ is[i].dest = m.phis[p].dest }
(* The operands are made anew from all incoming values.                     *)
phi_refresh_operands(m, p) ==
    LET phi == m.phis[p] at == PhiAt(m, p)
        ops == FlattenSeq([i \in DOMAIN phi.vals |->
                  << lc_value_to_desc(m, phi.vals[i]), Operand("block", phi.preds[i], << >>, "none") >>])
        want == FlattenSeq([i \in DOMAIN phi.vals |-> << phi.vals[i], - phi.from[i] >>])
    IN  IF at = {} THEN m
        ELSE [m EXCEPT !.blocks[phi.block].insts[Min(at)] = [@ EXCEPT !.ops = ops, !.want = want]]

AddPhi(m, b, f, ty, name) ==
    [wrap_vreg_named(m, ty, f, name) EXCEPT
        !.phis = Append(@, [block |-> b, func |-> f, ty |-> ty, dest |-> m.reg, result |-> Len(m.values) + 1,
                            vals |-> << >>, preds |-> << >>, from |-> << >>, finalized |-> FALSE]),
        !.ret = Len(m.phis) + 1]
lc_create_phi(m, b, f, ty, name) ==
    AddPhi(compat_emit(m, b, f, "phi", ty, "none", << >>), b, f, ty, name)

phi_has_incoming_pred(m, p, id) == id \in ToSet(m.phis[p].preds)
block_branches_to(m, b, id) ==
    /\ m.blocks[b].insts # << >>
    /\ LET t == Last(m.blocks[b].insts)
       IN  t.op \in {"br", "condbr"} /\ \E i \in DOMAIN t.ops : t.ops[i].k = "block" /\ t.ops[i].n = id
(* The only block that branches here and is not among the incoming ones.    *)
lc_phi_infer_missing_pred(m, p) ==
    LET phi == m.phis[p]
        cs == { b \in Linked(m, phi.func) \ { phi.block } :
                    /\ block_branches_to(m, b, m.blocks[phi.block].id)
                    /\ ~ phi_has_incoming_pred(m, p, m.blocks[b].id) }
    IN  IF Cardinality(cs) = 1 THEN CHOOSE b \in cs : TRUE ELSE 0

IntRank(ty) == IF ty = "i1" THEN 1 ELSE IF ty = "i64" THEN 2 ELSE 0
(* An integer of another width is cast at the end of the incoming block.    *)
phi_coerce_incoming(m, p, h, b) ==
    LET want == IntRank(m.phis[p].ty) has == IntRank(m.values[h].ty)
        op == IF want < has THEN "trunc" ELSE "sext"
    IN  IF want = 0 \/ has = 0 \/ want = has THEN Returning(m, h)
        ELSE wrap_vreg(compat_emit(m, b, m.phis[p].func, op, m.phis[p].ty, "none", << h >>),
                       m.phis[p].ty, m.phis[p].func)

(* The session makes blocks up to an id its table does not reach.           *)
SessionBlock(m, f) == lr_block_create(m, f, << "b" >> \o Decimal(m.block_count))
ensure_block(m, f, id) ==
    IF m.block_count > id THEN m
    ELSE IF m.block_count # m.funcs[f].num_blocks THEN SessionBlock(m, f)
    ELSE FoldLeft(LAMBDA s, k : [SessionBlock(s, f) EXCEPT !.block_count = @ + 1], m,
                  [k \in 1 .. id + 1 - m.block_count |-> k])
(* The returned value comes from b.                                         *)
Incoming(m, p, b) ==
    [m EXCEPT !.phis[p] = [@ EXCEPT !.vals = Append(@, m.ret), !.preds = Append(@, m.blocks[b].id),
                                    !.from = Append(@, b)]]
lc_phi_add_incoming(m, p, h, b) ==
    IF m.phis[p].finalized THEN m
    ELSE phi_refresh_operands(
             ensure_block(lr_session_bind_ir(Incoming(phi_coerce_incoming(m, p, h, b), p, b), m.phis[p].block),
                          m.phis[p].func, m.blocks[b].id), p)
lc_phi_finalize(m, p) == [m EXCEPT !.phis[p].finalized = TRUE]

----------------------------------------------------------------------------
(* Switches: a chain of comparisons that always ends in a branch to the     *)
(* default.  cases and chain are ghosts: what has been asked for, and the   *)
(* blocks made for it.                                                      *)

lc_switch_builder_create(m, b, f, c, default) ==
    [lc_create_br(lc_block_attach(m, default), b, default) EXCEPT
                  !.switches = Append(@, [origin |-> b, func |-> f, tail |-> b, default |-> default,
                                          cond |-> c, index |-> 0, cases |-> << >>, chain |-> {}]),
                  !.ret = Len(m.switches) + 1]

compat_is_fallback_br_to_default(m, b, default) ==
    /\ m.blocks[b].insts # << >>
    /\ LET t == Last(m.blocks[b].insts) IN t.op = "br" /\ t.ops[1].n = m.blocks[default].id
compat_pop_last_inst(m, b) == [m EXCEPT !.blocks[b].insts = Front(@)]

(* The comparison goes into the tail; m.ret is the block after it.          *)
CaseSwapped(m, sw, next, dest) == lc_create_cond_br(m, sw.tail, m.ret, next, dest)
CaseBranch(m, sw, next, dest) == lc_create_cond_br(m, sw.tail, m.ret, dest, next)
ExtendChain(m, k, next, value, dest) ==
    LET sw == m.switches[k]
        c == compat_icmp(m, sw.tail, sw.func, "eq", sw.cond, value, << "switch.cmp" >>)
    IN  [lc_create_br(CaseBranch(c, sw, next, dest), next, sw.default) EXCEPT
            !.switches[k] = [@ EXCEPT !.tail = next, !.index = @ + 1, !.chain = @ \cup { next },
                                      !.cases = Append(@, << m.values[value].n, dest >>)]]
ExtendAfter(m, k, value, dest) == ExtendChain(m, k, m.ret, value, dest)
AddCaseAttached(m, k, value, dest) ==
    LET sw == m.switches[k]
    IN  IF ~ compat_is_fallback_br_to_default(m, sw.tail, sw.default) THEN m
        ELSE ExtendAfter(lc_block_create(compat_pop_last_inst(m, sw.tail), sw.func,
                                         << "switch.case." >> \o Decimal(sw.index)), k, value, dest)
lc_switch_builder_add_case(m, k, value, dest) == AddCaseAttached(lc_block_attach(m, dest), k, value, dest)

-----------------------------------------------------------------------------
(* Globals of the LLVM-compatible builder: creation under a distinct name,  *)
(* declaration, initializers that refer to other globals, and linkage,      *)
(* which renames a file-local global and all that refers to it.             *)

(* Words a name may start with that keeps its name when it becomes local.   *)
CONSTANT SharedNames

lr_global_create(m, name, external) ==
    [m EXCEPT !.globals = Append(@, [name |-> name, external |-> external, local |-> FALSE, relocs |-> << >>]),
              !.ret = Len(m.globals) + 1]
GlobalValue(m, g) ==
    lc_value_global(canonical_global_sym_id(m, g), m.globals[g].name, g)
(* The global just made or found, known by the symbol it was asked for.     *)
CacheReturned(m, name) == GlobalValue(cache_global_by_symbol(m, name, m.ret), m.ret)
NewGlobal(m, name, external) == CacheReturned(lr_global_create(m, name, external), name)

(* An unresolved reference of that name becomes the definition; otherwise   *)
(* the new global gets a name of its own.                                   *)
lc_global_create(m, name) ==
    LET l == lookup_global_cached(m, name) g == FoundGlobal(m, name)
    IN  IF g # 0 /\ l.globals[g].external
        THEN CacheReturned([l EXCEPT !.globals[g].external = FALSE, !.ret = g], name)
        ELSE NewGlobal(l, make_unique_symbol_name(l, name), FALSE)
lc_global_declare(m, name) == NewGlobal(m, make_unique_symbol_name(m, name), TRUE)
lc_global_lookup_or_create(m, name) ==
    LET l == lookup_global_cached(m, name) g == FoundGlobal(m, name)
    IN  IF g # 0 THEN GlobalValue(l, g) ELSE NewGlobal(l, name, TRUE)
lc_global_lookup(m, name) ==
    LET l == lookup_global_cached(m, name) g == FoundGlobal(m, name)
    IN  IF g = 0 THEN Returning(m, 0) ELSE GlobalValue(l, g)

(* relocs: the names an initializer refers to; of, a ghost, is the global   *)
(* that was meant.                                                          *)
global_add_reloc(m, g, v) ==
    [m EXCEPT !.globals[g].relocs = << [name |-> v.name, addend |-> v.n, of |-> v.g] >> \o @]
lc_global_set_initializer(m, gv, init) ==
    LET name == m.values[gv].name
        l == lookup_global_cached(m, name) g == FoundGlobal(m, name)
        r == [l EXCEPT !.globals[g].relocs = << >>]
        v == m.values[init]
        s == IF v.kind = "global" THEN global_add_reloc(r, g, v) ELSE r
    IN  IF g = 0 THEN l
        ELSE IF v.kind \notin {"null", "undef", "int", "global"} THEN r
        ELSE [s EXCEPT !.globals[g].external = FALSE]

----------------------------------------------------------------------------
(* Linkage                                                                  *)

lr_llvm_compat_is_local_global_linkage(linkage) == linkage \in {"internal", "private"}
should_preserve_local_name(name) == name[1] \in SharedNames

(* The name with the first number that is free and has not been used for    *)
(* this name before, and the tag of the module.                             *)
ScopedOrdinal(m, name) == FreeNumber(m, name, InCache(m.ordinals, name))
lr_llvm_compat_linkage_scoped_global_name(m, name, linkage) ==
    IF ~ lr_llvm_compat_is_local_global_linkage(linkage) \/ should_preserve_local_name(name)
       \/ LocalTag \in ToSet(name)
    THEN [m |-> m, name |-> name]
    ELSE LET k == ScopedOrdinal(m, name)
         IN  [m |-> [m EXCEPT !.ordinals = Cached(@, name, k + 1)],
              name |-> Numbered(name, k) \o << LocalTag >>]

(* Values, initializers and the operands of linked blocks follow.           *)
RewriteValuesOnly(m, old, new) ==
    [m EXCEPT !.values = [h \in DOMAIN @ |-> IF @[h].kind = "global" /\ @[h].name = old
                                             THEN [@[h] EXCEPT !.name = new] ELSE @[h]]]
lc_module_rewrite_global_symbol_refs(m, old, new) ==
    LET inst(x) == [x EXCEPT !.ops = [j \in DOMAIN @ |->
                        IF @[j].k = "global" /\ @[j].name = old THEN [@[j] EXCEPT !.name = new] ELSE @[j]]]
        linked == UNION { Linked(m, f) : f \in DOMAIN m.funcs }
    IN  [m EXCEPT
          !.values = [h \in DOMAIN @ |-> IF @[h].kind = "global" /\ @[h].name = old
                                         THEN [@[h] EXCEPT !.name = new] ELSE @[h]],
          !.globals = [g \in DOMAIN @ |-> [@[g] EXCEPT !.relocs = [i \in DOMAIN @ |->
                                         IF @[i].name = old THEN [@[i] EXCEPT !.name = new] ELSE @[i]]]],
          !.blocks = [b \in DOMAIN @ |-> IF b \in linked
                                         THEN [@[b] EXCEPT !.insts = [i \in DOMAIN @ |-> inst(@[i])]] ELSE @[b]]]

lr_llvm_compat_register_global_alias(m, logical, actual) == [m EXCEPT !.aliases = Cached(@, logical, actual)]

(* n: the module and the name global g gets.                                *)
RenameGlobal(n, g, gv, old, local) ==
    IF ~ local \/ n.name = n.m.globals[g].name THEN n.m
    ELSE lr_llvm_compat_register_global_alias(
             lc_module_rewrite_global_symbol_refs(
                 [n.m EXCEPT !.globals[g].name = n.name, !.values[gv].name = n.name], old, n.name), old, n.name)
lr_llvm_compat_apply_global_linkage(m, gv, linkage) ==
    LET old == m.values[gv].name
        l == lookup_global_cached(m, old) g == FoundGlobal(m, old)
        local == lr_llvm_compat_is_local_global_linkage(linkage)
        s == [l EXCEPT !.globals[g].local = local, !.globals[g].external = IF local THEN FALSE ELSE @]
    IN  IF g = 0 THEN l
        ELSE [RenameGlobal(lr_llvm_compat_linkage_scoped_global_name(s, s.globals[g].name, linkage), g, gv, old, local)
                EXCEPT !.globals[g].external = IF linkage = "available_externally" THEN TRUE ELSE @]

----------------------------------------------------------------------------
(* memcpy, memmove and memset are calls of functions declared on demand.    *)

CacheFunc(m, name) == cache_func_by_symbol(m, name, m.ret)
ensure_libc_decl(m, name, ty) ==
    LET l == lookup_func_cached(m, name)
    IN  IF FoundFunc(m, name) # 0 THEN l ELSE CacheFunc(lr_func_create(l, name, ty, TRUE, FALSE), name)
CallSized(m, b, f, name, dst, src) ==
    compat_emit(m, b, f, "call", "ptr", "none", << FuncWant(FoundFunc(m, name)), dst, src, m.ret >>)
(* The size is widened to 64 bits first.                                    *)
MemCall(m, b, f, name, ty, dst, src, size) ==
    CallSized(lc_create_zext_or_trunc(ensure_libc_decl(m, name, ty), b, f, size, "i64", << "memcpy_size" >>),
              b, f, name, dst, src)
=============================================================================
