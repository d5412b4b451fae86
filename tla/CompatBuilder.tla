----------------------------- MODULE CompatBuilder -----------------------------
(* A front end that builds a module through the LLVM-compatible calls.      *)
(*                                                                          *)
(* A client takes its calls from one menu: blocks, phis, values, names,     *)
(* globals, or one folded operation; menus bound the search, not the code.  *)
(* What clients do not do here is listed with their actions: these are uses *)
(* LLVM forbids, or ones this layer answers wrongly (see the README).       *)
EXTENDS CompatObjects

CONSTANTS MaxCalls,         \* menu -> number of calls
          MaxBlocks,        \* blocks a client makes
          LocalNames,       \* names of values and blocks, as asked for
          SymbolNames       \* names of globals, as asked for
Menus == {"blocks", "phis", "values", "names", "globals", "fold"}
ASSUME MaxCallsAssumption == MaxCalls \in [Menus -> Nat]

VARIABLES m, menu, calls
vars == << m, menu, calls >>

----------------------------------------------------------------------------
EmptyModule == [values |-> << >>, funcs |-> << >>, blocks |-> << >>, globals |-> << >>, detached |-> << >>,
                phis |-> << >>, switches |-> << >>, caches |-> << >>, reserved |-> {},
                func_by_sym |-> << >>, global_by_sym |-> << >>, ordinals |-> << >>, aliases |-> << >>,
                replaced |-> {}, block_count |-> 0, serial |-> 0, ret |-> 0, reg |-> 0]

(* A declared function of one parameter with a first block; the values are  *)
(* the function, its argument and two constants.                            *)
Started(a, b) ==
    LET f == lc_func_declare(EmptyModule, << "f" >>, "ft1")
        e == lc_block_create(f, 1, << >>)
        p == lc_value_argument(e, 0, "i64", 1)
        x == lc_value_const_int(p, "i64", a, << >>)
    IN  lc_value_const_int(x, "i64", b, << >>)
WithBlocks(s, n) == FoldLeft(LAMBDA r, k : lc_block_create(r, 1, << >>), s, [k \in 1 .. n |-> k])
WithSum(s, b) == compat_binop(s, b, 1, "add", 2, 3, << "t" >>)
(* The entry branches to the third and fourth block; the second is unused.  *)
Forked == CreateCondBr(WithSum(WithBlocks(Started(1, 2), 3), 3), 1, 2, 3, 4)

(* The module a menu starts from.                                           *)
Starts(k) ==
    CASE k = "fold" -> { Started(a, b) : a \in Words, b \in Words }
      [] k = "phis" -> { Forked }
      [] k = "blocks" -> { Started(1, 2), Forked }
      [] k = "values" -> { WithSum(Started(1, 2), 1) }
      [] k = "names" -> { Started(1, 2) }
      [] k = "globals" -> LET s == lc_value_const_null(Started(1, 2), "ptr")
                          IN  { lc_global_create(s, << "x" >>), lc_global_lookup_or_create(s, << "x" >>) }
Init == /\ menu \in Menus
        /\ calls = 0
        /\ \E s \in Starts(menu) : m = [s EXCEPT !.ret = 0, !.reg = 0]

In(menus) == menu \in menus /\ calls < MaxCalls[menu]
Call(s) == m' = [s EXCEPT !.ret = 0, !.reg = 0] /\ calls' = calls + 1 /\ UNCHANGED menu

----------------------------------------------------------------------------
(* What a client may name: blocks it made itself and has not erased, values *)
(* by type.                                                                 *)
Mine == { b \in DOMAIN m.blocks : ~ m.blocks[b].gone } \ UNION { m.switches[k].chain : k \in DOMAIN m.switches }
InFunction == { b \in Mine : m.blocks[b].func = 1 }
Open == { b \in InFunction : ~ lc_block_has_terminator(m, b) }
OfType(ty) == { h \in DOMAIN m.values : m.values[h].ty = ty }
Local(ty) == { h \in OfType(ty) : m.values[h].kind # "global" }
(* Results, the argument and one constant.                                  *)
Computed(ty) == { h \in Local(ty) : m.values[h].kind # "int" \/ h = 3 }
Globals == { h \in DOMAIN m.values : m.values[h].kind = "global" /\ m.values[h].fn = 0 }

(* Blocks.  A block made without a function gets no name: it would not be   *)
(* made distinct later.                                                     *)
BlockCreate == \E n \in LocalNames \cup {<< >>} :
    /\ In({"blocks", "names"}) /\ (menu = "blocks" => n = << >>)
    /\ Cardinality(Mine) < MaxBlocks
    /\ Call(lc_block_create(m, 1, n))
BlockCreateDetached == \E f \in {0, 1}, n \in LocalNames \cup {<< >>} :
    /\ In({"blocks", "names"}) /\ (menu = "blocks" \/ f = 0 => n = << >>)
    /\ Cardinality(Mine) < MaxBlocks
    /\ Call(lc_block_create_detached(m, f, n))
Attach == \E b \in InFunction :
    /\ In({"blocks"}) /\ b \in ToSet(m.detached)
    /\ Call(lc_block_attach(m, b))
Branch == \E b \in Open, t \in Mine :
    /\ In({"blocks", "phis"})
    /\ Call(CreateBr(m, b, t))
CondBranch == \E b \in Open, t \in Mine, e \in Mine :
    /\ In({"blocks"})
    /\ Call(CreateCondBr(m, b, 2, t, e))
Return == \E b \in Open :
    /\ In({"blocks", "values"})
    /\ IF menu = "blocks" THEN Call(lc_create_ret_void(m, b))
       ELSE Call(lc_create_unreachable(m, b)) \/ \E h \in Computed("i64") : Call(lc_create_ret(m, b, h))
(* An anchor is in the function's list.                                     *)
MoveAfter == \E b \in InFunction, a \in Linked(m, 1) :
    /\ In({"blocks"}) /\ b # a
    /\ Call(lr_llvm_compat_block_move_after(m, b, a))
MoveBefore == \E b \in InFunction, a \in Linked(m, 1) :
    /\ In({"blocks"}) /\ b # a
    /\ Call(lr_llvm_compat_block_move_before(m, b, a))
InsertBlock == \E b \in Mine, a \in Linked(m, 1) \cup {0} :
    /\ In({"blocks"}) /\ b # a
    /\ Call(lr_llvm_compat_function_insert_block(m, 1, b, a))
(* Only once no block is left out of the list and the phis have all their   *)
(* incoming values: neither follows the new ids.                            *)
Erase == \E b \in InFunction :
    /\ In({"blocks", "phis"})
    /\ Bound(m, 1) = Linked(m, 1)
    /\ \A p \in DOMAIN m.phis : m.phis[p].finalized /\ m.phis[p].block # b
    /\ \A k \in DOMAIN m.switches : m.switches[k].origin # b
    /\ Call(lr_llvm_compat_block_erase(m, b))
(* Targets of a switch belong to the function already: attaching comes      *)
(* before binding.                                                          *)
SwitchCreate == \E b \in Open, d \in InFunction :
    /\ In({"blocks"}) /\ m.switches = << >>
    /\ Call(lc_switch_builder_create(m, b, 1, 2, d))
SwitchAddCase == \E k \in DOMAIN m.switches, v \in {3, 4}, d \in InFunction :
    /\ In({"blocks"})
    /\ Call(lc_switch_builder_add_case(m, k, v, d))

----------------------------------------------------------------------------
(* Values, all in the first block unless said otherwise.                    *)
Arithmetic == \E op \in IntOps, l \in Local("i64"), r \in Local("i64"), n \in LocalNames :
    /\ In({"values", "names", "fold"}) /\ 1 \in Open
    /\ IF menu = "fold" THEN l = 3 /\ r = 4
       ELSE op = "add" /\ r = 3 /\ (menu = "names" => l = 2)
    /\ op \in Shifts /\ IsConst(m, r) => m.values[r].n \in 0 .. WordBits - 1
    /\ ~ (op \in {"sdiv", "srem"} /\ m.values[r].n = -1 /\ m.values[l].n = - Half)
    /\ menu # "names" => n = CHOOSE x \in LocalNames : TRUE
    /\ Call(compat_binop(m, 1, 1, op, l, r, n))
Compare == \E pred \in Preds, l \in Local("i64"), r \in Local("i64") :
    /\ In({"values", "fold"}) /\ 1 \in Open
    /\ menu = "fold" => l = 3 /\ r = 4
    /\ menu # "fold" => pred = "ult" /\ r = 3
    /\ Call(compat_icmp(m, 1, 1, pred, l, r, << "c" >>))
Cast == \E h \in Computed("i1") \cup Computed("i64"), to \in {"i1", "i64"} :
    /\ In({"values"}) /\ 1 \in Open
    /\ Call(lc_create_zext_or_trunc(m, 1, 1, h, to, << "z" >>))
Select == \E c \in Computed("i1"), x \in Computed("i64") :
    /\ In({"values"}) /\ 1 \in Open
    /\ Call(lc_create_select(m, 1, 1, c, x, 3, << "s" >>))
Memory == \E p \in Local("ptr"), h \in Computed("i64") :
    /\ In({"values"}) /\ 1 \in Open /\ m.values[p].kind = "vreg"
    /\ \/ Call(lc_create_load(m, 1, 1, p, << "v" >>))
       \/ Call(lc_create_store(m, 1, h, p))
       \/ \E scalar \in BOOLEAN : Call(lc_create_gep(m, 1, 1, scalar, p, << h, 3 >>, << "e" >>))
Alloca ==
    /\ In({"values"}) /\ 1 \in Open
    /\ Call(lc_create_alloca(m, 1, 1, << "p" >>))
CallFunction == \E h \in Computed("i64"), ty \in {"void", "i64"} :
    /\ In({"values"}) /\ 1 \in Open
    /\ Call(lc_create_call(m, 1, 1, ty, 1, << h >>, << "r" >>))
PointerCast == \E h \in DOMAIN m.values, op \in {"ptrtoint", "inttoptr"} :
    /\ In({"globals"}) /\ 1 \in Open
    /\ m.values[h].kind \in {"null", "int", "global"}
    /\ m.values[h].ty = (IF op = "ptrtoint" THEN "ptr" ELSE "i64")
    /\ Call(compat_cast(m, 1, 1, op, h, IF op = "ptrtoint" THEN "i64" ELSE "ptr", << "q" >>))
(* Uses are replaced when all blocks that use the value are in the list.    *)
ReplaceAllUses == \E from \in Computed("i64"), to \in Computed("i64") :
    /\ In({"values", "phis"}) /\ from # to /\ m.values[from].kind = "vreg"
    /\ Call([lc_value_replace_all_uses_with(m, from, to) EXCEPT !.replaced = @ \cup { from }])

(* Phis.  An incoming block has code in it, an open end when the value has  *)
(* to be cast there, and the values so far have not been replaced.          *)
CreatePhi == \E b \in Open, ty \in {"i1", "i64"} :
    /\ In({"phis"}) /\ Len(m.phis) < 1 /\ b # 1
    /\ Call(lc_create_phi(m, b, 1, ty, << "x" >>))
MayAdd(p, h, b) ==
    /\ m.blocks[b].insts # << >>
    /\ m.values[h].ty # m.phis[p].ty => b \in Open
    /\ ToSet(m.phis[p].vals) \cap m.replaced = {}
PhiAddIncoming == \E p \in DOMAIN m.phis, h \in Computed("i64"), b \in InFunction :
    /\ In({"phis"}) /\ MayAdd(p, h, b)
    /\ Call(lc_phi_add_incoming(m, p, h, b))
PhiAddInferred == \E p \in DOMAIN m.phis, h \in Computed("i64") :
    LET b == lc_phi_infer_missing_pred(m, p)
    IN  /\ In({"phis"}) /\ b # 0 /\ MayAdd(p, h, b)
        /\ Call(lc_phi_add_incoming(m, p, h, b))
PhiFinalize == \E p \in DOMAIN m.phis :
    /\ In({"phis"}) /\ ~ m.phis[p].finalized
    /\ Call(lc_phi_finalize(m, p))

----------------------------------------------------------------------------
(* Functions and globals.  A function is created over its declaration when  *)
(* that has no parameters and no blocks, declared again with the same       *)
(* number of parameters, and no function has the name of a global.          *)
FunctionCreate == \E ty \in FuncTypes :
    LET f == FoundFunc(m, << "g" >>)
    IN  /\ In({"globals"})
        /\ f # 0 => NumParams[ty] = 0 /\ m.funcs[f].num_params = 0
        /\ Call(lc_func_create(m, << "g" >>, ty))
FunctionDeclare == \E ty \in FuncTypes :
    LET f == FoundFunc(m, << "g" >>)
    IN  /\ In({"globals"})
        /\ f # 0 => NumParams[ty] = m.funcs[f].num_params
        /\ Call(lc_func_declare(m, << "g" >>, ty))
GlobalMake == \E n \in SymbolNames :
    /\ In({"globals"}) /\ Len(m.globals) < 3
    /\ \/ Call(lc_global_create(m, n))
       \/ Call(lc_global_declare(m, n))
       \/ Call(lc_global_lookup_or_create(m, n))
       \/ FoundGlobal(m, n) # 0 /\ Call(lc_global_lookup(m, n))
SetInitializer == \E g \in Globals, h \in Globals \cup {3, 5} :
    /\ In({"globals"}) /\ m.values[g].n = 0
    /\ Call(lc_global_set_initializer(m, g, h))
WithAddend == \E g \in Globals :
    /\ In({"globals"}) /\ m.values[g].n = 0
    /\ Call(lc_value_global_with_addend(m, g, 1))
UseGlobal == \E g \in Globals :
    /\ In({"globals"}) /\ 1 \in Open
    /\ \/ Call(lc_create_store(m, 1, 2, g))
       \/ Call(MemCall(m, 1, 1, << "memcpy" >>, "ft3", g, g, 2))
SetLinkage == \E g \in Globals, l \in {"private", "external", "available_externally"} :
    /\ In({"globals"})
    /\ Call(lr_llvm_compat_apply_global_linkage(m, g, l))

Next == \/ BlockCreate \/ BlockCreateDetached \/ Attach \/ Branch \/ CondBranch \/ Return
        \/ MoveAfter \/ MoveBefore \/ InsertBlock \/ Erase \/ SwitchCreate \/ SwitchAddCase
        \/ Arithmetic \/ Compare \/ Cast \/ Select \/ Memory \/ Alloca \/ CallFunction \/ PointerCast
        \/ ReplaceAllUses \/ CreatePhi \/ PhiAddInferred \/ PhiAddIncoming \/ PhiFinalize
        \/ FunctionCreate \/ FunctionDeclare \/ GlobalMake \/ SetInitializer \/ WithAddend \/ UseGlobal
        \/ SetLinkage
Spec == Init /\ [][Next]_vars

----------------------------------------------------------------------------
(* After any moves, insertions and erasures the list of a function's blocks *)
(* has no block twice, ends at its last block, and holds exactly the blocks *)
(* block_linked_in_func takes for linked by looking only at the block and   *)
(* at the end of the list; the others wait in the detached list.            *)
ListsWellFormed ==
    \A f \in DOMAIN m.funcs :
        LET c == Chain(m, f)
        IN  /\ Cardinality(ToSet(c)) = Len(c)
            /\ IF c = << >> THEN m.funcs[f].last = 0
               ELSE m.funcs[f].last = Last(c) /\ m.blocks[Last(c)].next = 0
            /\ \A b \in Bound(m, f) :
                   /\ block_linked_in_func(m, f, b) <=> b \in ToSet(c)
                   /\ b \notin ToSet(c) <=> b \in ToSet(m.detached)

(* The operands of a linked instruction that satisfy P decode to what the   *)
(* client meant.                                                            *)
Intended(P(_)) ==
    \A f \in DOMAIN m.funcs : \A b \in Linked(m, f) : \A i \in DOMAIN m.blocks[b].insts :
        LET x == m.blocks[b].insts[i]
        IN  /\ Len(x.ops) = Len(x.want)
            /\ \A j \in DOMAIN x.ops : P(x.ops[j].k) => Decode(m, f, x.ops[j]) = Meaning(m, x.want[j])

(* Registers, constants and blocks: an operand is the value the client      *)
(* gave, also after uses have been replaced and phis have got further       *)
(* incoming values; a block number is that of exactly one block of the      *)
(* function, the one the client named, although blocks are bound late,      *)
(* moved and erased.                                                        *)
OperandsMeanTheirValues == Intended(LAMBDA k : k # "global")

(* After globals were renamed by their linkage, every operand, value and    *)
(* initializer names the global it was made for.                            *)
RefsFollowRename ==
    /\ Intended(LAMBDA k : k = "global")
    /\ \A h \in Globals : m.values[h].name = m.globals[m.values[h].g].name
    /\ \A g \in DOMAIN m.globals : \A i \in DOMAIN m.globals[g].relocs :
           m.globals[g].relocs[i].name = m.globals[m.globals[g].relocs[i].of].name

(* No two blocks or values of a function, and no two symbols, have the same *)
(* name, in whatever order names with and without numbers are asked for;    *)
(* the caches by symbol find each under its name, and an alias leads to a   *)
(* global that exists.                                                      *)
NamesDistinct ==
    /\ \A f \in DOMAIN m.funcs :
           LET bs == { b \in Bound(m, f) : m.blocks[b].name # << >> }
               vs == { h \in DOMAIN m.values : m.values[h].kind = "vreg" /\ m.values[h].fn = f /\ m.values[h].lname # << >> }
               names == { m.blocks[b].name : b \in bs } \cup { m.values[h].lname : h \in vs }
           IN  Cardinality(names) = Cardinality(bs) + Cardinality(vs)
    /\ Cardinality({ m.globals[g].name : g \in DOMAIN m.globals } \cup { m.funcs[f].name : f \in DOMAIN m.funcs })
           = Len(m.globals) + Len(m.funcs)
    /\ \A g \in DOMAIN m.globals : FoundGlobal(m, m.globals[g].name) = g
    /\ \A f \in DOMAIN m.funcs : FoundFunc(m, m.funcs[f].name) = f
    /\ \A n \in DOMAIN m.aliases : \E g \in DOMAIN m.globals : m.globals[g].name = m.aliases[n]

(* Where a switch on v goes: along the chain of comparisons.                *)
Truthful(b, c, v) ==
    IF c.k = "imm" THEN c.n # 0
    ELSE LET is == m.blocks[b].insts
             x == is[CHOOSE i \in DOMAIN is : is[i].dest = c.n]
         IN  x.pred = "eq" /\ x.ops[2].n = v
GoesTo(sw, v) ==
    LET target(op) == Decode(m, sw.func, op)[2]
        next(b) == LET t == Last(m.blocks[b].insts)
                   IN  IF t.op = "br" THEN target(t.ops[1])
                       ELSE IF Truthful(b, t.ops[1], v) THEN target(t.ops[2]) ELSE target(t.ops[3])
        walk[k \in 0 .. Cardinality(sw.chain)] ==
            IF k = 0 THEN next(sw.origin)
            ELSE IF walk[k - 1] \in sw.chain THEN next(walk[k - 1]) ELSE walk[k - 1]
    IN  walk[Cardinality(sw.chain)]
(* A switch goes to the block of the first case with the value, and to the  *)
(* default when there is none, after each case added and whatever happened  *)
(* to the blocks in between.                                                *)
SwitchMeansCases ==
    \A k \in DOMAIN m.switches : \A v \in 0 .. 2 :
        LET sw == m.switches[k]
            hits == { i \in DOMAIN sw.cases : sw.cases[i][1] = v }
        IN  GoesTo(sw, v) = IF hits = {} THEN sw.default ELSE sw.cases[Min(hits)][2]

(* A folded constant is what the instruction would have computed, for all   *)
(* signs, at the overflow and for unsigned operations on negative words.    *)
FoldedAsComputed ==
    \A h \in DOMAIN m.values :
        LET v == m.values[h] e == v.from
        IN  e # << >> => v.n = IF e[1] \in IntOps THEN IntMeaning(e[1], e[2], e[3]) ELSE CmpMeaning(e[1], e[2], e[3])
=============================================================================
