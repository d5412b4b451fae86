-------------------------------- MODULE MatCache --------------------------------
(***************************************************************************)
(* The materialization cache of jit.c: machine code of lazily compiled     *)
(* functions, shared by every JIT of the process.  A function is known by  *)
(* two flat signatures, its module's and its own, taken when the module is *)
(* added; on a hit the stored code is copied into the JIT's buffer and the *)
(* stored relocations are replayed, on a miss the function is compiled and *)
(* its code is kept before any address is patched into it.                 *)
(*                                                                         *)
(* A name is a sequence of letters (numbers), a signature a sequence of    *)
(* numbers: the check is that two functions with equal signatures have     *)
(* equal code, so the layout of the signature matters and its bytes do     *)
(* not.  A cell of code is one instruction or one patched address.         *)
(* MatCacheProofs has the proofs.                                          *)
(***************************************************************************)
EXTENDS Integers, Sequences, SequencesExt, FiniteSets

CONSTANTS Jits,          \* the JITs of the process
          TypeTable,     \* the types, each one after those it is made of
          Targets,       \* the targets a JIT may be created for
          ModulesOf,     \* [Jits -> sets of modules], those that may be added to each
          CodeCap,       \* cells in a JIT's code buffer
          EpochRange,    \* number of values of the uint32 epoch
          MaxInvalidate, \* invalidations considered
          MaxTop         \* top-level materializations considered

ASSUME MatCacheAssumption ==
    /\ Targets \subseteq Nat
    /\ CodeCap \in Nat /\ EpochRange \in Nat \ {0, 1}
    /\ MaxInvalidate \in Nat /\ MaxTop \in Nat

VARIABLES target,  \* per JIT: what it compiles for
          cache,   \* g_mat_cache_entries
          epoch,   \* g_mat_cache_epoch
          hits, misses,
          lazy,    \* per JIT: name -> lr_lazy_func_entry_t
          syms,    \* per JIT: name -> address
          code,    \* per JIT: the cells of the code buffer
          stack,   \* the materializations under way, innermost last
          age,     \* invalidations so far
          tops,    \* top-level materializations so far
          log,     \* the functions placed: where, for whom, compiled when
          had      \* the addresses that a JIT's table has given its names

vars == <<target, cache, epoch, hits, misses, lazy, syms, code, stack, age, tops, log, had>>

---------------------------------------------------------------------------
(* Signatures.  Every list is preceded by its length and every optional    *)
(* part by its tag.  A type is a record [k, n, name, s].                   *)

VOID == 0
I32 == 1
PTR == 2
ARRAY == 3
STRUCT == 4
FUNC == 5
VECTOR == 6

Names == Seq(Nat)
Types == Range(TypeTable)

(* A type is made before the types that use it (lr_type_struct, _array,    *)
(* _vector and _func take their parts), and only a struct has a name.      *)
ASSUME TypesAssumption ==
    /\ TypeTable \in Seq(Types)
    /\ \A i \in DOMAIN TypeTable :
         /\ TypeTable[i] \in [k : Nat, n : Nat, name : Names, s : Seq({TypeTable[h] : h \in 1..(i - 1)})]
         /\ TypeTable[i].k # STRUCT => TypeTable[i].name = <<>>
         /\ TypeTable[i].k \in {ARRAY, VECTOR} => Len(TypeTable[i].s) = 1
         /\ TypeTable[i].k = FUNC => Len(TypeTable[i].s) > 0
         /\ TypeTable[i].k \notin {ARRAY, VECTOR, STRUCT, FUNC} =>
              TypeTable[i].n = 0 /\ TypeTable[i].s = <<>>

Str(name) == <<Len(name)>> \o name
Flag(b) == IF b THEN 1 ELSE 0
Listed(seqs) == <<Len(seqs)>> \o FlattenSeq(seqs)

(* Of a vector only its kind is written: neither its elements nor how many *)
(* (the default case of sig_serialize_type).                               *)
SigType[t \in Types] ==
    LET all(s) == FlattenSeq([i \in DOMAIN s |-> SigType[s[i]]])
    IN  <<t.k>> \o (CASE t.k = ARRAY  -> <<t.n>> \o SigType[t.s[1]]
                      [] t.k = STRUCT -> <<t.n>> \o Str(t.name) \o <<Len(t.s)>> \o all(t.s)
                      [] t.k = FUNC   -> SigType[t.s[1]] \o <<Len(t.s) - 1, t.n>> \o all(Tail(t.s))
                      [] OTHER -> <<>>)

VREG == 1
IMM == 2
BLOCK == 3
GLOBAL == 4
UNDEF == 5  \* LR_VAL_NULL and LR_VAL_UNDEF

(* The IR as the signature code walks it.  at stands for where the module  *)
(* lies in memory, abi is uses_llvm_abi.                                   *)
Operands == {o \in [k : VREG..UNDEF, t : Types, off : Int, n : Int] : o.k = UNDEF => o.n = 0}
Instructions == [op : Nat, t : Types, d : Nat, o : Seq(Operands), idx : Seq(Nat), align : Nat,
                 ext : BOOLEAN, va : BOOLEAN, fixed : Nat, p : Nat]
BasicBlocks == [id : Nat, name : Names, insts : Seq(Instructions)]
FunctionDefs == [name : Names, decl : BOOLEAN, va : BOOLEAN, abi : BOOLEAN, params : Seq(Types),
                 next : Nat, ret : Types, type : Types, blocks : Seq(BasicBlocks)]
GlobalDefs == [name : Names, t : Types, const : BOOLEAN, external : BOOLEAN, id : Nat,
               init : Seq(Nat), relocs : Seq([off : Nat, addend : Int, sym : Names])]
ModuleDefs == [at : Nat, syms : Seq(Names), funcs : Seq(FunctionDefs), globals : Seq(GlobalDefs)]

AllModules == UNION {ModulesOf[j] : j \in Jits}

(* lr_module_intern_symbol numbers the names in order of first mention:    *)
(* the operands as the module was built, then the functions and globals.   *)
SymbolNames(m) ==
    LET defs == [i \in DOMAIN m.funcs |-> m.funcs[i].name] \o
                [i \in DOMAIN m.globals |-> m.globals[i].name]
        known(i) == defs[i] \in Range(m.syms) \/ \E h \in 1..(i - 1) : defs[h] = defs[i]
    IN  m.syms \o FlattenSeq([i \in DOMAIN defs |-> IF known(i) THEN <<>> ELSE <<defs[i]>>])

(* Every global operand carries the number of a name of its module.        *)
ASSUME ModulesAssumption ==
    \A m \in AllModules :
      /\ m \in ModuleDefs
      /\ \A f \in Range(m.funcs) : \A b \in Range(f.blocks) : \A x \in Range(b.insts) :
           \A o \in Range(x.o) : o.k = GLOBAL => o.n \in DOMAIN SymbolNames(m)

SigValue(m, o) ==
    IF o.k = GLOBAL THEN <<o.n>> \o Str(SymbolNames(m)[o.n])
    ELSE IF o.k = UNDEF THEN <<>> ELSE <<o.n>>

(* Mutant: the constant added to a global's address is not part of it.     *)
SigWithoutOffset(m, o) == <<o.k>> \o SigType[o.t] \o SigValue(m, o)

SigOperand(m, o) == <<o.k>> \o SigType[o.t] \o <<o.off>> \o SigValue(m, o)

(* The predicate shares its storage with the pointer to the indices, so    *)
(* for an instruction with indices the signature holds an address.         *)
PredOrAddress(m, inst) == IF inst.idx = <<>> THEN inst.p ELSE m.at

SigInst(m, inst) ==
    <<inst.op>> \o SigType[inst.t] \o
    <<inst.d, Len(inst.o), Len(inst.idx), inst.align, Flag(inst.ext), Flag(inst.va), inst.fixed,
      PredOrAddress(m, inst), PredOrAddress(m, inst)>> \o
    FlattenSeq([i \in DOMAIN inst.o |-> SigOperand(m, inst.o[i])]) \o inst.idx

SigBlock(m, b) ==
    <<b.id>> \o Str(b.name) \o Listed([i \in DOMAIN b.insts |-> SigInst(m, b.insts[i])])

(* uses_llvm_abi is not written.                                           *)
SigFunction(m, f) ==
    Str(f.name) \o <<Flag(f.decl), Flag(f.va), Len(f.params), f.next>> \o
    SigType[f.ret] \o SigType[f.type] \o
    FlattenSeq([i \in DOMAIN f.params |-> SigType[f.params[i]]]) \o
    [i \in DOMAIN f.params |-> i] \o
    Listed([i \in DOMAIN f.blocks |-> SigBlock(m, f.blocks[i])])

SigReloc(r) == <<r.off, r.addend>> \o Str(r.sym)

SigGlobal(m, g) ==
    Str(g.name) \o SigType[g.t] \o <<Flag(g.const), Flag(g.external), g.id>> \o
    Str(g.init) \o Listed([i \in DOMAIN g.relocs |-> SigReloc(g.relocs[i])])

SigModule(m) ==
    Listed([i \in DOMAIN SymbolNames(m) |-> Str(SymbolNames(m)[i])]) \o
    Listed([i \in DOMAIN m.funcs |-> SigFunction(m, m.funcs[i])]) \o
    Listed([i \in DOMAIN m.globals |-> SigGlobal(m, m.globals[i])])

---------------------------------------------------------------------------
(* What a back end makes of a function: one cell per instruction, followed *)
(* by one per name it mentions, which holds an address in the end.  It may *)
(* use everything of the instruction, of how its function is called and of *)
(* the functions it calls.                                                 *)

(* lr_compile_func_meta_t: the target and how the function is called.      *)
FuncMeta(t, f) == [target |-> t, abi |-> f.abi, va |-> f.va, params |-> f.params, ret |-> f.ret]

(* The calling convention depends on how the module declares the callee.   *)
CalleeOf(m, name) ==
    {[va |-> g.va, decl |-> g.decl, abi |-> g.abi, params |-> g.params, ret |-> g.ret]
       : g \in {h \in Range(m.funcs) : h.name = name}}

Mentioned(m, inst) ==
    FlattenSeq([i \in DOMAIN inst.o |->
                  IF inst.o[i].k = GLOBAL THEN <<SymbolNames(m)[inst.o[i].n]>> ELSE <<>>])

Encode(c, m, inst) ==
    [op |-> inst.op,
     args |-> [i \in DOMAIN inst.o |->
                 [inst.o[i] EXCEPT !.n = IF inst.o[i].k = GLOBAL THEN 0 ELSE inst.o[i].n]],
     type |-> inst.t,
     where |-> <<c, inst.d, inst.align, inst.ext, inst.va, inst.fixed>>,
     which |-> IF inst.idx = <<>> THEN inst.p ELSE 0,
     idx |-> inst.idx,
     callee |-> UNION {CalleeOf(m, n) : n \in Range(Mentioned(m, inst))}]

Slot == [op |-> 0]

(* sym is the name whose address goes into the cell, <<>> when none does.  *)
CompileInst(c, m, inst) ==
    LET names == Mentioned(m, inst)
    IN  <<[cell |-> [does |-> Encode(c, m, inst), addr |-> 0], sym |-> <<>>]>> \o
        [i \in DOMAIN names |-> [cell |-> [does |-> Slot, addr |-> 0], sym |-> names[i]]]

CompileBlock(c, m, b) == FlattenSeq([i \in DOMAIN b.insts |-> CompileInst(c, m, b.insts[i])])

(* The relocations name a cell by its distance from the function's start.  *)
Compile(t, m, f) ==
    LET out == FlattenSeq([i \in DOMAIN f.blocks |-> CompileBlock(FuncMeta(t, f), m, f.blocks[i])])
    IN  [cells |-> [i \in DOMAIN out |-> out[i].cell],
         relocs |-> {[off |-> i, sym |-> out[i].sym] : i \in {h \in DOMAIN out : out[h].sym # <<>>}}]

---------------------------------------------------------------------------
(* The cache.                                                              *)

Key(e) == [target |-> e.target, epoch |-> e.epoch, msig |-> e.msig, fsig |-> e.fsig]
KeyOf(j, ent) == [target |-> target[j], epoch |-> epoch, msig |-> ent.msig, fsig |-> ent.fsig]

Matching(j, ent) == {e \in cache : Key(e) = KeyOf(j, ent)}
Cached(j, ent) == Matching(j, ent) # {}

Entry(j, ent, out, when) ==
    [target |-> target[j], epoch |-> epoch, msig |-> ent.msig, fsig |-> ent.fsig,
     cells |-> out.cells, relocs |-> out.relocs, age |-> when]

(* materialize_cache_insert: an entry of this key that is already there    *)
(* stays as it is.  The answer is ignored, so a failed allocation only     *)
(* leaves the cache as it was.                                             *)
Insert(c, e) == IF \E x \in c : Key(x) = Key(e) THEN c ELSE c \cup {e}

Empty == [n \in {} |-> 0]

Init == /\ target \in [Jits -> Targets]
        /\ cache = {} /\ epoch = 1 /\ hits = 0 /\ misses = 0
        /\ lazy = [j \in Jits |-> Empty] /\ syms = [j \in Jits |-> Empty]
        /\ code = [j \in Jits |-> <<>>]
        /\ stack = <<>> /\ age = 0 /\ tops = 0 /\ log = {} /\ had = {}

Idle == stack = <<>>

(* The epoch never takes the value 0.                                      *)
EpochAfter(e) == IF (e + 1) % EpochRange = 0 THEN 1 ELSE (e + 1) % EpochRange

(* Mutant: invalidation only moves the epoch on.                           *)
EpochAlone ==
    /\ Idle /\ age < MaxInvalidate
    /\ epoch' = EpochAfter(epoch)
    /\ age' = age + 1
    /\ UNCHANGED <<target, cache, hits, misses, lazy, syms, code, stack, tops, log, had>>

InvalidateAll ==
    /\ Idle /\ age < MaxInvalidate
    /\ cache' = {}
    /\ epoch' = EpochAfter(epoch)
    /\ age' = age + 1
    /\ UNCHANGED <<target, hits, misses, lazy, syms, code, stack, tops, log, had>>

ResetStats ==
    /\ Idle /\ hits + misses > 0
    /\ hits' = 0 /\ misses' = 0
    /\ UNCHANGED <<target, cache, epoch, lazy, syms, code, stack, age, tops, log, had>>

---------------------------------------------------------------------------
(* lr_jit_add_module with LIRIC_JIT_LAZY: the globals get addresses and    *)
(* every defined function an entry that waits for its first use.  A JIT is *)
(* given one definition of a name, and none of a name that was found in the*)
(* process before (JitModules has the other cases).                        *)

Defined(m) == {i \in DOMAIN m.funcs : ~m.funcs[i].decl}
DefinedNames(m) == {m.funcs[i].name : i \in Defined(m)}
GlobalNames(m) == {m.globals[i].name : i \in DOMAIN m.globals}
GlobalAddr(m, i) == 1000 + 10 * m.at + i
External == 900

LazyEntry(m, f) ==
    [module |-> m, func |-> f, msig |-> SigModule(m), fsig |-> SigFunction(m, f),
     state |-> "pending", addr |-> 0]

Over(new, old) == [n \in DOMAIN new \cup DOMAIN old |-> IF n \in DOMAIN new THEN new[n] ELSE old[n]]

(* lr_jit_add_symbol.  No name that the process gave an address is bound   *)
(* again, so there is no binding to preserve.                              *)
Bind(j, new) ==
    /\ syms' = [syms EXCEPT ![j] = Over(new, @)]
    /\ had' = had \cup {[j |-> j, n |-> n, addr |-> new[n]] : n \in DOMAIN new}

AddModule(j, m) ==
    /\ Idle
    /\ DefinedNames(m) \cap (DOMAIN lazy[j] \cup DOMAIN syms[j]) = {}
    /\ GlobalNames(m) \cap DOMAIN syms[j] = {}
    /\ lazy' = [lazy EXCEPT ![j] = Over([n \in DefinedNames(m) |->
                  LazyEntry(m, CHOOSE x \in Range(m.funcs) : ~x.decl /\ x.name = n)], @)]
    /\ Bind(j, [n \in GlobalNames(m) |->
                  GlobalAddr(m, CHOOSE i \in DOMAIN m.globals : m.globals[i].name = n)])
    /\ UNCHANGED <<target, cache, epoch, hits, misses, code, stack, age, tops, log>>

---------------------------------------------------------------------------
(* materialize_lazy_function.                                              *)

(* materialize_prefetch_module_functions: the pending functions of the     *)
(* module that are not in the cache may be compiled ahead (module Prefetch *)
(* has the threads).  S is the set of names that were: their names differ, *)
(* so their keys do and none of the insertions finds its key taken.        *)
Prefetchable(j, n) ==
    {x \in DOMAIN lazy[j] : x # n /\ lazy[j][x].state = "pending"
                             /\ lazy[j][x].module = lazy[j][n].module /\ ~Cached(j, lazy[j][x])}
Prefetched(j, S) ==
    cache \cup {Entry(j, lazy[j][x], Compile(target[j], lazy[j][x].module, lazy[j][x].func), age) : x \in S}

Count(hit) ==
    IF Idle THEN /\ hits' = hits + Flag(hit)
                 /\ misses' = misses + Flag(~hit)
    ELSE UNCHANGED <<hits, misses>>

Free(j) == CodeCap - Len(code[j])

(* replay_cached_function or compile_one_function: out goes to the end of  *)
(* the code buffer, its relocations move by where it starts.               *)
Place(j, n, out, scratch, made) ==
    LET base == Len(code[j])
    IN  /\ code' = [code EXCEPT ![j] = @ \o out.cells]
        /\ lazy' = [lazy EXCEPT ![j][n].state = "compiling", ![j][n].addr = base + 1]
        /\ stack' = Append(stack, [j |-> j, n |-> n, scratch |-> scratch, cells |-> out.cells,
                                   relocs |-> out.relocs, base |-> base])
        /\ log' = log \cup {[j |-> j, n |-> n, base |-> base, made |-> made, placed |-> age]}

Callable(j, n) == n \in DOMAIN lazy[j] /\ lazy[j][n].state = "pending"

EnterHit(j, n) ==
    \E e \in Matching(j, lazy[j][n]) :
        /\ Len(e.cells) <= Free(j)
        /\ Place(j, n, [cells |-> e.cells, relocs |-> e.relocs], FALSE, e.age)
        /\ Count(TRUE)
        /\ UNCHANGED <<target, cache, epoch, syms, age, had>>

EnterMiss(j, n) ==
    LET ent == lazy[j][n]
        out == Compile(target[j], ent.module, ent.func)
    IN  /\ ~Cached(j, ent)
        /\ Len(out.cells) <= Free(j)
        /\ Place(j, n, out, TRUE, age)
        /\ \E S \in IF Idle THEN {{}, Prefetchable(j, n)} ELSE {{}} : cache' = Prefetched(j, S)
        /\ Count(FALSE)
        /\ UNCHANGED <<target, epoch, syms, age, had>>

(* A failure gives the whole chain of callers up; what was placed stays in *)
(* the buffer, and the functions are pending again.                        *)
GiveUp(j) ==
    /\ lazy' = [lazy EXCEPT ![j] = [n \in DOMAIN @ |->
                  IF \E i \in DOMAIN stack : stack[i].n = n
                  THEN [@[n] EXCEPT !.state = "pending", !.addr = 0] ELSE @[n]]]
    /\ stack' = <<>>

(* The stored code is too long: a hard failure, also on a hit.             *)
EnterFull(j, n) ==
    LET ent == lazy[j][n]
        outs == IF Cached(j, ent) THEN Matching(j, ent)
                ELSE {Compile(target[j], ent.module, ent.func)}
    IN  /\ \E out \in outs : Len(out.cells) > Free(j)
        /\ GiveUp(j)
        /\ Count(Cached(j, ent))
        /\ UNCHANGED <<target, cache, epoch, syms, code, age, log, had>>

Enter(j, n) == Callable(j, n) /\ (EnterHit(j, n) \/ EnterMiss(j, n) \/ EnterFull(j, n))

(* lr_jit_get_symbol of a name that is not materialized.                   *)
Materialize(j, n) ==
    /\ Idle /\ tops < MaxTop
    /\ Enter(j, n)
    /\ tops' = tops + 1

Top == stack[Len(stack)]

(* What apply_jit_relocs finds for a name (lookup_symbol_hashed_exact): of *)
(* a function that is not ready the address it is being compiled at, of    *)
(* any other name the address in the table, 0 when there is none.          *)
Found(j, s) ==
    IF s \in DOMAIN lazy[j] /\ lazy[j][s].state # "ready" THEN lazy[j][s].addr
    ELSE IF s \in DOMAIN syms[j] THEN syms[j][s] ELSE 0

Missing == {r \in Top.relocs : Found(Top.j, r.sym) = 0}
FirstMissing == (CHOOSE r \in Missing : \A x \in Missing : r.off <= x.off).sym

(* The loop over the relocations stops at the first name without address.  *)
(* A function of the JIT is materialized before it goes on; any other name *)
(* is found in the process, or everything under way fails.                 *)
MatDependency ==
    /\ ~Idle /\ Missing # {}
    /\ Enter(Top.j, FirstMissing)
    /\ UNCHANGED tops

MatUnresolved ==
    /\ ~Idle /\ Missing # {}
    /\ ~Callable(Top.j, FirstMissing)
    /\ \/ Bind(Top.j, [n \in {FirstMissing} |-> External]) /\ UNCHANGED <<lazy, stack>>
       \/ GiveUp(Top.j) /\ UNCHANGED <<syms, had>>
    /\ UNCHANGED <<target, cache, epoch, hits, misses, code, age, tops, log>>

Patched(f, cells) ==
    [i \in DOMAIN cells |->
       IF \E r \in f.relocs : r.off + f.base = i
       THEN [cells[i] EXCEPT !.addr = Found(f.j, (CHOOSE r \in f.relocs : r.off + f.base = i).sym)]
       ELSE cells[i]]

(* What is kept for the cache: the copy taken before the addresses were    *)
(* written.                                                                *)
CapturedCode(f) == f.cells

MatDone ==
    LET f == Top
        ent == lazy[f.j][f.n]
    IN  /\ ~Idle /\ Missing = {}
        /\ code' = [code EXCEPT ![f.j] = Patched(f, @)]
        /\ Bind(f.j, [n \in {f.n} |-> ent.addr])
        /\ lazy' = [lazy EXCEPT ![f.j][f.n].state = "ready", ![f.j][f.n].addr = 0]
        /\ stack' = Front(stack)
        /\ \/ cache' = IF f.scratch
                       THEN Insert(cache, Entry(f.j, ent, [cells |-> CapturedCode(f), relocs |-> f.relocs], age))
                       ELSE cache
           \/ UNCHANGED cache
        /\ UNCHANGED <<target, epoch, hits, misses, age, tops, log>>

Next ==
    \/ \E j \in Jits : \E m \in ModulesOf[j] : AddModule(j, m)
    \/ \E j \in Jits : \E n \in DOMAIN lazy[j] : Materialize(j, n)
    \/ MatDependency \/ MatUnresolved \/ MatDone
    \/ InvalidateAll \/ ResetStats

Spec == Init /\ [][Next]_vars

---------------------------------------------------------------------------
(* Where a name may live in a JIT: one of the places its code was put at   *)
(* (an attempt given up leaves its code there), or one the table gave it.  *)
Starts(j, s) == {g.base + 1 : g \in {x \in log : x.j = j /\ x.n = s}}
                \cup {h.addr : h \in {x \in had : x.j = j /\ x.n = s}}

(* The code a JIT publishes for a function, compiled or replayed from the  *)
(* cache, is the code its target makes of that function in that module,    *)
(* each mention of a name filled with an address of that name in this JIT: *)
(* the signatures cover all that the code depends on (jit.c 353-752).      *)
PublishedIsCompiled ==
    \A j \in Jits : \A n \in DOMAIN lazy[j] :
       lazy[j][n].state = "ready" =>
         LET out == Compile(target[j], lazy[j][n].module, lazy[j][n].func)
             at == syms[j][n] - 1
         IN  /\ at + Len(out.cells) <= Len(code[j])
             /\ \A i \in DOMAIN out.cells :
                  LET c == code[j][at + i]
                  IN  /\ [c EXCEPT !.addr = 0] = out.cells[i]
                      /\ \A r \in out.relocs : r.off = i => c.addr \in Starts(j, r.sym)

(* Code compiled before an invalidation is never placed after it, even     *)
(* when the 32-bit epoch has come round again (jit.c 825-830).             *)
NothingOutlivesInvalidation == \A g \in log : g.made = g.placed

================================================================================
