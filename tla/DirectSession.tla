--------------------------- MODULE DirectSession ---------------------------
(***************************************************************************)
(* The DIRECT compile path of src/src/session.c: functions are begun,      *)
(* suspended, resumed and ended one API call at a time; ending one places  *)
(* its code in the JIT buffer and binds its calls, or leaves them pending  *)
(* until a later call makes the missing symbol known.                      *)
(*                                                                         *)
(* A session is used by one thread, so every API call is one action.  The  *)
(* code buffer is an array of cells.  A function with n calls takes n + 1  *)
(* cells: its entry, then one call site per call; the relocation of call i *)
(* has the function-relative offset i.  Emission is deferred to func_end   *)
(* (compile_deferred is always set), so a function owns one relocation     *)
(* range, [active_start, num_relocs) at its end: the ranges that suspend   *)
(* closes are empty and append_direct_reloc_range drops them.              *)
(*                                                                         *)
(* Allocation failure (malloc, realloc, calloc returning NULL) is left out.*)
(* The names, aliases and caches behind Resolve are the subject of         *)
(* JitSymbols; what a call finds is all that matters here.                 *)
(***************************************************************************)
EXTENDS Integers, Sequences, FiniteSets

CONSTANTS Names,      \* symbol names
          FuncNames,  \* names of functions built through the session
          OtherNames, \* names bound by hand, by globals or by modules
          HostNames,  \* names the process exports (dlsym)
          LibNames,   \* names a library exports once it is loaded
          NULL,       \* the null pointer; also "no function"
          CodeCap,    \* code_cap, in cells
          Builtins,   \* cells of the code lr_jit_create copies in
          Align,      \* alignment of a function's first cell
          MaxCalls,   \* bound: calls of one function
          MaxBegins,  \* bound: lr_session_func_begin calls
          LazyJit     \* LIRIC_JIT_LAZY: modules register, lookups compile

ASSUME ConstantsAssumption ==
    /\ FuncNames \subseteq Names /\ OtherNames \subseteq Names
    /\ HostNames \subseteq Names /\ LibNames \subseteq Names
    /\ NULL \notin Names
    /\ CodeCap \in Nat /\ Builtins \in 0 .. CodeCap /\ Align \in Nat \ {0}
    /\ MaxCalls \in Nat /\ MaxBegins \in Nat
    /\ LazyJit \in BOOLEAN

VARIABLES
    cur,        \* the active function [name, id, blocks], or NULL (cur_func)
    suspended,  \* sequence of such functions (s->suspended)
    active_start,  \* direct_reloc_active_start
    relocs,     \* direct_obj_ctx.relocs: [sym, addr, placed, to]
    objdef,     \* direct_obj_ctx.symbols: code offset of a defined name, or NULL
    pending,    \* direct_pending_relocs
    pending_start, \* direct_pending_reloc_start
    blobs,      \* s->blobs: [name, base, relocs]
    symbols,    \* the JIT's symbol table: name -> address or NULL
    lazy,       \* names whose lazy entry is LR_LAZY_FUNC_PENDING
    libs,       \* a library has been loaded
    code,       \* code_buf: [0 .. CodeCap - 1 -> [want, got]]
    code_size,  \* j->code_size
    upd,        \* [active, dirty, begin]: update_active, _dirty, _begin_code_size
    stale,      \* history: cells written since they were last flushed
    begun,      \* history: number of functions begun
    open,       \* history: ids of the functions begun and not ended
    defs,       \* history: name -> times its code was placed
    answered    \* history: the last call was a lookup that returned an address

funcs == <<cur, suspended, active_start, begun, open>>
links == <<relocs, objdef, pending, pending_start, blobs, defs>>
table == <<symbols, lazy, libs>>
memory == <<code, code_size, upd, stale>>
vars == <<funcs, links, table, memory, answered>>

-----------------------------------------------------------------------------
(***************************************************************************)
(* Addresses and symbol resolution.  A view v is the state a resolution    *)
(* reads: [obj, sym, lazy, libs, size].                                    *)
(***************************************************************************)
CodeAddr(k) == <<"code", k>>     \* code_buf + k
HostAddr(n) == <<"host", n>>     \* what dlsym returns
UserAddr(n) == <<"user", n>>     \* given to lr_session_add_symbol
DataAddr(n) == <<"data", n>>     \* storage of a global
ModAddr(n)  == <<"mod", n>>      \* code of a module-compiled function

Address ==
    {CodeAddr(k) : k \in 0 .. CodeCap} \cup
    UNION {{HostAddr(n), UserAddr(n), DataAddr(n), ModAddr(n)} : n \in Names}

View == [obj |-> objdef, sym |-> symbols, lazy |-> lazy, libs |-> libs,
         size |-> code_size]

\* What the symbol providers (loaded libraries, then the process) know.
Provided(v, n) == n \in HostNames \/ (v.libs /\ n \in LibNames)

\* Mutant: a name that was missed once stays missed when a library is loaded.
MutLookupStaleMiss(v, n) ==
    IF v.sym[n] # NULL /\ n \notin v.lazy THEN v.sym[n]
    ELSE IF n \in HostNames THEN HostAddr(n)
    ELSE NULL

\* lookup_symbol_hashed: the table, then the providers.  The table entry of a
\* lazy function that is not compiled is passed over, but its '_' alias still
\* reaches the providers.
LookupSymbol(v, n) ==
    IF v.sym[n] # NULL /\ n \notin v.lazy THEN v.sym[n]
    ELSE IF Provided(v, n) THEN HostAddr(n)
    ELSE NULL

\* The table after the names of N were looked up: what was found is cached.
CacheLookups(v, N) ==
    [n \in Names |->
        IF n \in N /\ LookupSymbol(v, n) # NULL THEN LookupSymbol(v, n) ELSE v.sym[n]]

\* lr_jit_add_symbol: an entry equal to the provider's address is preserved.
JitAddSymbol(v, n, addr) ==
    IF v.sym[n] # NULL /\ Provided(v, n) /\ v.sym[n] = HostAddr(n)
    THEN v.sym
    ELSE [v.sym EXCEPT ![n] = addr]

\* The target apply_jit_relocs takes for a symbol: its own definition in
\* section 1 first, else what the JIT finds.
Resolve(v, n) == IF v.obj[n] # NULL THEN CodeAddr(v.obj[n]) ELSE LookupSymbol(v, n)

-----------------------------------------------------------------------------
(***************************************************************************)
(* apply_jit_relocs on the relocations lo .. hi: each is bound in order    *)
(* until one has no target or lies outside the code; the rest is untouched.*)
(***************************************************************************)
Bindable(rel, v, i) == Resolve(v, rel[i].sym) # NULL /\ rel[i].addr < v.size

\* The relocations of lo .. hi that the call binds.
BoundBy(rel, v, lo, hi) ==
    {i \in lo .. hi : \A k \in lo .. i : Bindable(rel, v, k)}

\* patch_direct_relocs returns 0: nothing of lo .. hi was left.
PatchedAll(rel, v, lo, hi) == \A i \in lo .. hi : Bindable(rel, v, i)

\* The symbols the call looked up: up to and including the first failure.
LookedUp(rel, v, lo, hi) ==
    {rel[i].sym : i \in {k \in lo .. hi :
        /\ \A l \in lo .. (k - 1) : Bindable(rel, v, l)
        /\ v.obj[rel[k].sym] = NULL}}

\* The relocations with the targets written, the cells they were written to.
BindRelocs(rel, v, I) ==
    [i \in DOMAIN rel |->
        IF i \in I THEN [rel[i] EXCEPT !.to = Resolve(v, rel[i].sym)] ELSE rel[i]]

WriteCells(cd, rel, I) ==
    [a \in DOMAIN cd |->
        [cd[a] EXCEPT !.got = @ \cup {rel[i].sym : i \in {k \in I : rel[k].addr = a}}]]

Written(rel, I) == {rel[i].addr : i \in I}

-----------------------------------------------------------------------------
(***************************************************************************)
(* The writable window: lr_jit_begin_update, apply_jit_relocs' marking and *)
(* lr_jit_end_update, which flushes [begin, code_size) if it is dirty.     *)
(***************************************************************************)
BeginUpdate(u, size) ==
    IF u.active THEN u ELSE [active |-> TRUE, dirty |-> FALSE, begin |-> size]

Lowest(S) == CHOOSE x \in S : \A y \in S : x <= y

\* Mutant: a patch marks the window dirty without lowering its start.
MutMarkKeepsBegin(u, A) == [u EXCEPT !.dirty = @ \/ A # {}]

MarkPatched(u, A) ==
    [u EXCEPT !.dirty = @ \/ A # {}, !.begin = Lowest(A \cup {@})]

Flushed(u, size) == IF u.dirty THEN u.begin .. (size - 1) ELSE {}

\* The window a call leaves: closed if the call opened it, with what is stale.
CloseUpdate(u, size, st) ==
    IF upd.active
    THEN upd' = u /\ stale' = st
    ELSE /\ upd' = [active |-> FALSE, dirty |-> FALSE, begin |-> size]
         /\ stale' = st \ Flushed(u, size)
-----------------------------------------------------------------------------
(***************************************************************************)
(* Initial state: lr_session_create with a fresh JIT                       *)
(***************************************************************************)
Init ==
    /\ cur = NULL /\ suspended = <<>> /\ active_start = 0
    /\ begun = 0 /\ open = {}
    /\ relocs = <<>> /\ objdef = [n \in Names |-> NULL]
    /\ pending = FALSE /\ pending_start = 0
    /\ blobs = <<>> /\ defs = [n \in Names |-> 0]
    /\ symbols = [n \in Names |-> NULL] /\ lazy = {} /\ libs = FALSE
    /\ code = [a \in 0 .. CodeCap - 1 |-> [want |-> NULL, got |-> {}]]
    /\ code_size = Builtins
    /\ upd = [active |-> FALSE, dirty |-> FALSE, begin |-> Builtins]
    /\ stale = {}
    /\ answered = FALSE

(***************************************************************************)
(* Functions: begin, block, suspend, resume                                *)
(***************************************************************************)

\* lr_session_func_begin / begin_direct_compile.  When a function is active or
\* the code buffer is full the call fails and the session is as before.
FuncBegin(f) ==
    /\ cur = NULL
    /\ code_size < CodeCap
    /\ begun < MaxBegins
    /\ cur' = [name |-> f, id |-> begun + 1, blocks |-> FALSE]
    /\ active_start' = Len(relocs)
    /\ begun' = begun + 1
    /\ open' = open \cup {begun + 1}
    /\ answered' = FALSE
    /\ UNCHANGED <<suspended, links, table, memory>>

\* lr_session_block
Block ==
    /\ cur # NULL
    /\ cur' = [cur EXCEPT !.blocks = TRUE]
    /\ answered' = FALSE
    /\ UNCHANGED <<suspended, active_start, begun, open, links, table, memory>>

\* lr_session_suspend_func: the function moves to the end of the list.
SuspendFunc ==
    /\ cur # NULL
    /\ suspended' = Append(suspended, cur)
    /\ cur' = NULL
    /\ answered' = FALSE
    /\ UNCHANGED <<active_start, begun, open, links, table, memory>>

\* memmove over slot i: the later slots shift down by one.
RemoveSlot(s, i) ==
    [k \in 1 .. Len(s) - 1 |-> IF k < i THEN s[k] ELSE s[k + 1]]

\* Mutant: the count drops but the slots are not shifted.
MutResumeNoShift(i) ==
    /\ cur = NULL
    /\ i \in DOMAIN suspended
    /\ cur' = suspended[i]
    /\ active_start' = Len(relocs)
    /\ suspended' = [k \in 1 .. Len(suspended) - 1 |-> suspended[k]]
    /\ answered' = FALSE
    /\ UNCHANGED <<begun, open, links, table, memory>>

\* Mutant: the range restarts at 0 instead of the current end of the relocations.
MutResumeOldStart(i) ==
    /\ cur = NULL
    /\ i \in DOMAIN suspended
    /\ cur' = suspended[i]
    /\ active_start' = 0
    /\ suspended' = RemoveSlot(suspended, i)
    /\ answered' = FALSE
    /\ UNCHANGED <<begun, open, links, table, memory>>

\* lr_session_resume_func
ResumeFunc(i) ==
    /\ cur = NULL
    /\ i \in DOMAIN suspended
    /\ cur' = suspended[i]
    /\ active_start' = Len(relocs)
    /\ suspended' = RemoveSlot(suspended, i)
    /\ answered' = FALSE
    /\ UNCHANGED <<begun, open, links, table, memory>>

(***************************************************************************)
(* Ending a function                                                       *)
(***************************************************************************)

\* finish_function_state: the function is gone from the session.
FinishFunctionState ==
    /\ cur' = NULL
    /\ open' = open \ {cur.id}
    /\ UNCHANGED <<suspended, active_start, begun>>

\* lr_session_func_end_preserve_ir, and a func_end that fails before the
\* backend has emitted anything (finalisation, compile_begin).
FuncEndWithoutCode ==
    /\ cur # NULL /\ cur.blocks
    /\ FinishFunctionState
    /\ answered' = FALSE
    /\ UNCHANGED <<links, table, memory>>

\* The relocations the backend appends for a function with these calls.
Emitted(calls) ==
    [i \in 1 .. Len(calls) |->
        [sym |-> calls[i], addr |-> i, placed |-> FALSE, to |-> NULL]]

AlignUp(x) == ((x + Align - 1) \div Align) * Align

FuncLen(calls) == Len(calls) + 1

FitsCode(calls) == AlignUp(code_size) + FuncLen(calls) <= CodeCap

\* func_end failing in the replay, in compile_end or on "jit code buffer
\* overflow": the relocations emitted so far stay in direct_obj_ctx.
FuncEndFails(calls) ==
    /\ cur # NULL /\ cur.blocks
    /\ relocs' = relocs \o Emitted(calls)
    /\ FinishFunctionState
    /\ answered' = FALSE
    /\ UNCHANGED <<objdef, pending, pending_start, blobs, defs, table, memory>>

\* memcpy of the function to base: its entry cell and its call sites.
PlaceCode(cd, base, calls) ==
    [a \in DOMAIN cd |->
        IF a \in base .. (base + Len(calls))
        THEN [want |-> IF a = base THEN NULL ELSE calls[a - base], got |-> {}]
        ELSE cd[a]]

\* Offsets of the relocations from lo on become absolute.
PlaceRelocs(rel, lo, base) ==
    [i \in DOMAIN rel |->
        IF i >= lo THEN [rel[i] EXCEPT !.addr = @ + base, !.placed = TRUE] ELSE rel[i]]

\* Mutant: the symbol gets the end of the previous function, before alignment.
MutDefineUnaligned(ob, f, base) ==
    IF ob[f] = NULL THEN [ob EXCEPT ![f] = code_size] ELSE ob

\* lr_obj_ensure_symbol with is_defined: the first definition stays.
DefineObj(ob, f, base) == IF ob[f] = NULL THEN [ob EXCEPT ![f] = base] ELSE ob

\* Mutant: an unresolved range replaces the pending start instead of lowering it.
MutPendingReplaced(lo, all) == IF ~all THEN lo - 1 ELSE pending_start

\* The pending range after the function's own range, which starts at lo.
PendingStart(lo, all) ==
    IF ~all /\ (~pending \/ lo - 1 < pending_start) THEN lo - 1 ELSE pending_start

\* finish_direct_compile
FuncEnd(calls) ==
    LET fn   == cur.name
        base == AlignUp(code_size)
        size == base + FuncLen(calls)
        lo   == active_start + 1
        rel  == PlaceRelocs(relocs \o Emitted(calls), lo, base)
        hi   == Len(rel)
        \* patch the function's own range
        v1   == [View EXCEPT !.obj = DefineObj(objdef, fn, base), !.size = size]
        I1   == BoundBy(rel, v1, lo, hi)
        all1 == PatchedAll(rel, v1, lo, hi)
        pend == pending \/ ~all1
        from == PendingStart(lo, all1) + 1
        \* publish the function, then retry everything that is pending
        sym1 == CacheLookups(v1, LookedUp(rel, v1, lo, hi))
        sym2 == JitAddSymbol([v1 EXCEPT !.sym = sym1], fn, CodeAddr(base))
        v2   == [v1 EXCEPT !.sym = sym2]
        I2   == IF pend THEN BoundBy(rel, v2, from, hi) ELSE {}
        left == pend /\ ~PatchedAll(rel, v2, from, hi)
        I    == I1 \cup I2
        opened == BeginUpdate(upd, code_size)
    IN
    /\ cur # NULL /\ cur.blocks
    /\ FitsCode(calls)
    /\ relocs' = BindRelocs(BindRelocs(rel, v1, I1), v2, I2)
    /\ objdef' = v1.obj
    /\ pending' = left
    /\ pending_start' = IF left THEN from - 1 ELSE 0
    /\ blobs' = Append(blobs, [name |-> fn, base |-> base,
                   relocs |-> [k \in 1 .. (hi - active_start) |-> rel[active_start + k].sym]])
    /\ defs' = [defs EXCEPT ![fn] = @ + 1]
    /\ symbols' = IF pend THEN CacheLookups(v2, LookedUp(rel, v2, from, hi)) ELSE sym2
    /\ code' = WriteCells(PlaceCode(code, base, calls), rel, I)
    /\ code_size' = size
    /\ CloseUpdate(MarkPatched([opened EXCEPT !.dirty = TRUE], Written(rel, I)), size,
                   stale \cup (base .. (size - 1)) \cup Written(rel, I))
    /\ FinishFunctionState
    /\ answered' = FALSE
    /\ UNCHANGED <<lazy, libs>>

-----------------------------------------------------------------------------
(***************************************************************************)
(* Calls that may resolve what is pending                                  *)
(***************************************************************************)

\* The symbol table once patch_direct_relocs has gone over what is pending.
PatchedSymbols(v) ==
    IF pending
    THEN CacheLookups(v, LookedUp(relocs, v, pending_start + 1, Len(relocs)))
    ELSE v.sym

\* patch_direct_relocs over everything pending, from the view v.
PatchPending(v) ==
    LET lo == pending_start + 1
        hi == Len(relocs)
        I  == IF pending THEN BoundBy(relocs, v, lo, hi) ELSE {}
        left == pending /\ ~PatchedAll(relocs, v, lo, hi)
    IN
    /\ relocs' = BindRelocs(relocs, v, I)
    /\ code' = WriteCells(code, relocs, I)
    /\ pending' = left
    /\ pending_start' = IF left THEN pending_start ELSE 0
    /\ CloseUpdate(MarkPatched(BeginUpdate(upd, code_size), Written(relocs, I)),
                   code_size, stale \cup Written(relocs, I))
    /\ UNCHANGED <<objdef, blobs, defs, code_size>>

\* try_patch_pending_direct_relocs
TryPatchPending(v) == PatchPending(v) /\ symbols' = PatchedSymbols(v)

\* lr_session_add_symbol
AddSymbol(n) ==
    /\ TryPatchPending([View EXCEPT !.sym = JitAddSymbol(View, n, UserAddr(n))])
    /\ answered' = FALSE
    /\ UNCHANGED <<funcs, lazy, libs>>

\* lr_session_load_library
LoadLibrary ==
    /\ ~libs
    /\ libs' = TRUE
    /\ TryPatchPending([View EXCEPT !.libs = TRUE])
    /\ answered' = FALSE
    /\ UNCHANGED <<funcs, lazy>>

\* lr_session_global: lr_jit_materialize_globals skips a name already bound.
Global(n) ==
    /\ TryPatchPending([View EXCEPT !.sym =
          IF symbols[n] # NULL THEN symbols ELSE JitAddSymbol(View, n, DataAddr(n))])
    /\ answered' = FALSE
    /\ UNCHANGED <<funcs, lazy, libs>>

\* lr_session_compile_ll / _bc of a module that defines n: lr_jit_add_module
\* binds it or registers it lazily; pending relocations are not retried.
CompileModule(n) ==
    /\ lazy' = IF LazyJit THEN lazy \cup {n} ELSE lazy
    /\ symbols' = IF LazyJit THEN symbols ELSE JitAddSymbol(View, n, ModAddr(n))
    /\ answered' = FALSE
    /\ UNCHANGED <<funcs, links, libs, memory>>

\* Mutant: lookup does not wait for what is pending.
MutLookupIgnoresPending(n) ==
    /\ pending
    /\ ~PatchedAll(relocs, View, pending_start + 1, Len(relocs))
    /\ TryPatchPending(View)
    /\ answered' = (LookupSymbol(View, n) # NULL)
    /\ UNCHANGED <<funcs, lazy, libs>>

\* lr_session_lookup when something is pending that cannot be bound: NULL.
LookupPending(n) ==
    /\ pending
    /\ ~PatchedAll(relocs, View, pending_start + 1, Len(relocs))
    /\ TryPatchPending(View)
    /\ answered' = FALSE
    /\ UNCHANGED <<funcs, lazy, libs>>

\* lr_session_lookup otherwise: bind what is pending, then lr_jit_get_function,
\* which compiles a lazy function.
LookupReady(n) ==
    LET v1 == [View EXCEPT !.sym = PatchedSymbols(View)]
        found == LookupSymbol(v1, n)
        v2 == IF found = NULL /\ n \in lazy
              THEN [v1 EXCEPT !.sym = JitAddSymbol(v1, n, ModAddr(n)), !.lazy = @ \ {n}]
              ELSE [v1 EXCEPT !.sym = CacheLookups(v1, {n})]
    IN
    /\ ~pending \/ PatchedAll(relocs, View, pending_start + 1, Len(relocs))
    /\ PatchPending(View)
    /\ symbols' = v2.sym
    /\ lazy' = v2.lazy
    /\ answered' = (LookupSymbol(v2, n) # NULL)
    /\ UNCHANGED <<funcs, libs>>

\* lr_jit_begin_update / lr_jit_end_update called around a batch of calls.
JitBeginUpdate ==
    /\ ~upd.active
    /\ upd' = BeginUpdate(upd, code_size)
    /\ answered' = FALSE
    /\ UNCHANGED <<funcs, links, table, code, code_size, stale>>

JitEndUpdate ==
    /\ upd.active
    /\ upd' = [active |-> FALSE, dirty |-> FALSE, begin |-> code_size]
    /\ stale' = stale \ Flushed(upd, code_size)
    /\ answered' = FALSE
    /\ UNCHANGED <<funcs, links, table, code, code_size>>

Calls == UNION {[1 .. k -> Names] : k \in 0 .. MaxCalls}

Next ==
    \/ \E f \in FuncNames : FuncBegin(f)
    \/ Block
    \/ SuspendFunc
    \/ \E i \in DOMAIN suspended : ResumeFunc(i)
    \/ FuncEndWithoutCode
    \/ \E calls \in Calls : FuncEndFails(calls)
    \/ \E calls \in Calls : FuncEnd(calls)
    \/ \E n \in OtherNames : AddSymbol(n)
    \/ LoadLibrary
    \/ \E n \in OtherNames : Global(n)
    \/ \E n \in OtherNames : CompileModule(n)
    \/ \E n \in Names : LookupPending(n)
    \/ \E n \in Names : LookupReady(n)
    \/ JitBeginUpdate
    \/ JitEndUpdate

Spec == Init /\ [][Next]_vars
-----------------------------------------------------------------------------
(***************************************************************************)
(* Properties                                                              *)
(***************************************************************************)
Func == [name : Names, id : 1 .. MaxBegins, blocks : BOOLEAN]
\* The null pointer is no offset, no address and no function.
ASSUME NullAssumption ==
    NULL \notin Nat /\ NULL \notin Address /\ NULL \notin Func

Reloc == [sym : Names, addr : 0 .. (CodeCap + MaxCalls), placed : BOOLEAN,
          to : Address \cup {NULL}]

\* Type correctness of the session, the tables and the code buffer.
TypeOK ==
    /\ cur \in Func \cup {NULL} /\ suspended \in Seq(Func)
    /\ active_start \in 0 .. Len(relocs)
    /\ begun \in 0 .. MaxBegins /\ open \subseteq 1 .. MaxBegins
    /\ relocs \in Seq(Reloc)
    /\ objdef \in [Names -> (0 .. CodeCap) \cup {NULL}]
    /\ pending \in BOOLEAN /\ pending_start \in 0 .. Len(relocs)
    /\ blobs \in Seq([name : Names, base : 0 .. CodeCap, relocs : Seq(Names)])
    /\ defs \in [Names -> Nat]
    /\ symbols \in [Names -> Address \cup {NULL}]
    /\ lazy \subseteq Names /\ libs \in BOOLEAN
    /\ code \in [0 .. CodeCap - 1 -> [want : Names \cup {NULL}, got : SUBSET Names]]
    /\ code_size \in Builtins .. CodeCap
    /\ upd \in [active : BOOLEAN, dirty : BOOLEAN, begin : 0 .. CodeCap]
    /\ stale \subseteq 0 .. CodeCap - 1
    /\ answered \in BOOLEAN

\* The relocations left behind by functions whose func_end failed.
Orphans == {i \in DOMAIN relocs : ~relocs[i].placed}

Unbound == {i \in DOMAIN relocs : relocs[i].placed /\ relocs[i].to = NULL}

\* direct_pending_reloc_start is a lower bound of all that is unbound: a call
\* site placed by finish_direct_compile and not bound yet is always retried.
UnboundIsPending ==
    \A i \in Unbound : pending /\ i > pending_start

\* lr_session_lookup returns an address only when every call site of the code
\* placed so far is bound: no function can be run into an unbound call.
LookupBindsAll == answered => Unbound = {}

\* The blob of a function lists exactly the calls of the code that was placed:
\* suspending and resuming never moves a relocation to another function's blob.
\* A call site is only ever written with the target of its own call, and code
\* that is no call site is never written, unless a failed func_end left
\* relocations behind.
BlobsMatchCode ==
    /\ \A k \in DOMAIN blobs :
          /\ \A i \in DOMAIN blobs[k].relocs :
                code[blobs[k].base + i].want = blobs[k].relocs[i]
          /\ \A m \in DOMAIN blobs :
                k < m => blobs[k].base + Len(blobs[k].relocs) < blobs[m].base
    /\ Orphans = {} =>
          \A a \in 0 .. code_size - 1 :
              code[a].got \subseteq (IF code[a].want = NULL THEN {} ELSE {code[a].want})

\* A bound call to a function that was defined once, and whose name nobody else
\* binds, goes to the address lookup returns for it, whichever came first.
CallsMatchLookup ==
    \A i \in DOMAIN relocs :
        LET n == relocs[i].sym IN
        ( /\ relocs[i].placed /\ relocs[i].to # NULL /\ defs[n] = 1
          /\ n \notin OtherNames \cup HostNames \cup LibNames )
        => relocs[i].to = symbols[n]

\* Outside an update window the instruction cache holds every byte of the code.
NoStaleCode == ~upd.active => stale \cap (0 .. code_size - 1) = {}

\* Every function begun and not ended is current or in exactly one suspended
\* slot: resume by index neither loses nor duplicates a function.
OpenFunctionsKept ==
    LET ids == [k \in DOMAIN suspended |-> suspended[k].id]
        here == IF cur = NULL THEN {} ELSE {cur.id}
    IN
    /\ open = here \cup {ids[k] : k \in DOMAIN ids}
    /\ \A k, m \in DOMAIN ids : k # m => ids[k] # ids[m]
    /\ \A k \in DOMAIN ids : ids[k] \notin here

\* The name has a definition somewhere: in this session, in a compiled module,
\* in the table, in a library or in the process.
Defined(n) == objdef[n] # NULL \/ symbols[n] # NULL \/ n \in lazy \/ Provided(View, n)

\* "unresolved relocations are deferred until lookup/execution time": once every
\* unbound call has a definition, the patching that lookup does binds them all.
LateBindingAtLookup ==
    ( Orphans = {} /\ pending /\ \A i \in Unbound : Defined(relocs[i].sym) )
    => PatchedAll(relocs, View, pending_start + 1, Len(relocs))
=============================================================================
