----------------------------- MODULE JitModules -----------------------------
(***************************************************************************)
(* Modules in the JIT, src/src/jit.c: the symbol table with its miss cache *)
(* and providers, lr_jit_add_module in eager and in lazy mode, and the     *)
(* recursive materialize_lazy_function behind lr_jit_get_function.         *)
(*                                                                         *)
(* A JIT is used by one thread.  The C call stack of add_module, get and   *)
(* materialize is the variable stack, so that recursion through the call   *)
(* graph and through the relocations of globals is explicit; API calls     *)
(* start only when it is empty.                                            *)
(*                                                                         *)
(* A name is <<b, us>>: the identifier b, with a leading '_' if us.  Code  *)
(* is a sequence of placed functions, each with the targets of its calls;  *)
(* the capacity of the buffer is counted in functions.  A module has one   *)
(* global, whose words refer to names.  The materialization cache only     *)
(* decides whether the same code is copied or compiled again, and is       *)
(* Prefetch's subject; '\01' and ".__liric_local." names, extern globals   *)
(* and the update window (DirectSession) are left out.                     *)
(***************************************************************************)
EXTENDS Integers, Sequences, FiniteSets, Functions

CONSTANTS Idents,     \* identifiers
          Modules,    \* modules
          ModFuncs,   \* module -> sequence of [name, calls], its functions
          ModDecls,   \* module -> names of the functions it only declares
          ModRefs,    \* module -> names the words of its global refer to
          UserNames,  \* names the client binds with lr_jit_add_symbol
          HostNames,  \* names the process exports
          LibNames,   \* names a library exports
          GetNames,   \* names the client asks for
          NULL,
          CodeCap,    \* functions that fit in the code buffer
          LazyModes   \* values of LIRIC_JIT_LAZY to consider

Plain(b) == <<b, FALSE>>
Names == Idents \X BOOLEAN

Defines(m) == {ModFuncs[m][k].name : k \in DOMAIN ModFuncs[m]}

CodeAddr(i) == <<"code", i>>
UserAddr(n) == <<"user", n>>
HostAddr(n) == <<"host", n>>
LibAddr(n)  == <<"lib", n>>

Address ==
    {CodeAddr(i) : i \in 1 .. CodeCap} \cup {UserAddr(n) : n \in Names} \cup
    {HostAddr(n) : n \in Names} \cup {LibAddr(n) : n \in Names}

ASSUME JitAssumption ==
    /\ \A m \in Modules :
          /\ ModFuncs[m] \in Seq([name : Names, calls : Seq(Names)]) \ {<<>>}
          /\ ModDecls[m] \in Seq(Names) /\ ModRefs[m] \in Seq(Names)
          /\ \A k \in DOMAIN ModFuncs[m] :
                Range(ModFuncs[m][k].calls) \subseteq Defines(m) \cup Range(ModDecls[m])
          /\ \A k, l \in DOMAIN ModFuncs[m] :
                ModFuncs[m][k].name = ModFuncs[m][l].name => k = l
    /\ UserNames \cup HostNames \cup LibNames \cup GetNames \subseteq Names
    /\ NULL \notin Address /\ NULL \notin Modules /\ NULL \notin Names
    /\ CodeCap \in Nat /\ LazyModes \subseteq BOOLEAN

VARIABLES
    tab,    \* what a lookup reads and writes, a record:
            \*   sym: the symbol table, name -> address or NULL
            \*   miss: the miss cache
            \*   lazy: name -> [st, mod, addr], st "none" if it has no lazy entry
            \*   libs: a library is loaded
            \*   mode: LIRIC_JIT_LAZY, fixed when the process starts
    code,   \* placed functions: [fn, calls, to], to the targets of the calls
    glob,   \* module -> the words of its global
    stack,  \* the C call stack
    rc,     \* result of the call that just returned: "none", "ok", "fail"
    ret,    \* history: address the last get returned, else NULL
    added,  \* history: modules given to lr_jit_add_module
    failed  \* history: some compilation or patching has failed

vars == <<tab, code, glob, stack, rc, ret, added, failed>>

-----------------------------------------------------------------------------
(***************************************************************************)
(* Resolution.  The operators take a value v of tab.                       *)
(***************************************************************************)
sym == tab.sym
lazy == tab.lazy

\* "f" is retried as "_f", "_f" as "f".
Alias(n) == <<n[1], ~n[2]>>

\* dlsym of the name, then of the name without its '_'.
Exported(E, n) ==
    IF n \in E THEN n ELSE IF n[2] /\ Alias(n) \in E THEN Alias(n) ELSE NULL

FromLibs(v, n) ==
    IF v.libs /\ Exported(LibNames, n) # NULL THEN LibAddr(Exported(LibNames, n)) ELSE NULL
FromProcess(n) ==
    IF Exported(HostNames, n) # NULL THEN HostAddr(Exported(HostNames, n)) ELSE NULL

\* The providers in their registered order: loaded libraries, then the process.
Provided(v, n) == IF FromLibs(v, n) # NULL THEN FromLibs(v, n) ELSE FromProcess(n)

\* symbol_should_preserve_host_binding: here the process is asked first.
PreserveHost(v, n) ==
    LET p == IF FromProcess(n) # NULL THEN FromProcess(n) ELSE FromLibs(v, n)
    IN  v.sym[n] # NULL /\ p # NULL /\ v.sym[n] = p

\* lr_jit_add_symbol
Bind(v, n, addr) == IF PreserveHost(v, n) THEN v ELSE [v EXCEPT !.sym[n] = addr]

\* lookup_symbol_hashed_exact: the address, and the view it leaves.
ExactAddr(v, n) ==
    CASE v.lazy[n].st = "compiling" -> v.lazy[n].addr
      [] v.lazy[n].st = "pending" -> NULL
      [] OTHER -> IF v.sym[n] # NULL THEN v.sym[n]
                  ELSE IF n \in v.miss THEN NULL ELSE Provided(v, n)

ExactView(v, n) ==
    IF v.lazy[n].st \in {"compiling", "pending"} \/ v.sym[n] # NULL \/ n \in v.miss THEN v
    ELSE IF Provided(v, n) # NULL THEN Bind(v, n, Provided(v, n))
    ELSE [v EXCEPT !.miss = @ \cup {n}]

\* lookup_symbol_hashed: the name, then its alias, whose address is added under
\* the name.
LookupAddr(v, n) ==
    IF ExactAddr(v, n) # NULL THEN ExactAddr(v, n)
    ELSE ExactAddr(ExactView(v, n), Alias(n))

LookupView(v, n) ==
    LET w == ExactView(v, n)
        a == ExactAddr(w, Alias(n))
    IN  IF ExactAddr(v, n) # NULL THEN w
        ELSE IF a # NULL THEN Bind(ExactView(w, Alias(n)), n, a)
        ELSE ExactView(w, Alias(n))

\* apply_jit_relocs of one call.  own gives the names defined in the object
\* context itself.
TargetAddr(own, n) == IF n \in DOMAIN own THEN own[n] ELSE LookupAddr(tab, n)
TargetView(own, n) == IF n \in DOMAIN own THEN tab ELSE LookupView(tab, n)

FuncOf(m, n) == CHOOSE g \in Range(ModFuncs[m]) : g.name = n

-----------------------------------------------------------------------------
(***************************************************************************)
(* The call stack                                                          *)
(***************************************************************************)
Top == stack[Len(stack)]
Below == SubSeq(stack, 1, Len(stack) - 1)
Idle == stack = <<>>
At(k) == ~Idle /\ Top.k = k

\* A frame: the function of the code it runs, and its arguments and loop
\* counters as far as that function has them.
Frame(k, n, m, i, pc) == [k |-> k, name |-> n, mod |-> m, idx |-> i, pc |-> pc]

\* apply_module_global_relocs, at word 1
GlobFrame(m) == Frame("glob", NULL, m, 0, 1)
\* materialize_lazy_function in its patching loop, at call 1 of code i
MatFrame(n, m, i) == Frame("mat", n, m, i, 1)
\* lr_jit_add_module in the given stage, at function i and call pc
AddFrame(stage, m, i, pc) == Frame(stage, NULL, m, i, pc)
\* lr_jit_get_symbol after its first lookup
GetFrame(n) == Frame("get", n, NULL, 0, 1)
\* lr_jit_get_defined_function at its try-th name
DefFrame(n, try) == Frame("def", n, NULL, 0, try)

Advance == stack' = Append(Below, [Top EXCEPT !.pc = @ + 1])

\* A placed function none of whose calls is bound.
Unbound(f) == [fn |-> f.name, calls |-> f.calls, to |-> [c \in DOMAIN f.calls |-> NULL]]

\* The free-space checks of compile_one_function and replay_cached_function: i
\* functions fit.
Fits(i) == i <= CodeCap

\* Mutant: the pending address is the one of the function placed before.
MutEnter(n, v, below) ==
    LET m == v.lazy[n].mod
        i == Len(code) + 1
    IN  IF Fits(i)
        THEN /\ code' = Append(code, Unbound(FuncOf(m, n)))
             /\ tab' = [v EXCEPT !.lazy[n] = [st |-> "compiling", mod |-> m,
                                               addr |-> CodeAddr(IF i = 1 THEN 1 ELSE i - 1)]]
             /\ stack' = Append(below, MatFrame(n, m, i))
             /\ rc' = "none" /\ failed' = failed
        ELSE /\ code' = code /\ tab' = v
             /\ stack' = below
             /\ rc' = "fail" /\ failed' = TRUE

\* materialize_lazy_function(n) up to its patching loop: the function becomes
\* COMPILING and its code is placed, or there is no room and the call fails.
Enter(n, v, below) ==
    LET m == v.lazy[n].mod
        i == Len(code) + 1
    IN  IF Fits(i)
        THEN /\ code' = Append(code, Unbound(FuncOf(m, n)))
             /\ tab' = [v EXCEPT !.lazy[n] = [st |-> "compiling", mod |-> m,
                                               addr |-> CodeAddr(i)]]
             /\ stack' = Append(below, MatFrame(n, m, i))
             /\ rc' = "none" /\ failed' = failed
        ELSE /\ code' = code /\ tab' = v
             /\ stack' = below
             /\ rc' = "fail" /\ failed' = TRUE

\* The error exit of materialize_lazy_function: PENDING again, the code stays.
LeaveFailed(v) ==
    /\ tab' = [v EXCEPT !.lazy[Top.name] = [st |-> "pending", mod |-> @.mod, addr |-> NULL]]
    /\ code' = code /\ stack' = Below /\ rc' = "fail" /\ failed' = TRUE

MatOwn == [n \in {Top.name} |-> CodeAddr(Top.idx)]
MatCall == code[Top.idx].calls[Top.pc]
MatMore == At("mat") /\ rc # "fail" /\ Top.pc <= Len(code[Top.idx].calls)

\* The patching loop binds one call.
MatPatch ==
    /\ MatMore /\ TargetAddr(MatOwn, MatCall) # NULL
    /\ code' = [code EXCEPT ![Top.idx].to[Top.pc] = TargetAddr(MatOwn, MatCall)]
    /\ tab' = TargetView(MatOwn, MatCall)
    /\ Advance /\ rc' = "none"
    /\ UNCHANGED <<glob, ret, added, failed>>

\* A call has no target: a lazy PENDING function is materialized and the loop
\* starts again, anything else fails.
MatMissing ==
    /\ MatMore /\ TargetAddr(MatOwn, MatCall) = NULL
    /\ LET v == TargetView(MatOwn, MatCall)
       IN  IF v.lazy[MatCall].st = "pending"
           THEN Enter(MatCall, v, Append(Below, [Top EXCEPT !.pc = 1]))
           ELSE LeaveFailed(v)
    /\ UNCHANGED <<glob, ret, added>>

\* Mutant: the function is published before its last call is bound.
MutMatDone ==
    /\ At("mat") /\ rc # "fail" /\ Top.pc >= Len(code[Top.idx].calls)
    /\ LET v == [tab EXCEPT !.lazy[Top.name] = [st |-> "ready", mod |-> @.mod, addr |-> NULL]]
       IN  tab' = Bind(v, Top.name, CodeAddr(Top.idx))
    /\ stack' = Append(Below, GlobFrame(Top.mod))
    /\ rc' = "none"
    /\ UNCHANGED <<code, glob, ret, added, failed>>

\* Every call has a target: the function is published, and the relocations of
\* the module's globals are applied again.
MatDone ==
    /\ At("mat") /\ rc # "fail" /\ Top.pc > Len(code[Top.idx].calls)
    /\ LET v == [tab EXCEPT !.lazy[Top.name] = [st |-> "ready", mod |-> @.mod, addr |-> NULL]]
       IN  tab' = Bind(v, Top.name, CodeAddr(Top.idx))
    /\ stack' = Append(Below, GlobFrame(Top.mod))
    /\ rc' = "none"
    /\ UNCHANGED <<code, glob, ret, added, failed>>

\* Mutant: the loop goes on although the dependency failed.
MutIgnoreFailure ==
    /\ At("mat") /\ rc = "fail"
    /\ rc' = "none"
    /\ UNCHANGED <<tab, code, glob, stack, ret, added, failed>>

\* The dependency could not be materialized.
MatDependencyFailed ==
    /\ At("mat") /\ rc = "fail"
    /\ LeaveFailed(tab)
    /\ UNCHANGED <<glob, ret, added>>

-----------------------------------------------------------------------------
(***************************************************************************)
(* apply_module_global_relocs, one word per step                           *)
(***************************************************************************)
GlobRef == ModRefs[Top.mod][Top.pc]
GlobMore == At("glob") /\ Top.pc <= Len(ModRefs[Top.mod])

\* lookup_symbol_materializing_lazy has to materialize the target first.
GlobMaterialize ==
    /\ GlobMore /\ rc = "none" /\ lazy[GlobRef].st = "pending"
    /\ Enter(GlobRef, tab, stack)
    /\ UNCHANGED <<glob, ret, added>>

\* The target is known now, or has no address and the word is left alone.
GlobWrite ==
    /\ GlobMore /\ (rc = "ok" \/ lazy[GlobRef].st # "pending")
    /\ LET building == lazy[GlobRef].st = "compiling"
           a == IF building THEN lazy[GlobRef].addr ELSE LookupAddr(tab, GlobRef)
       IN  /\ glob' = IF a = NULL THEN glob ELSE [glob EXCEPT ![Top.mod][Top.pc] = a]
           /\ tab' = (IF building THEN tab ELSE LookupView(tab, GlobRef))
    /\ Advance /\ rc' = "none"
    /\ UNCHANGED <<code, ret, added, failed>>

\* The target could not be materialized: the word is left alone.
GlobSkip ==
    /\ GlobMore /\ rc = "fail"
    /\ Advance /\ rc' = "none"
    /\ UNCHANGED <<tab, code, glob, ret, added, failed>>

GlobDone ==
    /\ At("glob") /\ Top.pc > Len(ModRefs[Top.mod])
    /\ stack' = Below /\ rc' = "ok"
    /\ UNCHANGED <<tab, code, glob, ret, added, failed>>

-----------------------------------------------------------------------------
(***************************************************************************)
(* lr_jit_add_module                                                       *)
(***************************************************************************)

\* The globals come first: lr_jit_materialize_globals ends with a pass over
\* their relocations.
AddModule(m) ==
    /\ Idle /\ m \notin added
    /\ stack' = <<AddFrame("register", m, 0, 0), GlobFrame(m)>>
    /\ added' = added \cup {m}
    /\ ret' = NULL
    /\ UNCHANGED <<tab, code, glob, rc, failed>>

\* Names the module defines and the table does not have enter the miss cache;
\* in lazy mode each function gets an entry, or has its entry reset to PENDING
\* (upsert_lazy_func_entry).
Register ==
    /\ At("register")
    /\ LET D == Defines(Top.mod)
           pending == [st |-> "pending", mod |-> Top.mod, addr |-> NULL]
       IN  tab' = [tab EXCEPT
             !.miss = @ \cup {n \in D : sym[n] = NULL},
             !.lazy = IF tab.mode THEN [n \in Names |-> IF n \in D THEN pending ELSE @[n]]
                      ELSE @]
    /\ stack' = Append(Below, AddFrame("decls", Top.mod, 0, 1))
    /\ rc' = "none"
    /\ UNCHANGED <<code, glob, ret, added, failed>>

\* lookup_symbol of every declaration
ResolveDecl ==
    /\ At("decls") /\ Top.pc <= Len(ModDecls[Top.mod])
    /\ tab' = LookupView(tab, ModDecls[Top.mod][Top.pc])
    /\ Advance
    /\ UNCHANGED <<code, glob, rc, ret, added, failed>>

\* Lazy mode: the globals may refer to functions that now have an entry.
RegisteredLazy ==
    /\ At("decls") /\ Top.pc > Len(ModDecls[Top.mod]) /\ tab.mode
    /\ stack' = Append(Append(Below, AddFrame("end", Top.mod, 0, 0)), GlobFrame(Top.mod))
    /\ UNCHANGED <<tab, code, glob, rc, ret, added, failed>>

\* Eager mode: compile every function, as far as the buffer goes.
CompileEager ==
    /\ At("decls") /\ Top.pc > Len(ModDecls[Top.mod]) /\ ~tab.mode
    /\ LET F == ModFuncs[Top.mod]
           fits == Fits(Len(code) + Len(F))
           placed == SubSeq(F, 1, IF fits THEN Len(F) ELSE CodeCap - Len(code))
       IN  /\ code' = code \o [k \in DOMAIN placed |-> Unbound(placed[k])]
           /\ stack' = IF fits THEN Append(Below, AddFrame("patch", Top.mod, 1, 1)) ELSE Below
           /\ failed' = (failed \/ ~fits)
    /\ UNCHANGED <<tab, glob, rc, ret, added>>

\* The code of the module that is being added: its k-th function.
EagerIndex(k) == Len(code) - Len(ModFuncs[Top.mod]) + k

OwnAddrs ==
    [n \in Defines(Top.mod) |->
        CodeAddr(EagerIndex(CHOOSE k \in DOMAIN ModFuncs[Top.mod] :
                               ModFuncs[Top.mod][k].name = n))]

EagerCalls == ModFuncs[Top.mod][Top.idx].calls
EagerCall == EagerCalls[Top.pc]
Patching == At("patch") /\ Top.idx <= Len(ModFuncs[Top.mod])

\* Patch the calls of one function after the other; a missing symbol fails the
\* whole module and leaves the code placed.
PatchEager ==
    /\ Patching /\ Top.pc <= Len(EagerCalls)
    /\ tab' = TargetView(OwnAddrs, EagerCall)
    /\ IF TargetAddr(OwnAddrs, EagerCall) # NULL
       THEN /\ code' = [code EXCEPT ![EagerIndex(Top.idx)].to[Top.pc] =
                                        TargetAddr(OwnAddrs, EagerCall)]
            /\ Advance /\ UNCHANGED failed
       ELSE stack' = Below /\ failed' = TRUE /\ UNCHANGED code
    /\ UNCHANGED <<glob, rc, ret, added>>

PatchNext ==
    /\ Patching /\ Top.pc > Len(EagerCalls)
    /\ stack' = Append(Below, AddFrame("patch", Top.mod, Top.idx + 1, 1))
    /\ UNCHANGED <<tab, code, glob, rc, ret, added, failed>>

\* Everything is patched: publish the functions, then apply the relocations of
\* the globals again.
Patched ==
    /\ At("patch") /\ Top.idx > Len(ModFuncs[Top.mod])
    /\ stack' = Append(Below, AddFrame("publish", Top.mod, 0, 1))
    /\ UNCHANGED <<tab, code, glob, rc, ret, added, failed>>

PublishEager ==
    /\ At("publish") /\ Top.pc <= Len(ModFuncs[Top.mod])
    /\ tab' = Bind(tab, ModFuncs[Top.mod][Top.pc].name, CodeAddr(EagerIndex(Top.pc)))
    /\ Advance
    /\ UNCHANGED <<code, glob, rc, ret, added, failed>>

Published ==
    /\ At("publish") /\ Top.pc > Len(ModFuncs[Top.mod])
    /\ stack' = Append(Append(Below, AddFrame("end", Top.mod, 0, 0)), GlobFrame(Top.mod))
    /\ UNCHANGED <<tab, code, glob, rc, ret, added, failed>>

AddModuleReturns ==
    /\ At("end")
    /\ stack' = Below /\ rc' = "none"
    /\ UNCHANGED <<tab, code, glob, ret, added, failed>>

-----------------------------------------------------------------------------
(***************************************************************************)
(* The other API calls                                                     *)
(***************************************************************************)

\* lr_jit_add_symbol
AddSymbol(n) ==
    /\ Idle
    /\ tab' = Bind(tab, n, UserAddr(n))
    /\ ret' = NULL
    /\ UNCHANGED <<code, glob, stack, rc, added, failed>>

\* Mutant: the miss cache survives a new library.
MutLoadLibrary ==
    /\ Idle /\ ~tab.libs
    /\ tab' = [tab EXCEPT !.libs = TRUE]
    /\ ret' = NULL
    /\ UNCHANGED <<code, glob, stack, rc, added, failed>>

\* lr_jit_load_library
LoadLibrary ==
    /\ Idle /\ ~tab.libs
    /\ tab' = [tab EXCEPT !.libs = TRUE, !.miss = {}]
    /\ ret' = NULL
    /\ UNCHANGED <<code, glob, stack, rc, added, failed>>

\* lr_jit_get_symbol when the first lookup decides: found, or nothing to compile.
GetSymbol(n) ==
    /\ Idle
    /\ LookupAddr(tab, n) # NULL \/ lazy[n].st # "pending"
    /\ ret' = LookupAddr(tab, n)
    /\ tab' = LookupView(tab, n)
    /\ UNCHANGED <<code, glob, stack, rc, added, failed>>

\* lr_jit_get_symbol of a function that is not compiled.
GetLazy(n) ==
    /\ Idle
    /\ LookupAddr(tab, n) = NULL /\ lazy[n].st = "pending"
    /\ Enter(n, LookupView(tab, n), <<GetFrame(n)>>)
    /\ ret' = NULL
    /\ UNCHANGED <<glob, added>>

GetReturns ==
    /\ At("get")
    /\ IF rc = "ok"
       THEN ret' = LookupAddr(tab, Top.name) /\ tab' = LookupView(tab, Top.name)
       ELSE ret' = NULL /\ UNCHANGED tab
    /\ stack' = Below /\ rc' = "none"
    /\ UNCHANGED <<code, glob, added, failed>>

\* lr_jit_get_defined_function: the name, then its alias; no provider is asked.
GetDefined(n) ==
    /\ Idle
    /\ stack' = <<DefFrame(n, 1)>>
    /\ ret' = NULL
    /\ UNCHANGED <<tab, code, glob, rc, added, failed>>

DefName == IF Top.pc = 1 THEN Top.name ELSE Alias(Top.name)

DefMaterialize ==
    /\ At("def") /\ rc = "none" /\ lazy[DefName].st = "pending"
    /\ Enter(DefName, tab, stack)
    /\ UNCHANGED <<glob, ret, added>>

DefFound ==
    /\ At("def") /\ rc # "fail"
    /\ lazy[DefName].st # "pending" /\ sym[DefName] # NULL
    /\ ret' = sym[DefName]
    /\ tab' = (IF Top.pc = 1 THEN tab ELSE Bind(tab, Top.name, sym[DefName]))
    /\ stack' = Below /\ rc' = "none"
    /\ UNCHANGED <<code, glob, added, failed>>

DefNext ==
    /\ At("def")
    /\ rc = "fail" \/ (lazy[DefName].st # "pending" /\ sym[DefName] = NULL)
    /\ stack' = IF Top.pc = 1 THEN <<DefFrame(Top.name, 2)>> ELSE <<>>
    /\ ret' = NULL /\ rc' = "none"
    /\ UNCHANGED <<tab, code, glob, added, failed>>

-----------------------------------------------------------------------------
Init ==
    /\ \E mode \in LazyModes :
          tab = [sym |-> [n \in Names |-> NULL], miss |-> {}, libs |-> FALSE, mode |-> mode,
                 lazy |-> [n \in Names |-> [st |-> "none", mod |-> NULL, addr |-> NULL]]]
    /\ code = <<>>
    /\ glob = [m \in Modules |-> [w \in DOMAIN ModRefs[m] |-> NULL]]
    /\ stack = <<>> /\ rc = "none" /\ ret = NULL
    /\ added = {} /\ failed = FALSE

\* The API calls a client may make, and the steps inside a call.
Call ==
    \/ \E m \in Modules : AddModule(m)
    \/ \E n \in UserNames : AddSymbol(n)
    \/ LoadLibrary
    \/ \E n \in GetNames : GetSymbol(n)
    \/ \E n \in GetNames : GetLazy(n)
    \/ \E n \in GetNames : GetDefined(n)

Step ==
    \/ MatPatch \/ MatMissing \/ MatDone \/ MatDependencyFailed
    \/ GlobMaterialize \/ GlobWrite \/ GlobSkip \/ GlobDone
    \/ Register \/ ResolveDecl \/ RegisteredLazy
    \/ CompileEager \/ PatchEager \/ PatchNext \/ Patched \/ PublishEager \/ Published
    \/ AddModuleReturns
    \/ GetReturns \/ DefMaterialize \/ DefFound \/ DefNext

Next == Call \/ Step

\* The thread that made a call keeps running until the call returns.
Spec == Init /\ [][Next]_vars /\ WF_vars(Step)
-----------------------------------------------------------------------------
(***************************************************************************)
(* Properties                                                              *)
(***************************************************************************)
Bound(i) == NULL \notin Range(code[i].to)

\* The calls of code i that go to other JIT code.
CalledBy(i) == {k \in DOMAIN code : CodeAddr(k) \in Range(code[i].to)}

\* The modules that were added mention a name, or it and its alias.
Mentions(m) == Defines(m) \cup Range(ModDecls[m]) \cup Range(ModRefs[m])
Mentioned(n) == \E m \in added : n \in Mentions(m)
TwoSpellings(n) == Mentioned(n) /\ Mentioned(Alias(n))

\* The symbol table never points to code one of whose calls has no target, in
\* lazy and in eager mode, whatever failed before.  (A name that modules use in
\* both spellings is no exception to the code: a lookup of "f" enters the
\* address of a "_f" that is being compiled in the table.)  As long as nothing
\* failed, all code of finished calls is bound: the patching loop of one
\* function leaves no call behind for another to bind.
PublishedBound ==
    /\ \A n \in Names : \A i \in DOMAIN code :
          sym[n] = CodeAddr(i) /\ ~TwoSpellings(n) => Bound(i)
    /\ Idle /\ ~failed => \A i \in DOMAIN code : Bound(i)

\* "bad materialization fails without breaking ok": published code never calls
\* code that has a call without target.
PublishedCallsBound ==
    Idle => \A n \in Names : \A i \in DOMAIN code :
                sym[n] = CodeAddr(i) => \A k \in CalledBy(i) : Bound(k)

\* Who gives a name an address, under either spelling.
Offers(n) ==
    UNION {{<<"module", m, s>> : m \in {k \in added : s \in Defines(k)}} \cup
           {<<p[1], p[2], s>> : p \in {q \in {<<"user", UserNames>>, <<"host", HostNames>>,
                                              <<"lib", LibNames>>} : s \in q[2]}}
           : s \in {n, Alias(n)}}

\* One owner, or the client and one provider for the same spelling.
OneOwner(n) ==
    \A p, q \in Offers(n) :
        p = q \/ (p[3] = n /\ q[3] = n /\ {p[1], q[1]} \in {{"user", "host"}, {"user", "lib"}})

\* Of a name with one owner all bound calls go where the table says the name
\* is, in whatever order the name was bound, looked up, compiled and called.
CallsAgreeWithTable ==
    Idle /\ ~failed =>
        \A i \in DOMAIN code : \A c \in DOMAIN code[i].to :
            OneOwner(code[i].calls[c]) => code[i].to[c] = sym[code[i].calls[c]]

\* The miss cache never hides a symbol: what a loaded library or the process
\* exports is found, unless a module that was added defines the name.
ProvidedIsFound ==
    Idle => \A n \in Names :
        Provided(tab, n) # NULL /\ (\A m \in added : n \notin Defines(m)) =>
            LookupAddr(tab, n) # NULL

\* Every call of the client returns: the recursion through call graphs, cycles
\* and global tables terminates, and so does the retry loop.
CallsReturn == (stack # <<>>) ~> (stack = <<>>)
=============================================================================
