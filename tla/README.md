# Formal models of liric

liric is a small JIT and ahead-of-time compiler for LLVM-style IR, written in
C. This directory holds TLA+ models of its core, the TLC configurations that
check them on small instances, and TLAPS proofs of the properties that matter
most. Paths below are relative to the repository, `src/` being its root, so the
C sources are under `src/src/`.

## 1. The system

| Part | Files | State | Operations |
|---|---|---|---|
| Arena | `arena.c` | list of chunks, bytes used in each | create, alloc, destroy |
| Session (DIRECT mode) | `session.c` | current function, suspended functions, relocation table shared by all functions, pending range, captured blobs | func_begin/block/emit/suspend/resume/end, add_symbol, load_library, global, compile_ll/bc, lookup |
| JIT symbol resolution | `jit.c` | symbol table, miss cache, lazy entries, loaded libraries | add_symbol, lookup, load_library |
| JIT code buffer | `jit.c` | code bytes, `code_size`, update window (W^X) | begin_update, apply_jit_relocs, end_update |
| JIT modules | `jit.c` | lazy entries (PENDING, COMPILING, READY), globals' storage | add_module (eager, lazy), materialize, get_symbol, get_defined_function |
| Prefetch | `jit.c` | task array, worker threads | collect, start, compile, join, store |
| Materialization cache | `jit.c` | process-wide hash table keyed by module and function signatures | lookup, insert, invalidate |
| IR and modules | `ir.c` | functions, blocks, symbols, types | create, finalize, merge, disambiguate |
| Frontends | `ll_*.c`, `bc_decode.c`, `wasm_*.c` | parser state | parse to IR |
| Targets | `target_*.c`, `stencil_*.c` | code buffer, fixups, stack slots | instruction selection and encoding |
| Object output | `objfile*.c`, `module_emit.c` | sections, symbols, relocations | emit object, link executable |
| Runtime | `runtime_archive.c`, session.c | runtime bitcode and archive | merge into the session's module |
| LLVM APIs | `liric_compat.c`, `llvm_*.c` | mirrors of LLVM objects | builder calls, switching between functions |

How they interact. A session owns a module and a JIT. In DIRECT mode each
function is compiled when it ends: the backend appends relocations to one table
that all functions share, the code is copied to the end of the JIT's buffer, the
function's own relocations are applied, and those that cannot be resolved are
remembered as one pending range that func_end, add_symbol, load_library, global
and lookup retry. The JIT resolves names through its table, then through loaded
libraries and the process, and caches both hits and misses. Parsed modules go to
`lr_jit_add_module`, which compiles them at once or, with `LIRIC_JIT_LAZY`,
registers their functions and compiles each when it is first looked up,
recursively with what it calls. With `LIRIC_JIT_MAT_THREADS`, the functions
reachable from the first one are compiled by worker threads into a cache.

What is hard here, and listed with its line in `PROJECT.json` under `hazards`:
functions that are suspended and resumed while others append to the same
relocation table; patching that stops at the first unresolved symbol; failures
halfway (func_end, materialization, an eager module, thread creation); caches
that may be stale (miss cache, cached host bindings, the instruction cache); the
order in which a name is bound by the process, a library, the user or a module;
recursion between lazy functions; the partition of tasks between threads; and
arithmetic at the end of buffers. In the compiler: values kept in scratch
registers over stores, calls and block ends; phi copies that happen at once in
the program and one after the other in the code; branches written before what
they must do is known; names used before they are defined; ids that move when a
block is erased; names that two units share.

What makes each part correct:

* arena: blocks are aligned, inside their chunk and never overlap;
* session: no call site is forgotten, no site is written with another call's
  target, an address is handed out only when every placed call is bound, blobs
  hold exactly their function's relocations, no suspended function is lost;
* W^X: code that may run has been flushed since it was last written;
* resolution: what a provider exports is found however often it was missed
  before; a call and a lookup of the same name agree;
* modules: published code has its calls bound; every call into the JIT returns;
* prefetch: results are read only when complete, and the parallel version does
  what one atomic compilation would;
* materialization cache: what is replayed is what compiling would give, and
  nothing is replayed that was compiled before an invalidation;
* finalisation and targets: the code computes what the function means;
* linking: the units taken are enough, every reference arrives at the symbol its
  unit means, a package is taken whole or not at all, the file can be loaded;
* text: a module and its dump mean the same, and so do a text and what the
  parser makes of it;
* bitcode: a file is refused or decoded to the module it was written from, and
  every record is read as it was written;
* WebAssembly: the functions made, and those replayed into a session, do what
  the file says;
* LLVM-compatible builder: operands stay what the client meant through every
  edit of blocks, phis, switches, names and linkage.

## 2. Modules

### Arena, ArenaProofs

`chunks` is the list of chunks (oldest first; the head of the C list is the last
element), `blocks` a history of the blocks handed out since creation.
`AllocFromHead`, `AllocNewChunk` and `AllocOutOfMemory` are the three ways out of
`arena_alloc_impl`; `Destroy` is `lr_arena_destroy`. Sums are taken modulo
`SizeMod`, the model of `size_t`. `arena_alloc_impl` does not check them for
wrap-around, so the range in which the code is right is stated as an assumption
on the callers: `NoWrapAssumption` limits chunk and request sizes so that no sum
of the allocator reaches `SizeMod`. Requests near `SIZE_MAX` are outside what is
checked and proved.

### DirectSession, DirectSessionProofs, DirectCodeProofs

The state is the session's and the part of the JIT it works on:

| Variable | In the code |
|---|---|
| `cur`, `suspended`, `active_start` | `cur_func`, `suspended[]`, `direct_reloc_active_start` |
| `relocs` | `direct_obj_ctx.relocs`; `placed` when the owning function's code was copied, `to` what was last written at the site |
| `objdef` | offset of the symbols defined in section 1 of `direct_obj_ctx` |
| `pending`, `pending_start` | `direct_pending_relocs`, `direct_pending_reloc_start` |
| `blobs` | `blobs[]` |
| `symbols`, `lazy`, `libs` | the JIT's table, its pending lazy functions, loaded libraries |
| `code`, `code_size` | `code_buf`: per cell the call it wants and the names written to it |
| `upd`, `stale` | `update_active/dirty/begin_code_size`; cells written and not flushed |
| `open`, `begun`, `defs`, `ret` | histories used by properties |

A function is one entry cell and one cell per call. Because emission is deferred
to func_end, a function's relocations are appended in one piece there; suspend
and resume only move the state around, and `active_start` is taken again at
resume. `FuncEnd` is the whole of `finish_direct_compile`: placing, defining the
symbol, capturing the blob, rebasing, patching the own range, publishing, and
retrying what is pending, inside one writable window. `FuncEndFails` is a failure
after the backend has emitted, `FuncEndWithoutCode` one before and
`func_end_preserve_ir`. `BoundBy` says what `apply_jit_relocs` does: bind in
order, stop at the first relocation without a target.

### JitModules, JitModulesProofs, JitAgreementProofs

`tab` holds the table, the miss cache, lazy entries and libraries; `code` the
functions placed, each with the targets of its calls; `glob` the globals' pointer
fields; `stack` the C call stack, one frame per active `lr_jit_add_module`,
`lr_jit_get_symbol`, `lr_jit_get_defined_function`, `materialize_lazy_function`
and `apply_module_global_relocs`. All frames have one shape: the kind of call, the
name and module it is about, an index and a position `pc`. Every recursive call
pushes a frame, every return pops one and leaves `rc`; so the recursion of lazy
materialization is in the model step by step without recursive operators. The
loops of the code are steps too: a step binds one call (`MatPatch`, `PatchEager`),
resolves one declaration (`ResolveDecl`) or publishes one function
(`PublishEager`), so that an invariant can say how far a loop has come. A name is a
pair of an identifier and a flag for a leading `_`, which is all that the alias
rules look at; `Alias` flips the flag and `Exported` is `dlsym` with the provider's
own stripping of `_`.

Two properties have exceptions. `PublishedBound` leaves out a name
that modules use in both spellings, and `CallsAgreeWithTable` a name with more
than one owner: section 6 says what the code does there.

### Prefetch, PrefetchAtomic, PrefetchProofs

`Prefetch` has one process per thread. The caller walks the call graph
(`CollectCall`, `CollectNext`), gives up or starts the workers
(`CreateWorker`, or `RunInline` when `pthread_create` fails), joins them and
stores the results. A worker clears a task's result (`BeginTask`) and later fills
it in (`EndTask`). `PrefetchAtomic` is the abstract specification: collect, then
compile everything in a single step, then put each function that compiled into the
cache once, in any order. `AtomicSpec` instantiates it with the mapping that keeps
the results hidden until the threads are joined.

### MatCache, SignatureProofs, MatCacheProofs

The process-wide cache of compiled functions, `cache`, with `epoch`; two JITs,
each with its lazy functions (`lazy`), table (`syms`) and code buffer (`code`),
and `stack` for the materializations under way. Signatures are built field by
field as `build_module_signature` and `build_function_signature` do, as sequences
of numbers, because the question is whether two functions that differ can have
one signature. The types are a table in which each type stands behind those it is
made of, and `SigType` is a recursive function on it. `EnterHit` replays an entry
(`replay_cached_function`), `EnterMiss` compiles, and `MatDone` stores the code as
it was before any address was patched into it. Of the back end the model has what
the code may depend on, not its bytes: `FuncMeta` is what `lr_target_compile` hands
it about the function, the target and `uses_llvm_abi` included, and `Encode` may use
that, all of an instruction, and how the module declares what the instruction
mentions. The compile mode is no input of `Encode`: it is stored in the contexts
(`target_x86_64.c:1896`, `target_aarch64.c:1601`, `target_riscv64.c:367`) and read in
one place, which refuses copy-and-patch on another host (`target_x86_64.c:3249`);
`lr_target_can_compile` takes both modes (`target_registry.c:55-60`), and the LLVM
mode leaves `lr_jit_add_module` before the cache. It decides whether there is code,
never which. The epoch counts modulo `EpochRange`, so that it comes round. `log`
and `had` are ghosts: what was placed where and when, and the addresses a name
has had.

### LrIr, LrCpu, TargetX8664, TargetAarch64, TargetRiscv64, Codegen

`LrIr` is the representation of `ir.h` with its meaning: `Meaning` runs a function
on its arguments. Integers are scaled down (1, 2, 3 and 4 bits for i1, i8, i32
and i64), so every width the back ends tell apart is there. Its second part is
`lr_func_finalize`: folding, forwarded loads, constant branches, dead definitions.
Each `Target*` module is one back end: a compile context is a record, every C
function an operator from context to context, and the code a sequence of abstract
machine instructions. `LrCpu` is the processor (external): partial register
writes, flags, clobbered registers, the frame. `Codegen` is the state machine of
`lr_target_compile`: finalize, begin, one step per block and instruction, end. A
function can also be fed to a target as its instructions arrive, with phis known
late, which the interface allows although every compilation is deferred today.

### BlobPackage, ObjFile, Link

`BlobPackage` writes and reads packages and runtime archives cell by cell, and has
the names of a module: scoped locals, merging, disambiguation of functions called
with another signature. `ObjFile` makes symbols, positions and
relocations out of a module or its captured functions, and lays out the
relocatable file and the executables. `Link` composes them as the compat layer
and the session do: scan the sidecars, select archive members until nothing
changes, take the units one after the other (parse, merge, import step by step),
then emit, possibly twice with a runtime archive in between.

### IrTypes, IrDump, LlParser, LlText

`IrTypes` has types and layout. `IrDump` writes a module line by line; `LlParser`
reads a line at a time into the parser's tables (`vreg_map`, blocks, types,
symbols), forward references included. `LlText` composes them and gives modules
and text a meaning of their own: the tree of loads, stores, calls and allocations
a function makes with values as terms, and the bytes and addresses of a global.

### BcDecode, BcFunction, BcWriter, BcFront

`bc_decode.c` in three layers. The first part of `BcDecode` is the bitstream: fixed
and variable numbers, the abbreviations of a block and those BLOCKINFO gives its
kind, char6, blobs. Its second part has the tables of the decoder: types, the numbering of values,
constants and aggregates, values that are used before their record comes and get
a register in advance, the initialisers of globals. `BcFunction` has one
definition for each kind of instruction record and what is done after the last
one: lowering a switch, repairing phis, dropping a body that cannot be decoded.
`BcFront` is the state machine, one step per entry of the stream, with the blocks
that are being read on a stack; it also holds `LlText`, because the entry point
looks at the input to choose the frontend. `BcWriter` is external: the bits LLVM
writes for a module, with and without abbreviations and BLOCKINFO. The file comes
whole, cut off at any word or followed by zeros.

### WasmToIr, Wasm, Frontends

`WasmToIr` reads bytes with a cursor (LEB128, sections, bodies), and has the
operand stack and control stack of the converter and the replay of its module
into a session, where a symbol id means another name. `Wasm` composes decode,
convert and replay, writes files as bytes and runs them, both after the definition
of WebAssembly and not after the code. `Frontends` composes it with `BcFront` and
`LlText` under `lr_frontend_detect`: one input, read by the frontend that its first
bytes choose. `WasmInputs` holds the files of the runs.

### CompatIr, CompatObjects, CompatBuilder

The LLVM-compatible builder for a session that builds IR. An operator takes the
module `m` and returns it as the call leaves it. `CompatIr` makes names distinct
from cached suffixes, folds constants in words of `WordBits` bits and has values
and instructions; `CompatObjects` has functions, blocks, phis
and switches, globals, initialisers and linkage. `CompatBuilder` is the client:
one action per call, calls taken from one menu (blocks, phis, values, names,
globals, fold), which bounds the search and not the code. Each instruction
remembers in `want`, which no modelled code reads, what its operands were meant
to be.

## 3. Runs

| Run | Checks | Bounds |
|---|---|---|
| `arena` | BlocksInUsedPart, BlocksDisjoint, BlocksAligned | 3 chunks of at least 8 bytes, 4 blocks, arithmetic mod 64 |
| `direct_session` | UnboundIsPending, BlobsMatchCode, OpenFunctionsKept, LookupBindsAll, CallsMatchLookup, NoStaleCode, LateBindingAtLookup | 3 functions begun, up to 1 call each, 7 cells |
| `jit_modules` | PublishedBound, CallsAgreeWithTable, ProvidedIsFound, CallsReturn | 3 modules with 6 functions, mutual recursion, a redefinition, a global and a name in both spellings; eager or lazy; room for 5 functions, so that the buffer fills up |
| `jit_lazy_failure` | PublishedCallsBound, violated | two mutually recursive functions and an unresolved name |
| `prefetch` | ResultsComplete, AtomicSpec, Returns | 6 functions with a diamond and a cycle, 3 threads |
| `matcache` | PublishedIsCompiled, NothingOutlivesInvalidation | 2 JITs, 2 targets, 32 modules that differ from one another in one detail each (functions with and without `uses_llvm_abi` among them), 2 invalidations with 3 epochs |
| `matcache_vectors` | PublishedIsCompiled, violated | the same with two vector types and two modules that differ in which one a function uses |
| `codegen` | CodeMeansFunction, FinalizeKeepsMeaning, SlotsDisjoint | a pool of functions with loops, swapped phis, aggregates, calls, spilled arguments and every width, on the three targets, each run on every argument |
| `link` | SelectionClosed, ImportAllOrNothing, ReferencesReachMeaning, NoBodyTwice, FileIsSound | 9 IR texts with shared names, scoped locals and variables, one of function type; objects and archive members in every order; damaged packages; 3 processors; one retry |
| `frontends` | DumpMeansModule, ParsedMeansText, DecodedMeansModule, FunctionsMeanWasm, ReplayedMeansModule, RefusedIffTooDeep, RecordsReadAsWritten | modules and texts that between them hold every kind of line, forward reference and constant; bitcode of modules that between them hold every record the decoder knows, in every shape of the writer, whole, padded and cut at each word; WebAssembly: an enumeration of nested blocks, loops and branches, two rich files, short and padded numbers; 8 operands, 5 control entries |
| `wasm_imports` | FunctionsMeanWasm, violated | a global and a function imported in both orders, and a call of the function |
| `builder` | ListsWellFormed, OperandsMeanTheirValues, RefsFollowRename, NamesDistinct, SwitchMeansCases, FoldedAsComputed | 4 blocks, 1 to 5 calls per menu, words of 3 bits |

The bounds are the smallest in which the cases of the hazards occur: three begun
functions let two be suspended while a third ends, and let a pending range hold
a call that can be bound and one that cannot; two mutually recursive functions
with an external call let a failure unwind through a published function; five
tasks over three threads leave a short last range and any thread may fail to
start; two invalidations and three epochs let a number come round if the code
did not clear its entries; an archive member that needs a name of an earlier one
makes selection go round twice; four blocks let one be moved or erased between
two that are named by operands; five name calls let a client ask for the name
the cached suffix would reach next. In `codegen`, `frontends` and `link` the
inputs are a pool of functions, modules or files, chosen so that each case of
the code (each opcode, each kind of operand, storage and edge) is met; for every
one of them all interleavings of steps and all arguments are explored. What such
a run shows is limited to its pool.

`direct_session` uses the symmetry of the two function names, which no
definition tells apart. A cfg with `CHECK_DEADLOCK FALSE` is one whose system
ends: a destroyed or full arena, a finished compilation, link, parse or
conversion, or a client that has used up its calls.

Fairness. `JitModules!Spec` assumes weak fairness of `Step`, the moves of a call
that is already running: it is a single thread of C code that is never blocked.
Nothing is assumed about the caller making calls. `Prefetch!Spec` assumes weak
fairness of the caller and of each worker: the operating system schedules every
thread; the caller's join is enabled only once the thread has exited. No other
specification states fairness, and none of their properties needs it.

`jit_lazy_failure` ends in a counterexample: after a failed materialization a
READY function still calls the abandoned code of the one that failed, where a
test says that a failed materialization breaks nothing else.

`matcache_vectors` ends in a counterexample too: the signature of a vector type is
its kind alone (`jit.c:389`), so the second JIT is given code that was compiled for
another vector, where the comment at `jit.c:107` makes equal signatures the
condition of a correct reuse. The run `matcache` and the proofs have one vector
type. The signature omits `uses_llvm_abi` in the same way. In `matcache`, functions
of both kinds occur in modules whose signatures differ elsewhere, as they do when
one comes from LLVM text and the other from a session, whose blocks have other
names; a client that gives its blocks the names of the text meets the same failure
(the `ModulesOf <- AbiModulesOf` of `MCMatCache` shows it).

`wasm_imports` ends in a counterexample as well: `wasm_to_ir.c:513` looks the type of
an imported function up in the table of all imports, so with a global before it the
call is made with another type.

## 4. Proofs

All theorems hold for every value of the constants that the named assumptions
allow; TLC evaluates the assumptions in the runs. Every invariant named here was
checked with TLC on the run's instance before it was proved.

| Module | Theorems | Properties |
|---|---|---|
| `ArenaProofs` | ArenaSafety, ArenaInside, ArenaAligned | BlocksDisjoint, BlocksInUsedPart, BlocksAligned |
| `DirectSessionProofs` | PendingCoversUnbound, LookupIsSafe | UnboundIsPending, LookupBindsAll |
| `DirectCodeProofs` | SessionTypes, OpenFunctionsAreKept, CodeIsFlushed, BlobsDescribeCode, CallsAgreeWithLookup, LookupBindsLate | TypeOK, OpenFunctionsKept, NoStaleCode, BlobsMatchCode, CallsMatchLookup, LateBindingAtLookup |
| `PrefetchProofs` | ResultsAreComplete, PrefetchImplementsAtomic | ResultsComplete, AtomicSpec |
| `JitModulesProofs` | PublishedCodeIsBound, ProvidersAreFound | PublishedBound, ProvidedIsFound |
| `JitAgreementProofs` | CallsAndTableAgree | CallsAgreeWithTable |
| `SignatureProofs` | SignatureFixesCode | |
| `MatCacheProofs` | CodeIsCompiled, InvalidationIsFinal | PublishedIsCompiled, NothingOutlivesInvalidation |

Arena. Assumptions: `ConstantsAssumption` and `NoWrapAssumption`. The inductive
invariant is the properties with `ChunksOK`: every chunk is used at most up to its
size, and its size is one the code chooses, so that no sum on it wraps (without it
a chunk could be so large that the next bump wraps); `AlignUp` is handled by
lemmas (result aligned, at least its argument, less than one alignment above it).

DIRECT session, linking. The inductive invariant `IInv` is `LinkTypes` (the types
of the linking state), `ActiveAtEnd` (while a function is active its relocations
start at the end of the table, because deferred emission appends nothing before
func_end and resume takes the end again), `UnboundIsPending` and `LookupBindsAll`.
`ActiveAtEnd` is what makes it inductive: without it the own range that func_end
patches might miss relocations of the function. The argument for a patching step:
what is bound is a prefix of the range, so either the whole range is bound and
pending is cleared, or its first unbound element lies at or after a start that has
only been lowered.

DIRECT session, code. `DInv` adds to `IInv` one invariant per question.
`OpenInv`: a function is open in exactly one place. `WindowInv`: cells not yet
flushed lie between the offset the update window remembers and the end of the
code, which is what its end flushes; patches of earlier code lower that offset.
`CodeInv`: a placed relocation points at its own call site, blobs lie one after
the other below `code_size` and list the calls of their cells, a cell is written
with its own symbol only (relocations left behind by a failed func_end are the
exception the property names). `NamesInv`: how often a name was defined limits
the addresses it may have had, so a call bound before the definition is the case
that is excluded. `KnownInv`: a name that was resolved once can be resolved again.
`RangeInv`: the two indices stay inside the table. `NullAssumption` says that
NULL is none of the records and addresses. `LookupBindsLate` has the hypothesis
`~LazyJit`: with lazy modules a name may be defined and still not bindable by
lookup, as section 6 tells.

Prefetch. The ranges of the workers cover the tasks without overlap (`Begin` and
`End` as the code computes them, for any number of tasks and threads); `WorkersOK`
says for each worker how far it is in its range and that what lies before is
finished; hence when all are joined all is finished. The refinement takes each
step of the threads to a stutter of `PrefetchAtomic` and the last join to its
single compiling step. That the caller stores each result once follows from its
position: what is in the cache are the functions that compiled among the tasks
before it, and no function is a task twice.

JIT modules. Assumption: `JitAssumption`, which says what a parsed module is: at
least one function, none twice, calls only to names it defines or declares.
`JInv` has nine parts. `TypeInv` and `ShapeInv` say what is on the stack: one API
call, above it materializations and passes over globals, while most stages of
add_module call nothing. `LazyInv` and `MatInv`: a function is COMPILING exactly
while a frame materializes it, only one does, and its calls before the frame's
position are bound; so the step that publishes it publishes bound code, however
deep the recursion was. `EagerInv` says the same for the loops of an eager
add_module: the module's code is the last in the buffer, and functions before the
current one are bound. `PublishedInv` is the first half of the property for every
state; with it a lookup through an alias must be followed, where the two spellings
of one name come in, hence `CallsInv` (code calls only names that added modules
mention). `WorkInv`: code that is not bound is on the stack, or belongs to the
module that is being patched, or something failed. `MissInv` says why a name may
be in the miss cache: it has an address, nobody provides it, or a module defines
it; load_library clears the cache, which is what keeps the second case true.

JIT modules, calls and the table. `CallsAgreeWithTable` is about the time between
two calls; inside one, calls are bound to code the table does not have yet. `AInv`
is `JInv` with four more parts. `AgreeInv` has two cases for a name with one owner.
If a module defines it, there is one address, `Home`: where the code was placed
while a frame materializes it or the eager loops have not published it, otherwise
what the table has. Both spellings in the table have that address or none, all
bound calls go to it, a PENDING function has no address anywhere (so the address
it gets later contradicts nothing), and what the publishing loop has passed is in
the table. If no module defines it, calls go where the table says, and the address
is final: `UserVals` lists what a name the client binds may have, which shows that
lr_jit_add_symbol preserves whatever a provider gave first; a name nobody offers
has no address, so a module added later starts clean. `ModeInv` keeps lazy entries
out of the eager stages, `FailInv` and `DefInv` follow lr_jit_get_defined_function
to its second try, where it binds a name to the address of its alias. One lemma
(`AgreeLook`) covers every step that looks a name up and binds at most one call;
the others are one lemma per step of add_module and of materialization.

Materialization cache, signatures. Assumptions: `TypesAssumption` (a type is made
after its parts; arrays and vectors have one, functions at least the result) and
`ModulesAssumption` (modules are what the signature code walks, and a global
operand has the number of a name of its module). A signature is one flat sequence
without separators, so the question is whether it can be read back.
`Splits(a, b)` says that of two fields at the same place neither can be taken for
the beginning of the other. One number splits from another, a name after its
length from a name after its length, and a concatenation does when its parts do,
each part as long as those before it agree: the number of operands tells how many
operands follow, the kind of an operand what its value is. The lemmas go up from
types through operands, instructions, blocks and functions to modules; at the top,
equal signatures of two modules and of two functions make `Compile` equal on every
target (`SignatureFixesCode`). For types the argument is an induction over their
table, stated with a set of numbers (`SetInduction`, from the library's minimum of
a well-founded order), because theorems with an operator parameter cannot be
instantiated here; the recursive function `SigType` and the table that
`FlattenSeq` chooses are shown to exist in the same way. The two hypotheses name
what the signature leaves out and the code depends on. `VectorsAlike`: there is at
most one vector type; `matcache_vectors` shows that without it the statement is
false. `AbisAlike`: functions whose signatures are equal have one calling
convention, as they do when all modules of a process come from one kind of input
(the text and bitcode frontends and the compat layer always set `uses_llvm_abi`).

Materialization cache, code. `IInv` is `JitsInv` and `CacheCompiled`.
`CacheCompiled`: an entry holds what its target makes of some function with its
signatures; with `Signed` (a lazy entry has the signatures of its own function)
and `SignatureFixesCode` a hit is as good as a compilation. `FramesOK`: each
materialization under way has its code in the buffer, unpatched, and its entry
points to it. `FramesApart` and the second half of `Published`: the stretches of
the frames and of the ready functions do not meet, so patching the innermost
function leaves all others as they are; without them the invariant is not
inductive, because a patch might land in another function. `KnownSyms` and
`KnownCode`: every address that can be patched in is one the name has had.
`CodeIsCompiled` needs `VectorsAlike` and `AbisAlike`; `InvalidationIsFinal` needs no hypothesis:
what is in the cache is of the present age (`CacheFresh`), because an
invalidation empties it.

Only model-checked:
* liveness (`CallsReturn`, `Returns`), which is out of the prover's reach;
* Codegen, text and bitcode, WebAssembly: the meanings these runs compare are
  RECURSIVE operators over functions, files or modules, which the prover does not
  accept in a module it works on;
* Link and the builder: their properties speak of folds over sequences, of file
  layouts and of whole merged modules, for which each fold would first have to be
  proved equal to a function of its elements. Of these `SelectionClosed` is the one
  whose invariant is known: what is defined is what the selected objects give, and
  a member that was passed since the last change satisfies nothing open.

## 5. Left out, and why

* Allocation failures other than those named, and the LLVM backend.
* In `DirectSession`: external globals, instruction emission before func_end
  (deferred, so without effect on the linking state), modes other than DIRECT;
  `apply_jit_relocs` failing because a site is out of range or a patch is refused
  (`jit.c:1958-1962`, `2008-2022`), and what the session then does
  (`session.c:1642-1648`): a relocation fails only when its symbol is unknown.
* In `JitModules`: names with a `\01` prefix or a local-scope tag, the one-entry
  lookup caches in front of the hash tables, and the materialization cache, which
  `MatCache` shows to be transparent.
* Targets: the bytes of an encoding (an instruction is one cell), vectors, 128-bit
  floats, variadic functions, the stencils. Floating point values are small
  integers with rounding to float.
* Object output: Mach-O. It shares the first part of `ObjFile`; only its writer is
  missing.
* Text: characters (a line is a sequence of words), `invoke`, `landingpad` and
  `resume`, streaming into a session, display names of numbered symbols.
* WebAssembly: floating point, sub-word accesses, globals. In the passing run the
  imported functions come before other imports (`wasm_imports` has the other order)
  and no name is imported twice.
* Link: a text buffer is taken to end before other memory that holds the word
  " external " (see section 6). `ObjFile!Best` has no score for `uses_llvm_abi`,
  which every function read from text has.
* Builder: floating point, constant aggregates, extract/insertvalue, memset,
  lc_value_move_before_block_terminator, the DIRECT-mode switching between
  functions (its session side is in `DirectSession`).
* Bitcode: the replay of a decoded module into a session (modelled for
  WebAssembly, which does the same), the callback of the streaming variant,
  debug information and metadata, which the decoder skips.
* 128-bit floats: no small instance is telling. Driver and platform calls: no
  state of their own.

## 6. Met while modelling

Places where the code does something a caller may not expect. The models keep
what the code does, and the inputs of the runs stay out of these cases unless a
run is named; where a comment or test says otherwise it is quoted.

DIRECT session and JIT
* Relocations of a function whose func_end failed stay in the shared table and
  are applied with a later range (`session.c:1570`).
* With `LIRIC_JIT_LAZY` a pending call to a function of a parsed module is never
  bound, and a pending function is shadowed by the process's function through its
  `_` alias.
* A forward call, or a global initialiser, binds the name of a module's own
  function to the process's function of that name if it is resolved first; the
  runs have no host names for that reason.
* A name used in both spellings: if a lazy `_a` calls `a` (which resolves to
  itself) and an unresolved `b`, the lookup of the alias enters the address of the
  function that is COMPILING in the table (`jit.c:1432-1511`); after the failure a
  second `lr_jit_get_function` of `_a` returns the abandoned, half-patched code.
* A failed eager module leaves the names of its functions in the miss cache, which
  then hides what a library exports under them (`jit.c:2860-2883`).
* A name that a library and the process, or a provider and a module, offer under
  either spelling may be bound to one in the calls and to the other in the table.
* The results of a prefetch enter the cache in call-graph order, where the
  comment at `jit.c:2428` says module order. Since an entry is looked up by its key
  and never by its place, `PrefetchAtomic` leaves the order open.
* The materialization signature omits what a vector is made of (`jit.c:389`, run
  `matcache_vectors`) and `uses_llvm_abi`, and an instruction's indices put a
  pointer into it, which only costs hits.

IR, targets, linking
* `ir.c` folds i1 operations to -1; an i1 addition that overflows, `uitofp` of
  sub-dword values and `sitofp` of i1 and i8 see the register's upper bits.
* x86-64: SELECT's flags are destroyed when an operand is a global with an offset
  in object mode; the store of a wide value loads RAX without forgetting what it
  held; a streamed conditional branch with both edges to one block patches one.
  The comment at `target_x86_64.c:157` calls a replaced slot dead although code
  already written uses it.
* AArch64: `getelementptr` scales X10 in place; i8 shifts, division and remainder
  are not extended (`target_aarch64.c:2044`); late phi stubs copy one value after
  the other.
* RISC-V: call arguments are moved one after the other, saved registers are not
  saved, the temporaries do not survive a call, sub-word values are not extended.
* The `.o` writer loses the addends of data relocations; static executables of
  AArch64 and RISC-V refuse data relocations and undefined symbols.
* Merging: the comment at `ir.c:188` says an empty block "cannot introduce a
  function/call-signature conflict", but creating the first block makes a declaration a definition.
  `obj_resolve` prefers a scoped local to a declared exact name
  (`objfile.c:1334`), where `tests/test_parser.c:1153` keeps a call on the plain name. A
  forward reference to an `internal` function keeps the plain name; a bare `@ref`
  initialiser keeps the unscoped name where `getelementptr` takes the scoped one.
* Archive selection counts a C member's static function as a definition. A variable
  counts as undefined when " external " stands anywhere after it in the text
  (`liric_compat.c:1274` searches to the end of the string, not of the line); in the
  link inputs external variables come first. An object with an empty `.liric_ll`
  makes the link fail as malformed (`liric_compat.c:193-197`, `1243`). Emission
  of an object in IR mode does not finalise undefined names as that from blobs does.

Text
* The lexer never makes a newline token, so skipping to the end of the line after
  `invoke`, `landingpad` or `resume` skips to the end of the file.
* A `switch` with two or more cases becomes a chain of blocks; phis of its targets
  still name the original block. In the builder the same holds for a case's target.
* The dump writes aggregate immediates as `zeroinitializer`, every defined global as
  `private`, an fp no-op cast as an addition of 0.0, which makes 0.0 of -0.0
  (`ir.c:3027-3034`), fp128 that the parser does not read, and without display flags definitions with their scope and references without.
* Quoted names are not unescaped, labels that are keywords are refused, a global
  initialised by a cast expression is dropped, a structure of at most 8 bytes with
  an address in it packs it as 0, and a type laid out before its definition has size 0.

Bitcode
* A `getelementptr` whose index is a forward reference is read wrongly by the
  value-only retry; `freeze` and `extractelement` of a forward value leave a
  register without definition; an integer operation on a forward value whose
  provisional type is double is decoded as its floating-point counterpart.
* Vector element operations and `shufflevector` silently become undef, as do
  aggregate constants of more than 8 bytes as operands.
* A constant cast, or an array of bytes, whose operand is a later constant shifts
  the value table. A module without a constants block never applies initialisers
  such as `global ptr @f`.
* A file without its string table, or with part of it, is accepted with names
  `unknown.N`; one that ends before the module block is an empty module; one cut
  in the word count of a function block may be accepted without that body.
* `lr_session_global_reloc` (`session.c:2622`) drops the addend when a module is
  replayed. `bc_skip_block` does not read the block's id.

WebAssembly
* The type of an imported function that is called is looked up among the imports of
  all kinds (`wasm_to_ir.c:513`, run `wasm_imports`); a valid file may even be
  refused because the operands do not suffice for the wrong type.
* A branch that carries a value to a block with a result does not store it, the
  operand stack is not cut back after a block, and a result slot in register 0
  counts as none.
* Loads and stores of 8 and 16 bits access 32. Two imports of one name, or an
  import and export of the same name, shift symbol ids; a function exported twice
  keeps its first name.

LLVM-compatible builder
* After replacing all uses, another incoming value of a phi writes its operands
  again from `incoming_vals` and brings the replaced value back.
* Erasing a block renumbers the linked blocks only, not bound detached ones nor
  the block ids a phi has captured; a phi captures no id from an unbound block.
  Renaming a global and replacing uses visit linked blocks only.
* Folding works in 64 bits whatever the type's width.
* `func_reinit_for_create` drops the parameter registers, and is taken whenever a
  declared function is created, since its type object is never the caller's.
* `phi_coerce_incoming` puts its cast after the predecessor's terminator and
  always extends the sign.
* A block without function is not made unique when it is bound;
  `lc_block_attach` takes an unbound block off the detached list without linking
  it. Emission into such a block returns register 0, which is a real one.
* A function is not renamed when a global has its name.

## 7. Plan

1. Done: all modules of section 2, the proofs of section 4.
2. Proofs next: `SelectionClosed` of Link, then the lists of the builder
   (`ListsWellFormed`, `NamesDistinct`).
3. Components next: the Mach-O writer beside the ELF part of `ObjFile`; the replay
   of a decoded bitcode module; the DIRECT-mode switching of the builder composed
   with DirectSession.
