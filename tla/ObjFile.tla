------------------------------ MODULE ObjFile -------------------------------
(***************************************************************************)
(* Building an object from a module and its captured functions: symbols,   *)
(* code and data positions, relocations (objfile.c, session.c).            *)
(*                                                                         *)
(* A symbol is [name, def, section, offset, local, weak].  Code and data   *)
(* are sequences of bodies; an offset is a position in them.  A relocation *)
(* is [at, k, sym, how]: the k-th reference of the body at position at,    *)
(* made in the way a session captures it or in one of the two in which a   *)
(* function is compiled for an object.                                     *)
(***************************************************************************)
EXTENDS BlobPackage

CONSTANTS LibcName,     \* what an intrinsic is called in libc: [names -> names]
          Stubs         \* the intrinsics the platform has machine code for

\* A name the builder gave an external so that it does not clash.
ExternTag == 92

Text == 1
Data == 2

\* External: the platform's table of intrinsics.
RemapIntrinsic(name) == IF name \in DOMAIN LibcName THEN LibcName[name] ELSE name

ShouldBeWeak(name) == Shared(name)

EmptyBuild == [symbols |-> <<>>, code |-> <<>>, data |-> <<>>,
               relocs |-> <<>>, dataRelocs |-> <<>>]

SymbolIndex(b, name) == SelectInSeq(b.symbols, LAMBDA s : s.name = name)

\* lr_obj_ensure_symbol: the first definition of a name keeps it.
EnsureSymbol(b, name, def, section, offset) ==
    LET k == SymbolIndex(b, name)
    IN  IF k = 0
        THEN [b EXCEPT !.symbols = Append(@,
                [name |-> name, def |-> def, section |-> section, offset |-> offset,
                 local |-> FALSE, weak |-> def /\ ShouldBeWeak(name)])]
        ELSE IF ~def THEN b
        ELSE [b EXCEPT !.symbols[k].weak = @ \/ ShouldBeWeak(name),
                       !.symbols[k].def = TRUE,
                       !.symbols[k].section = IF b.symbols[k].def THEN @ ELSE section,
                       !.symbols[k].offset = IF b.symbols[k].def THEN @ ELSE offset]

AddReloc(b, at, k, name, how) ==
    LET c == EnsureSymbol(b, name, FALSE, 0, 0)
    IN  [c EXCEPT !.relocs =
            Append(@, [at |-> at, k |-> k, sym |-> SymbolIndex(c, name), how |-> how])]

AddDataReloc(b, at, k, name) ==
    LET c == EnsureSymbol(b, name, FALSE, 0, 0)
    IN  [c EXCEPT !.dataRelocs = Append(@, [at |-> at, k |-> k, sym |-> SymbolIndex(c, name)])]

---------------------------------------------------------------------------
(* The name a relocation of a captured function means in the module.       *)

ModuleNames(m) ==
    [k \in 1..Len(m.globals) |-> m.globals[k].name]
      \o [k \in 1..Len(m.funcs) |-> m.funcs[k].name]

InModule(m, name) == \E k \in 1..Len(ModuleNames(m)) : ModuleNames(m)[k] = name

\* The caches keep the last global and the last function of a name.
DefinedInModule(m, name) ==
    \/ LET k == SelectLastInSeq(m.globals, LAMBDA g : g.name = name)
       IN  k # 0 /\ ~m.globals[k].ext
    \/ LET k == SelectLastInSeq(m.funcs, LAMBDA f : f.name = name)
       IN  k # 0 /\ m.funcs[k].def

\* The first name "base.__liric_local.x", or <<>>.
ScopedLocalOf(m, base) ==
    LET k == SelectInSeq(ModuleNames(m), LAMBDA n : IsScoped(n) /\ Base(n) = base)
    IN  IF k = 0 THEN <<>> ELSE ModuleNames(m)[k]

HasOrdinal(name) == Len(name) > 2 /\ name[Len(name) - 1] = Dot

InFamily(name, root) ==
    \/ name = root
    \/ HasOrdinal(name) /\ SubSeq(name, 1, Len(name) - 2) = root

\* "f.n": the n-th (from 0) of the module's names f, f.1, f.2, ...
FamilyOrdinal(m, name) ==
    IF ~HasOrdinal(name) THEN <<>>
    ELSE LET root == SubSeq(name, 1, Len(name) - 2)
             family == SelectSeq(ModuleNames(m), LAMBDA n : InFamily(n, root))
             n == name[Len(name)]
         IN  IF n < Len(family) THEN family[n + 1] ELSE <<>>

FirstOf(names, other) ==
    LET k == SelectInSeq(names, LAMBDA n : n # <<>>)
    IN  IF k = 0 THEN other ELSE names[k]

ResolveBlobReloc(m, name) ==
    IF DefinedInModule(m, name) THEN name
    ELSE IF ~IsScoped(name)
    THEN FirstOf(<<FamilyOrdinal(m, name), ScopedLocalOf(m, name)>>, name)
    ELSE LET base == Base(name)
         IN  FirstOf(<<FamilyOrdinal(m, base),
                       IF InModule(m, base) THEN base ELSE <<>>,
                       ScopedLocalOf(m, base)>>, name)

---------------------------------------------------------------------------

\* A captured function: a blob without code is passed over.
AddBlob(m, b, blob) ==
    IF blob.code = <<>> THEN b
    ELSE LET at == Len(b.code) + 1
             c == EnsureSymbol(b, blob.name, TRUE, Text, at)
         IN  FoldLeft(LAMBDA d, k :
                         AddReloc(d, at, k, ResolveBlobReloc(m, blob.relocs[k].symbol), "captured"),
                      [c EXCEPT !.code = Append(@, blob.code[1])],
                      [k \in 1..Len(blob.relocs) |-> k])

\* lr_obj_build_symbol_cache: the names the module defines.
SymDefined(m, name) ==
    \/ \E k \in 1..Len(m.funcs) : m.funcs[k].name = name /\ m.funcs[k].def
    \/ \E k \in 1..Len(m.globals) : m.globals[k].name = name /\ ~m.globals[k].ext

\* The code generator names the symbols a body refers to, in order; one the
\* module does not define is reached through a table.
CompileBody(m, b, f) ==
    LET at == Len(b.code) + 1
        c == EnsureSymbol(b, f.name, TRUE, Text, at)
    IN  FoldLeft(LAMBDA d, k : AddReloc(d, at, k, f.refs[k].to,
                                        IF SymDefined(m, f.refs[k].to) THEN "near" ELSE "got"),
                 [c EXCEPT !.code = Append(@, f.id)], [k \in 1..Len(f.refs) |-> k])

\* Of the functions of one name only the best is compiled: a body first.  What
\* is read from IR text all has LLVM's calling convention, which would count too.
Best(m, i) ==
    \A k \in 1..(i - 1) : m.funcs[k].name = m.funcs[i].name => ~m.funcs[k].def

\* A defined function no blob brought code for.
CompileMissing(m, b, i) ==
    LET f == m.funcs[i]
        c == EnsureSymbol(b, f.name, FALSE, 0, 0)
    IN  IF ~f.def \/ ~Best(m, i) THEN b
        ELSE IF c.symbols[SymbolIndex(c, f.name)].def THEN c
        ELSE CompileBody(m, c, f)

Declare(b, f) == IF f.def THEN b ELSE EnsureSymbol(b, f.name, FALSE, 0, 0)

DefineStubs(b) ==
    FoldLeft(LAMBDA c, k :
               IF c.symbols[k].def \/ c.symbols[k].name \notin Stubs THEN c
               ELSE [c EXCEPT !.symbols[k].def = TRUE, !.symbols[k].section = Text,
                              !.symbols[k].offset = Len(c.code) + 1,
                              !.code = Append(@, c.symbols[k].name[1])],
             b, [k \in 1..Len(b.symbols) |-> k])

\* names: the symbols the relocations of g refer to.
AddGlobal(b, g, names) ==
    IF g.ext THEN EnsureSymbol(b, g.name, FALSE, 0, 0)
    ELSE LET at == Len(b.data) + 1
             c == EnsureSymbol(b, g.name, TRUE, Data, at)
         IN  FoldLeft(LAMBDA d, k : AddDataReloc(d, at, k, names[k]),
                      [c EXCEPT !.data = Append(@, g.id),
                                !.symbols[SymbolIndex(c, g.name)].local = g.local],
                      [k \in 1..Len(g.relocs) |-> k])

BuildFromBlobs(m, blobs) ==
    LET placed == FoldLeft(LAMBDA b, blob : AddBlob(m, b, blob), EmptyBuild, blobs)
        compiled == FoldLeft(LAMBDA b, i : CompileMissing(m, b, i), placed,
                             [i \in 1..Len(m.funcs) |-> i])
        declared == FoldLeft(Declare, compiled, m.funcs)
    IN  FoldLeft(LAMBDA b, g : AddGlobal(b, g, [k \in DOMAIN g.relocs |-> ResolveBlobReloc(m, g.relocs[k])]),
                 DefineStubs(declared), m.globals)

BuildModule(m) ==
    LET compiled == FoldLeft(LAMBDA b, f : IF f.def THEN CompileBody(m, b, f) ELSE b,
                             EmptyBuild, m.funcs)
        declared == FoldLeft(Declare, compiled, m.funcs)
    IN  FoldLeft(LAMBDA b, g : AddGlobal(b, g, g.relocs), DefineStubs(declared), m.globals)

\* obj_finalize_undefined_symbol_names: an undefined symbol loses its alias
\* tag, or takes its libc name.
FinalName(name) ==
    LET k == SelectInSeq(name, LAMBDA c : c = ExternTag)
    IN  IF k > 1 THEN SubSeq(name, 1, k - 1) ELSE RemapIntrinsic(name)

Finalize(b) ==
    [b EXCEPT !.symbols = [k \in 1..Len(@) |->
                 IF @[k].def THEN @[k] ELSE [@[k] EXCEPT !.name = FinalName(@)]]]

---------------------------------------------------------------------------
(* session_sync_blob_scoped_locals: captured functions follow the renames  *)
(* of the module's functions.                                              *)

ScopedFunction(m, base) ==
    LET k == SelectInSeq(m.funcs, LAMBDA f : IsScoped(f.name) /\ Base(f.name) = base)
    IN  IF k = 0 THEN <<>> ELSE m.funcs[k].name

BlobOwner(m, name) ==
    LET k == IndexOf(m.funcs, name)
    IN  IF k # 0 THEN k
        ELSE IF ScopedFunction(m, name) = <<>> THEN 0
        ELSE IndexOf(m.funcs, ScopedFunction(m, name))

\* The scoped names the owner's body calls.
ScopedCalls(f) ==
    SelectSeq([k \in 1..Len(f.refs) |-> IF f.refs[k].sig = NoCall THEN <<>> ELSE f.refs[k].to],
              IsScoped)

SyncBlob(m, blob) ==
    LET name == FirstOf(<<ScopedFunction(m, blob.name)>>, blob.name)
        owner == BlobOwner(m, name)
        calls == ScopedCalls(m.funcs[owner])
        Exact(s) == LET k == SelectInSeq(calls, LAMBDA n : Base(n) = s)
                    IN  IF k = 0 THEN s ELSE calls[k]
    IN  IF blob.name = <<>> THEN blob
        ELSE IF owner = 0 THEN [blob EXCEPT !.name = name]
        ELSE [blob EXCEPT !.name = name,
                          !.relocs = [k \in 1..Len(@) |-> [@[k] EXCEPT !.symbol = Exact(@)]]]

SyncBlobs(m, blobs) == [k \in 1..Len(blobs) |-> SyncBlob(m, blobs[k])]

-----------------------------------------------------------------------------
(***************************************************************************)
(* Writing an object as an ELF file (objfile_elf.c): the relocatable file, *)
(* the static executables of three machines and the dynamic executable of  *)
(* x86_64.                                                                 *)
(*                                                                         *)
(* An object is [code, data, symbols, relocs, dataRelocs]: sizes in bytes, *)
(* symbols as above with    byte offsets, relocations [offset, type,    *)
(* sym] and data relocations [offset, sym, addend].  The two instructions  *)
(* of an aarch64 address are one relocation, "page" or "gotpage".          *)
(*                                                                         *)
(* A file is [ok, size, code, data, entry, calls, segments, spans, fields, *)
(* tramps, rela, dynsym, hash]: where code and data are, the entry, the    *)
(* calls of the start stub, what is loaded, what lies where ([at, n]), the *)
(* numbers patched in ([at, n, val]), the trampolines, the relocations     *)
(* left to the dynamic linker, the names it looks up and their hash table. *)
(* Positions are offsets in the file; ImageBase is added by the loader.    *)
(***************************************************************************)

ImageBase == 4194304        \* 0x400000
Page == 4096
HeaderSize == 64
ProgramHeader == 56

AlignUp(n, a) == ((n + a - 1) \div a) * a

Failed == [ok |-> FALSE]

\* The symbols of the relocations that pass P, in the order of first use.
FirstUses(o, P(_)) ==
    FoldLeft(LAMBDA l, r : IF Contains(l, r.sym) THEN l ELSE Append(l, r.sym), <<>>,
             SelectSeq(o.relocs, P))

SlotOf(slots, sym) == SelectInSeq(slots, LAMBDA s : s = sym) - 1

Sym(o, r) == o.symbols[r.sym]

EntrySymbol(o, entry) ==
    SelectInSeq(o.symbols, LAMBDA s : s.def /\ s.section = 1 /\ s.name = entry)

\* Where a defined symbol is, given where code and data are.
Place(s, code, data) == (IF s.section = 1 THEN code ELSE data) + s.offset

\* patch_rel32_vaddr and its likes: what is written at place to mean target.
Rel32(place, target) == target - (place + 4)
Branch26(place, target) == (target - place) \div 4
Page21(place, target) == target \div Page - place \div Page
PageOff12(target, load) == IF load THEN (target % Page) \div 8 ELSE target % Page
Jal(place, target) == target - place

Field(at, n, val) == [at |-> at, n |-> n, val |-> val]

---------------------------------------------------------------------------
(* The static executables: header, start stub, code, data and then one     *)
(* slot for each symbol reached through the table.                         *)

GotTypes == {"gotpcrel", "gotpage"}

StubSize(cpu, isMain) == IF cpu # "x86_64" THEN 12 ELSE IF isMain THEN 27 ELSE 14
StubCall(cpu, isMain) == IF cpu # "x86_64" THEN 0 ELSE IF isMain THEN 14 ELSE 1

StubField(cpu, at, target) ==
    Field(at, 4, CASE cpu = "x86_64" -> Rel32(at, target)
                   [] cpu = "aarch64" -> Branch26(at, target)
                   [] cpu = "riscv64" -> Jal(at, target))

\* The numbers one relocation of the code writes; target and slot are where
\* its symbol and its slot are.
FixX86(r, place, target, slot) ==
    CASE r.type = "pc32" -> {Field(place, 4, Rel32(place, target))}
      [] r.type = "gotpcrel" -> {Field(slot, 8, ImageBase + target),
                                 Field(place, 4, Rel32(place, slot))}
      [] r.type = "abs64" -> {Field(place, 8, ImageBase + target)}

FixAarch64(r, place, target, slot) ==
    CASE r.type = "page" -> {Field(place, 4, Page21(place, target)),
                             Field(place + 4, 4, PageOff12(target, FALSE))}
      [] r.type = "gotpage" -> {Field(slot, 8, ImageBase + target),
                                Field(place, 4, Page21(place, slot)),
                                Field(place + 4, 4, PageOff12(slot, TRUE))}

FixRiscv64(r, place, target) == {Field(place, 4, Jal(place, target))}

FixText(cpu, r, place, target, slot) ==
    CASE cpu = "x86_64" -> FixX86(r, place, target, slot)
      [] cpu = "aarch64" -> FixAarch64(r, place, target, slot)
      [] cpu = "riscv64" -> FixRiscv64(r, place, target)

FixData(r, at, target) == Field(at, 8, ImageBase + target + r.addend)

\* What stops a static executable.
Unwritable(cpu, o, entry) ==
    \/ EntrySymbol(o, entry) = 0
    \/ \E k \in 1..Len(o.relocs) :
          ~Sym(o, o.relocs[k]).def \/ (cpu = "riscv64" /\ Sym(o, o.relocs[k]).section # 1)
    \/ \E k \in 1..Len(o.dataRelocs) : cpu # "x86_64" \/ ~Sym(o, o.dataRelocs[k]).def

StaticLayout(cpu, o, isMain, slots) ==
    LET text == AlignUp(HeaderSize + ProgramHeader, 16)
        code == text + StubSize(cpu, isMain)
        data == AlignUp(code + o.code, 16)
        got == data + (IF cpu = "riscv64" THEN o.data ELSE AlignUp(o.data, 8))
    IN  [text |-> text, code |-> code, data |-> data, got |-> got, end |-> got + 8 * Len(slots)]

WriteStatic(cpu, o, entry, isMain) ==
    LET slots == FirstUses(o, LAMBDA r : r.type \in GotTypes)
        L == StaticLayout(cpu, o, isMain, slots)
        At(r) == Place(Sym(o, r), L.code, L.data)
        call == L.text + StubCall(cpu, isMain)
        main == Place(o.symbols[EntrySymbol(o, entry)], L.code, L.data)
    IN  IF Unwritable(cpu, o, entry) THEN Failed
        ELSE [ok |-> TRUE, size |-> L.end, code |-> L.code, data |-> L.data, entry |-> L.text,
              calls |-> <<call>>,
              segments |-> {[at |-> 0, n |-> L.end]},
              spans |-> {[at |-> 0, n |-> HeaderSize + ProgramHeader],
                         [at |-> L.text, n |-> L.code - L.text],
                         [at |-> L.code, n |-> o.code],
                         [at |-> L.data, n |-> o.data],
                         [at |-> L.got, n |-> L.end - L.got]},
              fields |->
                 {StubField(cpu, call, main)}
                   \cup UNION {LET r == o.relocs[k]
                               IN  FixText(cpu, r, L.code + r.offset, At(r), L.got + 8 * SlotOf(slots, r.sym)) :
                               k \in 1..Len(o.relocs)}
                   \cup {FixData(o.dataRelocs[k], L.data + o.dataRelocs[k].offset, At(o.dataRelocs[k])) :
                               k \in 1..Len(o.dataRelocs)},
              tramps |-> {}, rela |-> {}, dynsym |-> <<>>, hash |-> <<>>]

---------------------------------------------------------------------------
(* The dynamic executable.                                                 *)

TrampSize == 6
RelaSize == 24
InterpSize == 28

\* The names the dynamic linker must find: undefined symbols the code refers
\* to, in symbol order, and what the start stub calls.
Imports(o) ==
    SelectSeq([k \in 1..Len(o.symbols) |-> k],
              LAMBDA k : ~o.symbols[k].def /\ \E n \in 1..Len(o.relocs) : o.relocs[n].sym = k)

ImportNames(o, exit, fflush) ==
    LET names == [k \in 1..Len(Imports(o)) |-> o.symbols[Imports(o)[k]].name]
        Also(list, name) == IF Contains(list, name) THEN list ELSE Append(list, name)
    IN  Also(Also(names, exit), fflush)

TextRelocs(o) ==
    SelectSeq(o.relocs, LAMBDA r : r.type = "abs64" /\ ~Sym(o, r).def)

\* elf_sysv_hash; a name of fewer than eight letters sets none of the high bits.
SysvHash(name) == FoldLeft(LAMBDA h, c : h * 16 + c, 0, name)

\* Buckets, then chains; an entry is put in front of its chain.
HashTable(names) ==
    LET n == Len(names)
        Bucket(k) == SysvHash(names[k]) % n
        Before(k) == {j \in 1..(k - 1) : Bucket(j) = Bucket(k)}
        Highest(S) == IF S = {} THEN 0 ELSE CHOOSE j \in S : \A x \in S : x <= j
    IN  [buckets |-> [b \in 0..(n - 1) |-> Highest({j \in 1..n : Bucket(j) = b})],
         chains |-> [k \in 0..n |-> IF k = 0 THEN 0 ELSE Highest(Before(k))]]

\* One relocation of the code: a defined symbol as in a static executable, an
\* undefined one by its trampoline or its slot, or left to the dynamic linker.
FixImport(r, place, tramp, slot) ==
    CASE r.type = "pc32" -> {Field(place, 4, Rel32(place, tramp))}
      [] r.type = "gotpcrel" -> {Field(place, 4, Rel32(place, slot))}
      [] r.type = "abs64" -> {}

StringsSize(names) == FoldLeft(LAMBDA sum, name : sum + Len(name) + 1, 21, names)

\* Two segments: headers, tables and code; then relocations, slots, data.
DynamicLayout(o, isMain, names, inner) ==
    LET n == Len(names)
        interp == HeaderSize + 4 * ProgramHeader
        hash == AlignUp(interp + InterpSize, 4)
        dynsym == AlignUp(hash + 4 * (2 + n + n + 1), 8)
        dynstr == dynsym + 24 * (n + 1)
        text == AlignUp(dynstr + StringsSize(names), 16)
        code == text + (IF isMain THEN 35 ELSE 22)
        tramp == code + o.code
        textEnd == tramp + TrampSize * n
        seg == AlignUp(textEnd, Page)
        got == AlignUp(seg + RelaSize * (n + Len(TextRelocs(o))), 8)
        more == got + 8 * n
        data == AlignUp(more + 8 * Len(inner), 8)
        dynamic == AlignUp(data + o.data, 8)
    IN  [interp |-> interp, hash |-> hash, dynsym |-> dynsym, dynstr |-> dynstr, text |-> text,
         code |-> code, tramp |-> tramp, textEnd |-> textEnd, seg |-> seg, got |-> got,
         more |-> more, data |-> data, dynamic |-> dynamic,
         end |-> dynamic + 16 * (IF TextRelocs(o) = <<>> THEN 14 ELSE 15)]

DynamicSpans(o, L, names, inner) ==
    LET n == Len(names)
    IN  {[at |-> 0, n |-> L.interp], [at |-> L.interp, n |-> InterpSize],
         [at |-> L.hash, n |-> 4 * (2 + n + n + 1)],
         [at |-> L.dynsym, n |-> 24 * (n + 1)], [at |-> L.dynstr, n |-> StringsSize(names)],
         [at |-> L.text, n |-> L.code - L.text], [at |-> L.code, n |-> o.code],
         [at |-> L.tramp, n |-> TrampSize * n],
         [at |-> L.seg, n |-> RelaSize * (n + Len(TextRelocs(o)))],
         [at |-> L.got, n |-> 8 * n], [at |-> L.more, n |-> 8 * Len(inner)],
         [at |-> L.data, n |-> o.data], [at |-> L.dynamic, n |-> L.end - L.dynamic]}

\* The start stub calls the entry, fflush and exit.
StartCalls(o, L, names, entry, isMain, exit, fflush) ==
    LET Tramp(name) == L.tramp + TrampSize * (SelectInSeq(names, LAMBDA x : x = name) - 1)
        at == IF isMain THEN <<14, 23, 30>> ELSE <<1, 10, 17>>
        goal == <<Place(o.symbols[EntrySymbol(o, entry)], L.code, L.data), Tramp(fflush), Tramp(exit)>>
    IN  [k \in 1..3 |-> Field(L.text + at[k], 4, Rel32(L.text + at[k], goal[k]))]

Trampoline(L, k) ==
    LET at == L.tramp + TrampSize * k
    IN  Field(at + 2, 4, (L.got + 8 * k) - (at + TrampSize))

\* What the dynamic linker fills in: every import's slot, and the places in
\* the code that hold an import's address.
DynamicRela(o, L, names) ==
    {[at |-> L.got + 8 * (k - 1), sym |-> k] : k \in 1..Len(names)}
      \cup {LET r == TextRelocs(o)[k]
            IN  [at |-> L.code + r.offset, sym |-> SlotOf(Imports(o), r.sym) + 1] :
              k \in 1..Len(TextRelocs(o))}

WriteDynamic(o, entry, isMain, exit, fflush) ==
    LET names == ImportNames(o, exit, fflush)
        inner == FirstUses(o, LAMBDA r : r.type = "gotpcrel" /\ Sym(o, r).def)
        L == DynamicLayout(o, isMain, names, inner)
        At(r) == Place(Sym(o, r), L.code, L.data)
        calls == StartCalls(o, L, names, entry, isMain, exit, fflush)
        Fix(r) == LET k == SlotOf(Imports(o), r.sym)
                  IN  IF Sym(o, r).def
                      THEN FixX86(r, L.code + r.offset, At(r), L.more + 8 * SlotOf(inner, r.sym))
                      ELSE FixImport(r, L.code + r.offset, L.tramp + TrampSize * k, L.got + 8 * k)
    IN  IF \/ EntrySymbol(o, entry) = 0
           \/ \E k \in 1..Len(o.dataRelocs) : ~Sym(o, o.dataRelocs[k]).def
        THEN Failed
        ELSE [ok |-> TRUE, size |-> L.end, code |-> L.code, data |-> L.data, entry |-> L.text,
              calls |-> [k \in 1..3 |-> calls[k].at],
              segments |-> {[at |-> 0, n |-> L.textEnd], [at |-> L.seg, n |-> L.end - L.seg]},
              spans |-> DynamicSpans(o, L, names, inner),
              fields |->
                 {calls[k] : k \in 1..3}
                   \cup {Trampoline(L, k) : k \in 0..(Len(names) - 1)}
                   \cup UNION {Fix(o.relocs[k]) : k \in 1..Len(o.relocs)}
                   \cup {FixData(o.dataRelocs[k], L.data + o.dataRelocs[k].offset, At(o.dataRelocs[k])) :
                               k \in 1..Len(o.dataRelocs)},
              tramps |-> {L.tramp + TrampSize * k : k \in 0..(Len(names) - 1)},
              rela |-> DynamicRela(o, L, names),
              dynsym |-> names, hash |-> <<HashTable(names)>>]

\* lr_emit_executable: an x86_64 object with an undefined symbol is linked
\* dynamically.
WriteExecutable(cpu, o, entry, isMain, exit, fflush) ==
    IF cpu = "x86_64" /\ \E k \in 1..Len(o.symbols) : ~o.symbols[k].def
    THEN WriteDynamic(o, entry, isMain, exit, fflush)
    ELSE WriteStatic(cpu, o, entry, isMain)

---------------------------------------------------------------------------
(* The relocatable file: local symbols come first in its table.            *)

LocalSym(s) == s.def /\ s.local

\* Variation: the symbols stay in the order they were made.
SymOrderAsMade(o) == [k \in 1..Len(o.symbols) |-> k]

SymOrder(o) ==
    LET all == [k \in 1..Len(o.symbols) |-> k]
    IN  SelectSeq(all, LAMBDA k : LocalSym(o.symbols[k]))
          \o SelectSeq(all, LAMBDA k : ~LocalSym(o.symbols[k]))

\* The index a relocation gives: after the null and the section symbols.
ElfSymIndex(o, sym) ==
    (IF o.data > 0 THEN 2 ELSE 1) + SelectInSeq(SymOrder(o), LAMBDA k : k = sym)

WriteObject(o) ==
    [symtab |-> [k \in 1..Len(o.symbols) |-> o.symbols[SymOrder(o)[k]]],
     first |-> (IF o.data > 0 THEN 2 ELSE 1) + 1,
     firstGlobal |-> (IF o.data > 0 THEN 2 ELSE 1) + 1
                       + Len(SelectSeq(o.symbols, LocalSym)),
     rela |-> [k \in 1..Len(o.relocs) |->
                 [offset |-> o.relocs[k].offset, type |-> o.relocs[k].type,
                  sym |-> ElfSymIndex(o, o.relocs[k].sym)]],
     relaData |-> [k \in 1..Len(o.dataRelocs) |->
                     [offset |-> o.dataRelocs[k].offset,
                      sym |-> ElfSymIndex(o, o.dataRelocs[k].sym)]]]

---------------------------------------------------------------------------
(* External: what the loader and the machine make of the file.             *)

Val(im, at) ==
    IF \E f \in im.fields : f.at = at THEN (CHOOSE f \in im.fields : f.at = at).val ELSE 0

\* The eight bytes at a position once the dynamic linker has run.
Loaded(im, at) ==
    IF \E r \in im.rela : r.at = at
    THEN [name |-> im.dynsym[(CHOOSE r \in im.rela : r.at = at).sym]]
    ELSE [at |-> Val(im, at) - ImageBase]

Jump(im, at) ==
    IF at \in im.tramps THEN Loaded(im, at + 6 + Val(im, at + 2)) ELSE [at |-> at]

Refers(im, type, place) ==
    LET page == (place \div Page + Val(im, place)) * Page
    IN  CASE type = "pc32" -> Jump(im, place + 4 + Val(im, place))
          [] type = "gotpcrel" -> Loaded(im, place + 4 + Val(im, place))
          [] type = "abs64" -> Loaded(im, place)
          [] type = "page" -> [at |-> page + Val(im, place + 4)]
          [] type = "gotpage" -> Loaded(im, page + 8 * Val(im, place + 4))
          [] type = "branch26" -> [at |-> place + 4 * Val(im, place)]
          [] type = "jal" -> [at |-> place + Val(im, place)]

Goal(im, s) ==
    IF s.def THEN [at |-> (IF s.section = 1 THEN im.code ELSE im.data) + s.offset]
    ELSE [name |-> s.name]

StubType(cpu) == CASE cpu = "x86_64" -> "pc32" [] cpu = "aarch64" -> "branch26" [] cpu = "riscv64" -> "jal"

Covers(a, b) == a.at <= b.at /\ b.at + b.n <= a.at + a.n
Apart(a, b) == a.at + a.n <= b.at \/ b.at + b.n <= a.at

Follows(cpu, im, o, entry, exit, fflush) ==
    /\ \A k \in 1..Len(o.relocs) :
          LET r == o.relocs[k]
          IN  Refers(im, r.type, im.code + r.offset) = Goal(im, Sym(o, r))
    /\ \A k \in 1..Len(o.dataRelocs) :
          LET r == o.dataRelocs[k]
              there == Loaded(im, im.data + r.offset)
          IN  there = [at |-> Goal(im, Sym(o, r)).at + r.addend]
    /\ Refers(im, StubType(cpu), im.calls[1]) = Goal(im, o.symbols[EntrySymbol(o, entry)])
    /\ Len(im.calls) = 3 => /\ Refers(im, "pc32", im.calls[2]) = [name |-> fflush]
                            /\ Refers(im, "pc32", im.calls[3]) = [name |-> exit]

SoundLayout(im) ==
    /\ \A a, b \in im.spans : a = b \/ a.n = 0 \/ b.n = 0 \/ Apart(a, b)
    /\ \A a \in im.spans : a.n = 0 \/ \E s \in im.segments : Covers(s, a)
    /\ \A a, b \in im.fields : a = b \/ Apart(a, b)
    /\ \A f \in im.fields : \E s \in im.spans : Covers(s, f)
    /\ \A s, t \in im.segments : s = t \/ s.at \div Page # (t.at + t.n - 1) \div Page

\* Going through a chain from its bucket meets every name's entry.
HashFinds(im) ==
    im.hash # <<>> =>
       LET h == im.hash[1]
           n == Len(im.dynsym)
           chain[k \in 0..n, fuel \in 0..n] ==
              IF k = 0 \/ fuel = 0 THEN {} ELSE {k} \cup chain[h.chains[k], fuel - 1]
       IN  \A k \in 1..n : k \in chain[h.buckets[SysvHash(im.dynsym[k]) % n], n]

ObjectKeeps(o) ==
    LET w == WriteObject(o)
        At(i) == w.symtab[i - w.first + 1]
    IN  /\ \A k \in 1..Len(o.relocs) : At(w.rela[k].sym) = Sym(o, o.relocs[k])
        /\ \A k \in 1..Len(o.dataRelocs) : At(w.relaData[k].sym) = Sym(o, o.dataRelocs[k])
        /\ \A k \in 1..Len(w.symtab) :
              LocalSym(w.symtab[k]) <=> w.first + k - 1 < w.firstGlobal
=============================================================================
