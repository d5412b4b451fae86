--------------------------------- MODULE Link ---------------------------------
(***************************************************************************)
(* Making an executable without a linker: the compat layer scans the       *)
(* sidecars of the objects it is given, takes what it needs from archives, *)
(* merges the IR texts and imports the packages one object at a time, and  *)
(* has the session emit the result (liric_compat.c, session.c).            *)
(*                                                                         *)
(* A unit is [text, pkg]: the contents of its two sidecar files; text is   *)
(* the number of an IR text, or NoText for an empty file, and pkg a        *)
(* package, <<>> when empty.  A session can also be left with the module   *)
(* and the functions it compiled itself, be handed a package by a client,  *)
(* or be given a runtime archive; an emission whose output cannot be       *)
(* opened may be tried again.                                              *)
(***************************************************************************)
EXTENDS ObjFile

CONSTANTS
    Texts,          \* the IR texts, a sequence
    Target,         \* the target's name
    Backend,        \* the session's backend, as an archive records it
    MainName, StartName, ExitName, FflushName,
    MaxTries        \* bound: emissions that fail to open their output

NoText == 0

VARIABLES
    job,            \* what was asked: [kind, cpu, objects, members, rt, own, blobs]
    pc,             \* where the control is
    i, changed,     \* loop index and flag of the loop pc is in
    objs,           \* the units to link, in order
    defined, unresolved, selected,
    mod,            \* the session's module
    blobs,          \* the session's captured functions
    imp,            \* the import under way: [data, p, left, orig, next]
    rtMerged,
    out,            \* the object the last emission built
    image,          \* the executable written from it
    tries

vars == <<job, pc, i, changed, objs, defined, unresolved, selected, mod, blobs,
          imp, rtMerged, out, image, tries>>

scanVars == <<objs, defined, unresolved, selected, changed>>

NoImport == [data |-> <<>>, p |-> 0, left |-> 0, orig |-> 0, next |-> "done"]

---------------------------------------------------------------------------
(* The symbols of an object, read from its sidecars.                       *)

\* Runtime names and names local to a unit never pull in an archive member.
DrivesSelection(name) == name[1] \notin 20..29 /\ ~IsScoped(name)

\* A name is taken away once for each time it is named; the order of a list is
\* of no account.
Drop(list, names) == FoldLeft(LAMBDA l, n : RemoveFirst(l, n), list, names)

AddNew(list, names) ==
    FoldLeft(LAMBDA l, n : IF Contains(l, n) THEN l ELSE Append(l, n), list, names)

Names(seq) == [k \in 1..Len(seq) |-> seq[k].name]

\* The text is scanned by line: "define", "declare", "@name = ".  The word that
\* makes a variable external is looked for from its line to the end of the text.
TextSymbols(t) ==
    LET fs == Texts[t].funcs
        gs == Texts[t].globals
        lines == [n \in 1..Len(gs) |-> n]
        external(n) == \E k \in n..Len(gs) : gs[k].ext
        named(ns) == [k \in 1..Len(ns) |-> gs[ns[k]].name]
    IN  IF t = NoText THEN [ok |-> FALSE, defs |-> <<>>, undefs |-> <<>>]
        ELSE [ok |-> TRUE,
              defs |-> named(SelectSeq(lines, LAMBDA n : ~external(n)))
                         \o Names(SelectSeq(fs, LAMBDA f : f.def)),
              undefs |-> SelectSeq(named(SelectSeq(lines, external))
                                     \o Names(SelectSeq(fs, LAMBDA f : ~f.def)),
                                   DrivesSelection)]

PackageSymbols(bs) ==
    [defs |-> Names(bs),
     undefs |-> SelectSeq(FlattenSeq([k \in 1..Len(bs) |->
                              [r \in 1..Len(bs[k].relocs) |-> bs[k].relocs[r].symbol]]),
                          DrivesSelection)]

ReadPackage(pkg) == IF pkg = <<>> THEN [ok |-> TRUE, blobs |-> <<>>] ELSE ReadAll(pkg)

\* The names are added to the lists as often as they occur, and then every
\* entry of defs takes one entry of its name out of undefs.
AddedTo(defs, undefs, r, t) ==
    LET p == PackageSymbols(r.blobs)
        all == defs \o p.defs \o t.defs
    IN  [ok |-> r.ok /\ t.ok, defs |-> all, undefs |-> Drop(undefs \o p.undefs \o t.undefs, all)]
compat_collect_object_symbols(defs, undefs, u) ==
    AddedTo(defs, undefs, ReadPackage(u.pkg), TextSymbols(u.text))

\* A member of an archive has lists of its own.
ObjectSymbols(u) == compat_collect_object_symbols(<<>>, <<>>, u)

\* The objects share one pair of lists.
ScanObject ==
    /\ pc = "scan"
    /\ i <= Len(job.objects)
    /\ LET s == compat_collect_object_symbols(defined, unresolved, job.objects[i])
       IN  IF s.ok
           THEN /\ defined' = s.defs
                /\ unresolved' = s.undefs
                /\ objs' = Append(objs, job.objects[i])
                /\ i' = i + 1
                /\ UNCHANGED <<pc, selected, changed>>
           ELSE pc' = "failed" /\ UNCHANGED <<scanVars, i>>
    /\ UNCHANGED <<job, mod, blobs, imp, rtMerged, out, image, tries>>

\* The members of the archives are scanned as they are found.
ScanMembers ==
    /\ pc = "scan"
    /\ i = Len(job.objects) + 1
    /\ IF \A k \in 1..Len(job.members) : ObjectSymbols(job.members[k]).ok
       THEN pc' = "select" /\ i' = 1 /\ unresolved' = Drop(unresolved, defined)
       ELSE pc' = "failed" /\ UNCHANGED <<i, unresolved>>
    /\ UNCHANGED <<job, changed, objs, defined, selected, mod, blobs, imp, rtMerged, out, image, tries>>

Satisfies(s, names) == \E k \in 1..Len(s.defs) : Contains(names, s.defs[k])

\* compat_select_archive_members, one turn of its inner loop.
SelectMember ==
    /\ pc = "select"
    /\ i <= Len(job.members)
    /\ LET s == ObjectSymbols(job.members[i])
           all == AddNew(defined, s.defs)
       IN  IF ~selected[i] /\ Satisfies(s, unresolved)
           THEN /\ selected' = [selected EXCEPT ![i] = TRUE]
                /\ objs' = Append(objs, job.members[i])
                /\ defined' = all
                /\ unresolved' =
                     Drop(AddNew(unresolved,
                                 SelectSeq(s.undefs, LAMBDA n : ~Contains(all, n))), s.defs)
                /\ changed' = TRUE
           ELSE UNCHANGED scanVars
    /\ i' = i + 1
    /\ UNCHANGED <<job, pc, mod, blobs, imp, rtMerged, out, image, tries>>

\* Variation: the members are gone through once.
SelectOnce ==
    /\ pc = "select"
    /\ i = Len(job.members) + 1
    /\ changed' = FALSE
    /\ i' = 1
    /\ pc' = IF objs = <<>> THEN "failed" ELSE "unit"
    /\ UNCHANGED <<job, objs, defined, unresolved, selected, mod, blobs, imp, rtMerged, out, image, tries>>

SelectAgain ==
    /\ pc = "select"
    /\ i = Len(job.members) + 1
    /\ changed' = FALSE
    /\ i' = 1
    /\ pc' = IF changed THEN "select" ELSE IF objs = <<>> THEN "failed" ELSE "unit"
    /\ UNCHANGED <<job, objs, defined, unresolved, selected, mod, blobs, imp, rtMerged, out, image, tries>>

---------------------------------------------------------------------------
(* One object: its text is merged, then its package, with the names the    *)
(* merge gave the module, is imported.                                     *)

NewNames(old, new) ==
    SelectSeq(ModuleNames(new), LAMBDA n : ~Contains(ModuleNames(old), n))

MergeUnit(addr) ==
    /\ pc = "unit"
    /\ i <= Len(objs)
    /\ LET u == objs[i]
           m == IF u.text = NoText THEN mod ELSE Merge(mod, Parse(Texts[u.text], addr))
           r == Rewrite(u.pkg, NewNames(mod, m))
       IN  /\ mod' = m
           /\ i' = i + 1
           /\ IF u.pkg = <<>> THEN UNCHANGED <<pc, imp>>
              ELSE IF r.ok
              THEN pc' = "import" /\ imp' = [NoImport EXCEPT !.data = r.data, !.next = "unit"]
              ELSE pc' = "failed" /\ UNCHANGED imp
    /\ UNCHANGED <<job, scanVars, blobs, rtMerged, out, image, tries>>

UnitsDone ==
    /\ pc = "unit"
    /\ i = Len(objs) + 1
    /\ pc' = IF \A k \in 1..Len(objs) : objs[k].text = NoText /\ objs[k].pkg = <<>>
             THEN "failed" ELSE "emit"
    /\ UNCHANGED <<job, i, scanVars, mod, blobs, imp, rtMerged, out, image, tries>>

---------------------------------------------------------------------------
(* lr_session_import_blob_package                                          *)

ImportBegin ==
    /\ pc = "import"
    /\ IF HeaderOk(imp.data)
       THEN /\ pc' = "blob"
            /\ imp' = [imp EXCEPT !.p = 3, !.left = imp.data[3], !.orig = Len(blobs)]
       ELSE pc' = "refused" /\ UNCHANGED imp
    /\ UNCHANGED <<job, i, scanVars, mod, blobs, rtMerged, out, image, tries>>

\* Variations: what was read stays; one function too many is dropped.
ImportFailKeeps ==
    pc' = "refused" /\ UNCHANGED <<blobs, imp>>

ImportFail ==
    /\ pc' = "refused"
    /\ blobs' = SubSeq(blobs, 1, imp.orig)
    /\ UNCHANGED imp

ImportBlob ==
    /\ pc = "blob"
    /\ imp.left > 0
    /\ LET b == ReadBlob(imp.data, imp.p)
       IN  IF b.ok
           THEN /\ blobs' = Append(blobs, b.blob)
                /\ imp' = [imp EXCEPT !.p = b.p, !.left = @ - 1]
                /\ UNCHANGED pc
           ELSE ImportFail
    /\ UNCHANGED <<job, i, scanVars, mod, rtMerged, out, image, tries>>

\* Variation: the archive is not marked as merged.
ImportEndUnmarked ==
    /\ pc = "blob"
    /\ imp.left = 0
    /\ IF imp.p = Len(imp.data) THEN pc' = imp.next /\ UNCHANGED <<blobs, imp>> ELSE ImportFail
    /\ UNCHANGED <<job, i, scanVars, mod, rtMerged, out, image, tries>>

ImportEnd ==
    /\ pc = "blob"
    /\ imp.left = 0
    /\ IF imp.p = Len(imp.data)
       THEN /\ pc' = imp.next
            /\ rtMerged' = (rtMerged \/ imp.next = "build")
            /\ UNCHANGED <<blobs, imp>>
       ELSE ImportFail /\ UNCHANGED rtMerged
    /\ UNCHANGED <<job, i, scanVars, mod, out, image, tries>>

---------------------------------------------------------------------------
(* lr_session_emit_exe: the runtime archive first, once.                   *)

EmitRuntime(addr) ==
    /\ pc = "emit"
    /\ LET a == ParseArchive(job.rt)
       IN  IF job.rt = <<>> \/ rtMerged THEN pc' = "build" /\ UNCHANGED <<mod, imp>>
           ELSE IF ~a.ok \/ a.target # Target \/ a.backend # Backend
           THEN pc' = "failed" /\ UNCHANGED <<mod, imp>>
           ELSE /\ mod' = Merge(mod, Parse(Texts[a.text[1]], addr))
                /\ imp' = [NoImport EXCEPT !.data = a.pkg, !.next = "build"]
                /\ pc' = "import"
    /\ UNCHANGED <<job, i, scanVars, blobs, rtMerged, out, image, tries>>

\* session_entry_symbol, session_blob_entry_symbol
HasBody(m, name) == \E k \in 1..Len(m.funcs) : m.funcs[k].def /\ m.funcs[k].name = name

ModuleEntry(m) ==
    IF ~HasBody(m, StartName) /\ HasBody(m, MainName) THEN MainName ELSE StartName

Entry(m, bs) ==
    LET coded == Names(SelectSeq(bs, LAMBDA b : b.name # <<>> /\ b.code # <<>>))
    IN  IF coded = <<>> THEN ModuleEntry(m)
        ELSE IF Contains(coded, StartName) THEN StartName
        ELSE IF Contains(coded, MainName) THEN MainName
        ELSE coded[1]

\* The object in bytes: a body takes 64, a variable 32, less at the end of its
\* section; a reference of a body is 8 bytes long.
CodeByte(at) == 64 * (at - 1)
DataByte(at) == 32 * (at - 1)

\* How the target's code generator refers to a symbol.
RelocType(cpu, how) ==
    CASE cpu = "x86_64" -> (CASE how = "captured" -> "abs64" [] how = "near" -> "pc32" [] how = "got" -> "gotpcrel")
      [] cpu = "aarch64" -> (IF how = "near" THEN "page" ELSE "gotpage")
      [] cpu = "riscv64" -> "jal"

InBytes(cpu, b) ==
    [code |-> CodeByte(Len(b.code)) + 60,
     data |-> IF b.data = <<>> THEN 0 ELSE DataByte(Len(b.data)) + 20,
     symbols |-> [k \in 1..Len(b.symbols) |->
                    LET s == b.symbols[k]
                    IN  [s EXCEPT !.offset = CASE ~s.def -> 0
                                               [] s.section = Text -> CodeByte(@)
                                               [] s.section = Data -> DataByte(@)]],
     relocs |-> [k \in 1..Len(b.relocs) |->
                   [offset |-> CodeByte(b.relocs[k].at) + 8 * b.relocs[k].k - 4,
                    type |-> RelocType(cpu, b.relocs[k].how), sym |-> b.relocs[k].sym]],
     dataRelocs |-> [k \in 1..Len(b.dataRelocs) |->
                       [offset |-> DataByte(b.dataRelocs[k].at) + 8 * (b.dataRelocs[k].k - 1),
                        sym |-> b.dataRelocs[k].sym, addend |-> b.dataRelocs[k].k]]]

\* The object is built and written; a symbol the writer cannot place makes the
\* emission fail.
EmitBuild ==
    /\ pc = "build"
    /\ mod' = Disambiguate(mod)
    /\ blobs' = SyncBlobs(mod', blobs)
    /\ out' = Finalize(IF blobs = <<>> THEN BuildModule(mod')
                       ELSE BuildFromBlobs(mod', blobs'))
    /\ LET entry == Entry(mod', blobs')
       IN  image' = WriteExecutable(job.cpu, InBytes(job.cpu, out'), entry, entry = MainName,
                                    ExitName, FflushName)
    /\ pc' = IF image'.ok THEN "done" ELSE "failed"
    /\ UNCHANGED <<job, i, scanVars, imp, rtMerged, tries>>

\* The output file cannot be opened: if there is captured code, the names have
\* been brought in step by then.
EmitOpenFails ==
    /\ pc = "build"
    /\ tries < MaxTries
    /\ tries' = tries + 1
    /\ pc' = "emit"
    /\ IF blobs = <<>> THEN UNCHANGED <<mod, blobs>>
       ELSE mod' = Disambiguate(mod) /\ blobs' = SyncBlobs(mod', blobs)
    /\ UNCHANGED <<job, i, scanVars, imp, rtMerged, out, image>>

---------------------------------------------------------------------------

Stopped == pc \in {"done", "failed", "refused"}

Next ==
    \/ ScanObject \/ ScanMembers \/ SelectMember \/ SelectAgain
    \/ MergeUnit(50 + i) \/ UnitsDone
    \/ ImportBegin \/ ImportBlob \/ ImportEnd
    \/ EmitRuntime(50) \/ EmitBuild \/ EmitOpenFails
    \/ Stopped /\ UNCHANGED vars

\* lc_emit_executable_from_object_sidecars
StartLink(j) ==
    /\ job = j /\ pc = "scan" /\ mod = EmptyModule /\ blobs = <<>> /\ imp = NoImport

\* lc_module_emit_executable of what a session built itself
StartEmit(j) ==
    /\ job = j /\ pc = "emit" /\ mod = Parse(j.own[1], 0) /\ blobs = j.blobs /\ imp = NoImport

\* lc_module_import_blob_package by a client
StartImport(j, data) ==
    /\ job = j /\ pc = "import" /\ mod = EmptyModule /\ blobs = j.blobs
    /\ imp = [NoImport EXCEPT !.data = data]

InitRest ==
    /\ i = 1 /\ changed = FALSE /\ objs = <<>> /\ defined = <<>> /\ unresolved = <<>>
    /\ selected = [k \in 1..Len(job.members) |-> FALSE]
    /\ rtMerged = FALSE /\ out = EmptyBuild /\ image = Failed /\ tries = 0

---------------------------------------------------------------------------
(* What the units mean.                                                    *)

\* The IR texts that are part of the executable, in the order they are
\* merged.  A session's own module stands in job.own.
Linked ==
    LET rt == IF job.rt = <<>> THEN <<>> ELSE <<Texts[ParseArchive(job.rt).text[1]]>>
        us == SelectSeq(objs, LAMBDA u : u.text # NoText)
    IN  job.own \o [k \in 1..Len(us) |-> Texts[us[k].text]] \o rt

\* A definition other units can see.
Visible(x) == ~x.internal /\ ~IsScoped(x.name)

Definitions(text) ==
    SelectSeq(text.globals, LAMBDA g : ~g.ext) \o SelectSeq(text.funcs, LAMBDA f : f.def)

\* The program keeps the rule of one definition: units share only names made
\* to be shared, and zero variables.
OneDefinition ==
    LET strong == FlattenSeq([k \in 1..Len(Linked) |->
                     SelectSeq(Definitions(Linked[k]),
                               LAMBDA d : Visible(d) /\ d.init /\ ~Shared(d.name))])
    IN  \A a, b \in 1..Len(strong) :
           strong[a].name = strong[b].name /\ strong[a].sig = strong[b].sig => a = b

\* A call means a function of its signature.
Denotes(r, d) == d.name = r.to /\ (r.sig = NoCall \/ d.sig = r.sig)

\* What a reference of a text means: a definition of its own that only it can
\* see; else what the units define, an initialised one before a zero one and an
\* earlier before a later one; else what the loader finds.
Meaning(text, r) ==
    LET own == SelectSeq(Definitions(text), LAMBDA d : Denotes(r, d) /\ ~Visible(d))
        seen == FlattenSeq([k \in 1..Len(Linked) |->
                   SelectSeq(Definitions(Linked[k]), LAMBDA d : Denotes(r, d) /\ Visible(d))])
        k == SelectInSeq(seen, LAMBDA d : d.init)
    IN  IF own # <<>> THEN [body |-> own[1].id]
        ELSE IF seen # <<>> THEN [body |-> seen[IF k = 0 THEN 1 ELSE k].id]
        ELSE IF r.to \in Stubs THEN [body |-> r.to[1]]
        ELSE [loader |-> FinalName(r.to)]

\* Where a symbol of the object is.
Where(s) ==
    IF ~s.def THEN [loader |-> s.name]
    ELSE [body |-> IF s.section = Text THEN out.code[s.offset] ELSE out.data[s.offset]]

\* The references of a body, in its text.
RefsOf(text, d) ==
    IF d.sig = NoCall THEN [k \in 1..Len(d.relocs) |-> [to |-> d.relocs[k], sig |-> NoCall]]
    ELSE d.refs

Reaches(body, k, sym) ==
    \A t \in 1..Len(Linked) : \A n \in 1..Len(Definitions(Linked[t])) :
       LET d == Definitions(Linked[t])[n]
       IN  d.id = body => Meaning(Linked[t], RefsOf(Linked[t], d)[k]) = Where(out.symbols[sym])

\* The names a unit needs from elsewhere and the names it defines, as its text
\* and its package say.
Needs(u) ==
    LET declared == SelectSeq(Texts[u.text].globals, LAMBDA g : g.ext)
                      \o SelectSeq(Texts[u.text].funcs, LAMBDA f : ~f.def)
        named == ToSet(Names(declared)) \cup ToSet(PackageSymbols(ReadPackage(u.pkg).blobs).undefs)
    IN  {n \in named : DrivesSelection(n)}

Gives(u) == ToSet(Names(Definitions(Texts[u.text]))) \cup ToSet(Names(ReadPackage(u.pkg).blobs))

---------------------------------------------------------------------------

\* Once the archives have been gone through, no member left out defines a name
\* the chosen objects need and lack.
SelectionClosed ==
    pc \in {"unit", "emit", "build", "done"} =>
       \A n \in UNION {Needs(objs[k]) : k \in 1..Len(objs)} :
          \/ \E k \in 1..Len(objs) : n \in Gives(objs[k])
          \/ \A k \in 1..Len(job.members) : n \notin Gives(job.members[k])

\* A package is taken whole or not at all: what a refused one brought is gone,
\* and an accepted one holds exactly what exporting the new functions writes.
ImportAllOrNothing ==
    job.kind = "import" =>
       /\ pc = "refused" => blobs = job.blobs
       /\ pc = "done" => /\ SubSeq(blobs, 1, Len(job.blobs)) = job.blobs
                         /\ Export(SubSeq(blobs, Len(job.blobs) + 1, Len(blobs))) = imp.data

\* Every reference in the emitted object goes where its unit means it to go,
\* whatever the order of the units and however often the emission was tried.
ReferencesReachMeaning ==
    out # EmptyBuild /\ OneDefinition =>
       /\ \A r \in 1..Len(out.relocs) :
             Reaches(out.code[out.relocs[r].at], out.relocs[r].k, out.relocs[r].sym)
       /\ \A r \in 1..Len(out.dataRelocs) :
             Reaches(out.data[out.dataRelocs[r].at], out.dataRelocs[r].k, out.dataRelocs[r].sym)

\* Once loaded, the executable does what the object says: every reference and
\* the start stub arrive at the symbol meant, through whatever slot, trampoline
\* or relocation, and a variable's pointer keeps its addend.  The parts of the file do not overlap and are loaded, what is patched lies
\* in one of them, no page is both code and data, the hash table finds each
\* import; the relocatable file's indices mean the same symbols.
FileIsSound ==
    /\ image.ok => /\ SoundLayout(image) /\ HashFinds(image)
                   /\ Follows(job.cpu, image, InBytes(job.cpu, out), Entry(mod, blobs),
                              ExitName, FflushName)
    /\ out # EmptyBuild => ObjectKeeps(InBytes(job.cpu, out))

\* No function is in the executable twice, and a package retried with its
\* archive is not imported again.
NoBodyTwice ==
    /\ \A a, b \in 1..Len(out.code) : out.code[a] = out.code[b] => a = b
    /\ \A a, b \in 1..Len(blobs) :
          pc \in {"emit", "build", "done"} /\ job.kind # "import" /\ blobs[a].code = blobs[b].code => a = b
=============================================================================
