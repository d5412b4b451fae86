-------------------------------- MODULE BlobPackage --------------------------------
(***************************************************************************)
(* The on-disk form of a session's captured functions (the .liric_blob     *)
(* sidecar) and of a runtime archive, from session.c, liric_compat.c and   *)
(* runtime_archive.c.                                                      *)
(*                                                                         *)
(* A file is a sequence of cells.  A 32-bit field is one cell, a 64-bit    *)
(* field two (low half first), a relocation's type and its padding one, a  *)
(* code byte and a letter of a name one each.  Letters are numbers from    *)
(* FirstLetter on; a name is a sequence of letters.  A name made local to  *)
(* its module carries Tag (".__liric_local.") and a number after its base; *)
(* Dot and a number end a name the builder made unique ("f.1").            *)
(*                                                                         *)
(* Then the names of a module: what the text parser makes of local linkage *)
(* (ll_parser.c), how modules are merged and how a defined function whose  *)
(* name is also called with another signature is set apart (ir.c).         *)
(*                                                                         *)
(* A function is [name, sig, def, refs, id]: refs lists the symbols its    *)
(* body names, each with the signature it is called with (NoCall when it   *)
(* is not a call); id names the body.  A global is [name, ext, local,      *)
(* init, relocs, id], init FALSE when its bytes are all zero.              *)
(***************************************************************************)
EXTENDS Integers, Sequences, SequencesExt

Magic == 7
Version == 1
FirstLetter == 10
Tag == 90
Dot == 91

\* A read that would cross the end of the file.
Short == -1

Word(data, p) == IF p < Len(data) THEN data[p + 1] ELSE Short

\* A two-cell number; a high half makes it larger than any file.
Word64(data, p) ==
    IF p + 2 > Len(data) THEN Short
    ELSE data[p + 1] + (IF data[p + 2] = 0 THEN 0 ELSE 1000)

\* The cells the code copies; past the end of the file they are whatever
\* memory holds, and a package that makes the code look there is refused.
Slice(data, p, n) ==
    [k \in 1..n |-> IF p + k <= Len(data) THEN data[p + k] ELSE 0]

ReadName(data, p) ==
    LET n == Word(data, p)
    IN  IF n < 1 \/ p + 1 + n > Len(data) THEN [ok |-> FALSE]
        ELSE [ok |-> TRUE, p |-> p + 1 + n, name |-> Slice(data, p + 1, n)]

ReadReloc(data, r) ==
    IF ~r.ok THEN r
    ELSE IF r.p + 2 > Len(data) THEN [r EXCEPT !.ok = FALSE]
    ELSE LET s == ReadName(data, r.p + 2)
         IN  IF ~s.ok THEN [r EXCEPT !.ok = FALSE]
             ELSE [ok |-> TRUE, p |-> s.p,
                   relocs |-> Append(r.relocs, [offset |-> data[r.p + 1],
                                                type |-> data[r.p + 2],
                                                symbol |-> s.name])]

\* One blob, from position p.  The code's length is compared with what is left
\* before the number of relocations is read.
ReadBlob(data, p) ==
    LET n == ReadName(data, p)
        len == IF n.ok THEN Word64(data, n.p) ELSE Short
        nr == IF n.ok THEN Word(data, n.p + 2) ELSE Short
        code == n.p + 3
        rs == FoldLeft(LAMBDA r, k : ReadReloc(data, r),
                       [ok |-> TRUE, p |-> code + len, relocs |-> <<>>],
                       [k \in 1..nr |-> k])
    IN  IF \/ ~n.ok
           \/ len = Short \/ len > Len(data) - (n.p + 2)
           \/ nr = Short
           \/ ~rs.ok
        THEN [ok |-> FALSE]
        ELSE [ok |-> TRUE, p |-> rs.p,
              blob |-> [name |-> n.name, code |-> Slice(data, code, len),
                        relocs |-> rs.relocs]]

\* lr_session_export_blob_package: an unnamed function or relocation is
\* refused, everything else is written in order.
Refused == <<>>

PackReloc(r) == <<r.offset, r.type, Len(r.symbol)>> \o r.symbol

PackBlob(b) ==
    <<Len(b.name)>> \o b.name \o <<Len(b.code), 0, Len(b.relocs)>>
      \o b.code \o FlattenSeq([k \in 1..Len(b.relocs) |-> PackReloc(b.relocs[k])])

Export(blobs) ==
    IF \E k \in 1..Len(blobs) :
          \/ blobs[k].name = <<>>
          \/ \E j \in 1..Len(blobs[k].relocs) : blobs[k].relocs[j].symbol = <<>>
    THEN Refused
    ELSE <<Magic, Version, Len(blobs)>>
           \o FlattenSeq([k \in 1..Len(blobs) |-> PackBlob(blobs[k])])

HeaderOk(data) == Len(data) >= 3 /\ data[1] = Magic /\ data[2] = Version

\* The compat layer's own reader of the format, used to scan and to rewrite.
AddRead(r, b) ==
    IF b.ok THEN [ok |-> TRUE, p |-> b.p, blobs |-> Append(r.blobs, b.blob)] ELSE [r EXCEPT !.ok = FALSE]
ReadToEnd(data, r) == [ok |-> r.ok /\ r.p = Len(data), blobs |-> r.blobs]
ReadAll(data) ==
    IF ~HeaderOk(data) THEN [ok |-> FALSE, blobs |-> <<>>]
    ELSE ReadToEnd(data, FoldLeft(LAMBDA r, k : IF r.ok THEN AddRead(r, ReadBlob(data, r.p)) ELSE r,
                                  [ok |-> TRUE, p |-> 3, blobs |-> <<>>], [k \in 1..data[3] |-> k]))

---------------------------------------------------------------------------

IsScoped(name) == \E k \in 1..Len(name) : name[k] = Tag

\* The part of a name in front of the tag.
Base(name) ==
    IF IsScoped(name) THEN SubSeq(name, 1, SelectInSeq(name, LAMBDA c : c = Tag) - 1)
    ELSE name

\* compat_remap_scoped_local_name: the first of a unit's new names with the
\* same base.
Remap(names, name) ==
    LET k == SelectInSeq(names, LAMBDA n : Base(n) = Base(name))
    IN  IF k = 0 THEN name ELSE names[k]

RemapBlob(names, b) ==
    [b EXCEPT !.name = Remap(names, b.name),
              !.relocs = [k \in 1..Len(b.relocs) |->
                            [b.relocs[k] EXCEPT !.symbol = Remap(names, @)]]]

\* compat_rewrite_blob_package_scoped_locals: with no new names the package is
\* copied unread.
RewriteRead(r, names) ==
    [ok |-> r.ok,
     data |-> IF r.ok THEN Export([k \in 1..Len(r.blobs) |-> RemapBlob(names, r.blobs[k])]) ELSE <<>>]
Rewrite(data, names) ==
    IF names = <<>> THEN [ok |-> Len(data) >= 3, data |-> data] ELSE RewriteRead(ReadAll(data), names)

---------------------------------------------------------------------------

\* A runtime archive: a header, the target's name, the IR text, a package.
ArchiveMagic == 8
ArchiveVersion == 2

WriteArchive(backend, target, text, pkg) ==
    <<ArchiveMagic, ArchiveVersion, backend, Len(target), Len(text), 0, Len(pkg), 0>>
      \o target \o text \o pkg

ParseArchive(data) ==
    LET tlen == Word(data, 3)
        ilen == Word64(data, 4)
        blen == Word64(data, 6)
    IN  IF \/ Len(data) < 8 \/ data[1] # ArchiveMagic \/ data[2] # ArchiveVersion
           \/ data[3] = 0 \/ tlen = 0 \/ ilen = 0 \/ blen = 0
           \/ 8 + tlen + ilen + blen # Len(data)
        THEN [ok |-> FALSE]
        ELSE [ok |-> TRUE, backend |-> data[3],
              target |-> SubSeq(data, 9, 8 + tlen),
              text |-> SubSeq(data, 9 + tlen, 8 + tlen + ilen),
              pkg |-> SubSeq(data, 9 + tlen + ilen, Len(data))]

---------------------------------------------------------------------------
(* Names of a module.                                                      *)

NoCall == 0

EmptyModule == [globals |-> <<>>, funcs |-> <<>>, dirty |-> FALSE]

\* Names shared between units although their linkage is local.
Shared(name) == name[1] \in 30..39

ScopedLocalName(name, addr) ==
    IF IsScoped(name) \/ Shared(name) THEN name ELSE name \o <<Tag, addr>>

\* What a reference in the body of function i means while it is parsed: a
\* local definition overrides the name from its own position on.
Resolved(text, i, name, addr) ==
    IF \/ \E k \in 1..Len(text.globals) :
             text.globals[k].internal /\ text.globals[k].name = name
       \/ \E k \in 1..i : text.funcs[k].internal /\ text.funcs[k].name = name
    THEN ScopedLocalName(name, addr)
    ELSE name

ParseGlobal(g, addr) ==
    [name |-> IF g.internal THEN ScopedLocalName(g.name, addr) ELSE g.name,
     ext |-> g.ext /\ ~g.internal, local |-> g.internal, sig |-> g.sig,
     init |-> g.init, relocs |-> g.relocs, id |-> g.id]

ParseFunction(text, i, addr) ==
    LET f == text.funcs[i]
    IN  [name |-> IF f.internal THEN ScopedLocalName(f.name, addr) ELSE f.name,
         sig |-> f.sig, def |-> f.def, id |-> f.id,
         refs |-> [k \in 1..Len(f.refs) |->
                     [f.refs[k] EXCEPT !.to = Resolved(text, i, @, addr)]]]

\* A declaration of a name the module has is dropped; a definition is not.
AddFunction(m, f) ==
    IF ~f.def /\ \E k \in 1..Len(m.funcs) : m.funcs[k].name = f.name THEN m
    ELSE [m EXCEPT !.funcs = Append(@, f), !.dirty = TRUE]

Parse(text, addr) ==
    FoldLeft(LAMBDA m, i : AddFunction(m, ParseFunction(text, i, addr)),
             [globals |-> [k \in 1..Len(text.globals) |-> ParseGlobal(text.globals[k], addr)],
              funcs |-> <<>>, dirty |-> TRUE],
             [i \in 1..Len(text.funcs) |-> i])

---------------------------------------------------------------------------

IndexOf(seq, name) == SelectInSeq(seq, LAMBDA x : x.name = name)

Stronger(g) == g.init \/ g.relocs # <<>>

MergeGlobal(m, g) ==
    LET k == IndexOf(m.globals, g.name)
        d == m.globals[k]
    IN  IF k = 0 THEN [m EXCEPT !.globals = Append(@, g), !.dirty = TRUE]
        ELSE IF ~g.ext /\ (d.ext \/ (~Stronger(d) /\ Stronger(g)))
        THEN [m EXCEPT !.globals[k] = g]
        ELSE m

\* Variation: a declaration is not completed by a later definition.
MergeFirstStays(m, f) ==
    IF IndexOf(m.funcs, f.name) = 0 THEN [m EXCEPT !.funcs = Append(@, f), !.dirty = TRUE]
    ELSE m

MergeFunction(m, f) ==
    LET k == IndexOf(m.funcs, f.name)
    IN  IF k = 0 THEN [m EXCEPT !.funcs = Append(@, f), !.dirty = TRUE]
        ELSE IF f.def /\ ~m.funcs[k].def THEN [m EXCEPT !.funcs[k] = f]
        ELSE m

Merge(dest, src) ==
    FoldLeft(MergeFunction, FoldLeft(MergeGlobal, dest, src.globals), src.funcs)

---------------------------------------------------------------------------

SharesName(m, i) ==
    \E k \in 1..Len(m.funcs) :
       k # i /\ m.funcs[k].name = m.funcs[i].name /\ m.funcs[k].sig # m.funcs[i].sig

CalledOtherwise(m, f) ==
    \E k \in 1..Len(m.funcs) : \E r \in 1..Len(m.funcs[k].refs) :
       LET c == m.funcs[k].refs[r]
       IN  c.sig # NoCall /\ c.to = f.name /\ c.sig # f.sig

\* A variable whose type is that of a function stands for one.
VariableOtherwise(m, f) ==
    \E k \in 1..Len(m.globals) :
       LET g == m.globals[k] IN g.sig # NoCall /\ g.name = f.name /\ g.sig # f.sig

\* A definition that shares its name with a function or a variable, or is
\* called, with another signature.
Collides(m, i) ==
    /\ m.funcs[i].def
    /\ SharesName(m, i) \/ VariableOtherwise(m, m.funcs[i]) \/ CalledOtherwise(m, m.funcs[i])

\* The collisions, in the order the scan renames them.
Renames(m) == SelectSeq([i \in 1..Len(m.funcs) |-> i], LAMBDA i : Collides(m, i))

NewName(m, n) == m.funcs[Renames(m)[n]].name \o <<Tag, n - 1>>

\* The renamed function a call means: the last of its name with its signature.
Retarget(m, c) ==
    LET hits == {n \in 1..Len(Renames(m)) :
                    LET f == m.funcs[Renames(m)[n]]
                    IN  c.sig = f.sig /\ c.to = f.name}
    IN  IF c.sig = NoCall \/ hits = {} THEN c
        ELSE [c EXCEPT !.to = NewName(m, CHOOSE n \in hits : \A o \in hits : o <= n)]

Disambiguate(m) ==
    IF ~m.dirty THEN m
    ELSE [m EXCEPT !.dirty = FALSE,
                   !.funcs = [i \in 1..Len(m.funcs) |->
                      LET f == m.funcs[i]
                          n == SelectInSeq(Renames(m), LAMBDA k : k = i)
                      IN  [f EXCEPT !.name = IF n = 0 THEN @ ELSE NewName(m, n),
                                    !.refs = [k \in 1..Len(@) |-> Retarget(m, @[k])]]]]
=============================================================================
