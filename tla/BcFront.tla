-------------------------------- MODULE BcFront ---------------------------------
(***************************************************************************)
(* The input is text or a bitcode file, and the frontend that matches it   *)
(* reads it: lr_parse_ll_text, or lr_parse_bc_with_arena, which looks for  *)
(* the string table first and then reads one entry of the stream after the *)
(* other.  The blocks it is in are on a stack.  The file is written by     *)
(* LLVM, and comes whole, cut off at some word or followed by zeros.       *)
(***************************************************************************)
EXTENDS LlText, BcFunction, BcWriter

CONSTANT Files      \* bitcode files that LLVM writes: module, shape and fate

VARIABLES
    file,    \* the file, or none if the input is text
    phase,   \* "write", "scan", "read", "done", "failed", or "" for text
    r,       \* the reader
    d,       \* the decoder
    frames,  \* the blocks that are being read, the innermost one last
    last     \* the record that was read last
bcVars == << file, phase, r, d, frames, last >>
frontVars == << vars, bcVars >>

NoFile == Blank(ModuleOf(<<>>, <<>>), Shape(FALSE, FALSE, FALSE), "whole")
NoRecord == [end |-> 0, block |-> -1, code |-> -1, ops |-> <<>>]
bits == file.bits

(* lr_frontend_detect: what is not bitcode is text.                        *)
TextInput == Init /\ file = NoFile /\ phase = ""
BitcodeInput ==
    /\ \E x \in Files : file = Blank(x.m, x.shape, x.fate)
    /\ phase = "write"
    /\ src = NoModule /\ todo = << "done", 1 >> /\ text = <<>> /\ at = 1 /\ p = NewParser(ParserScope)
FrontInit ==
    /\ TextInput \/ BitcodeInput
    /\ r = NewReader /\ d = NewDecoder(ParserScope, <<>>) /\ frames = <<>> /\ last = NoRecord

---------------------------------------------------------------------------
(* LLVM writes the file, and it is delivered whole or not.                 *)
WriteFile ==
    /\ phase = "write" /\ phase' = "scan"
    /\ \E types \in {ModuleTypes(file.m)} :
       \E table \in {ModuleTable(types, file.m)} :
       \E tables \in {Each(Defined(file.m), LAMBDA f : FunctionTable(types, table.all, f))} :
       \E items \in {ModuleItems(file.m, types, table, tables, file.shape)} :
       \E head \in {WriteTop(Nothing, FileHead(types, file.shape), types, file.shape)} :
       \E upto \in {WriteTop(head, << Block(8, items) >>, types, file.shape)} :
       \E all \in {WriteTop(upto, << StrtabBlock(file.m) >>, types, file.shape)} :
          file' \in Delivered(Written(file, all, Len(head.bits), Len(upto.bits)))
    /\ UNCHANGED << vars, r, d, frames, last >>

---------------------------------------------------------------------------
(* bc_scan_strtab: the bytes of the string table at the top, if there is   *)
(* one.  Errors end the search and are forgotten.                          *)

RECURSIVE StrtabEntries(_, _, _, _)
StrtabEntries(stream, x, end, table) ==
    LET e == bc_read_fixed(stream, x, x.alen)
        rest(y, t) == StrtabEntries(stream, y, end, t)
        record == bc_read_record(stream, e.r, e.v).r
    IN  IF x.err \/ x.pos >= end \/ e.v = END_BLOCK THEN table
        ELSE IF e.v = DEFINE_ABBREV THEN rest(bc_read_define_abbrev(stream, e.r), table)
        ELSE rest(record, IF record.blob = <<>> THEN table ELSE record.blob)

RECURSIVE bc_scan_strtab(_, _), ScanBlock(_, _)
ScanBlock(stream, h) ==
    IF h.id = 23 THEN StrtabEntries(stream, [h.r EXCEPT !.alen = h.alen, !.abbrevs = <<>>], h.end, <<>>)
    ELSE bc_scan_strtab(stream, [h.r EXCEPT !.pos = h.end])
bc_scan_strtab(stream, x) ==
    LET e == bc_read_fixed(stream, x, 2)
    IN  IF x.err \/ x.pos >= Len(stream) \/ e.v # ENTER_BLOCK THEN <<>>
        ELSE ScanBlock(stream, ReadBlockHead(stream, e.r))

Scan ==
    /\ phase = "scan" /\ phase' = "read"
    /\ d' = [d EXCEPT !.strtab = bc_scan_strtab(bits, r)]
    /\ UNCHANGED << vars, file, r, frames, last >>

---------------------------------------------------------------------------
(* Where the reader is.                                                    *)

TOP == -1
BLOCKINFO == 0
MODULE_BLOCK == 8
CONSTANTS_BLOCK == 11
FUNCTION_BLOCK == 12
SYMTAB_BLOCK == 14
TYPE_BLOCK == 17

Inside == IF frames = <<>> THEN TOP ELSE Last(frames).id
EndHere == IF frames = <<>> THEN Len(bits) ELSE Last(frames).end
InFunction == \E i \in DOMAIN frames : frames[i].id = FUNCTION_BLOCK

Failing == r.err \/ d.err
AtEntry == phase = "read" /\ ~Failing /\ r.pos < EndHere
Entry == bc_read_fixed(bits, r, r.alen)

---------------------------------------------------------------------------
(* Blocks.  Those of a kind that is not wanted where it stands are passed  *)
(* over.  The body that follows is that of the next function that has one. *)

BodiesLeft == {i \in DOMAIN d.funcs : i > d.body /\ ~d.funcs[i].decl}
NextBody == CHOOSE i \in BodiesLeft : \A j \in BodiesLeft : i <= j

Wanted ==
    CASE Inside = TOP -> {BLOCKINFO, MODULE_BLOCK}
      [] Inside = MODULE_BLOCK -> {BLOCKINFO, TYPE_BLOCK, CONSTANTS_BLOCK, SYMTAB_BLOCK}
                                    \cup (IF BodiesLeft = {} THEN {} ELSE {FUNCTION_BLOCK})
      [] Inside = FUNCTION_BLOCK -> {CONSTANTS_BLOCK, SYMTAB_BLOCK}

EntryIs(v) == AtEntry /\ ~Entry.r.err /\ Entry.v = v
Entering == Inside \in {TOP, MODULE_BLOCK, FUNCTION_BLOCK} /\ EntryIs(ENTER_BLOCK)
HeadHere == ReadBlockHead(bits, Entry.r)

PassOver ==
    /\ Entering /\ HeadHere.id \notin Wanted
    /\ r' = [HeadHere.r EXCEPT !.pos = HeadHere.end]
    /\ UNCHANGED << vars, file, phase, d, frames, last >>

Open(kinds, base) ==
    /\ Entering /\ HeadHere.id \in kinds \cap Wanted
    /\ r' = OpenBlock(HeadHere.r, HeadHere)
    /\ frames' = Append(frames, [FrameOf(r, HeadHere.id, HeadHere.end) EXCEPT !.bid = base])
    /\ UNCHANGED << vars, file, phase, last >>

EnterInfo ==
    /\ Entering /\ HeadHere.id = BLOCKINFO /\ BLOCKINFO \in Wanted
    /\ r' = [HeadHere.r EXCEPT !.alen = 2, !.abbrevs = <<>>]
    /\ frames' = Append(frames, FrameOf(r, BLOCKINFO, HeadHere.end))
    /\ UNCHANGED << vars, file, phase, d, last >>

EnterPlain == Open({MODULE_BLOCK, SYMTAB_BLOCK}, -1) /\ UNCHANGED d
EnterTypes == Open({TYPE_BLOCK}, -1) /\ d' = [d EXCEPT !.sname = ""]
EnterConstants == Open({CONSTANTS_BLOCK}, Len(d.lv)) /\ d' = [d EXCEPT !.ctype = I32]

StartBody(i) ==
    LET f == d.mod.funcs[d.funcs[i].fn]
        params == [j \in DOMAIN f.params |-> VRegValue(j - 1, f.params[j])]
    IN  [d EXCEPT !.body = i, !.fn = f, !.next = Len(params), !.cur = 0, !.nb = 0, !.fix = <<>>,
                  !.outer = d.lv, !.lv = @ \o params, !.id = Len(d.lv) + Len(params)]
EnterBody == Open({FUNCTION_BLOCK}, -1) /\ d' = StartBody(NextBody)

(* The end of a block, by its entry or because its words are over.  What   *)
(* the block was read for is completed.                                    *)
CompleteBody(e) == [FinishFunction(e) EXCEPT !.mod.funcs[e.funcs[e.body].fn] = FinishFunction(e).fn, !.lv = e.outer]

Completed ==
    CASE Inside = CONSTANTS_BLOCK /\ InFunction -> [d EXCEPT !.id = Len(d.lv)]
      [] Inside = CONSTANTS_BLOCK -> bc_apply_global_initializers(d, Last(frames).bid)
      [] Inside = FUNCTION_BLOCK -> CompleteBody(d)
      [] OTHER -> d

AtEnd == phase = "read" /\ ~Failing /\ (AtEntry => EntryIs(END_BLOCK))
EndBlock ==
    /\ frames # <<>> /\ AtEnd
    /\ r' = CloseBlock(IF AtEntry THEN bc_align32(Entry.r) ELSE r, Last(frames))
    /\ d' = Completed
    /\ frames' = Front(frames)
    /\ UNCHANGED << vars, file, phase, last >>

---------------------------------------------------------------------------
(* Records of the module.                                                  *)

Word0(rec, i) == IF i <= Len(rec) THEN rec[i] ELSE 0

bc_linkage_is_local(linkage) == linkage \in {3, 9, 13, 14}
bc_scoped_local_name(scope, name) == IF name = "_copy_t" THEN <<name, 0>> ELSE <<name, scope>>

(* From version 2 on a name is in the string table; where there is none it *)
(* is made up from a number.                                               *)
NameAt(off, size, other) ==
    IF d.version >= 2 /\ size > 0 /\ off + size <= Len(d.strtab) THEN <<Spelled(d.strtab[off + 1]), 0>> ELSE other
Scoped(sym, linkage) == IF bc_linkage_is_local(linkage) THEN bc_scoped_local_name(d.scope, sym[1]) ELSE sym

ModuleFunction(rec) ==
    LET v2 == d.version >= 2 /\ Len(rec) >= 2
        word(i) == Word0(rec, IF v2 THEN i + 2 ELSE i)
        t == bc_get_type(d, word(1))
        name == NameAt(Word0(rec, 1), Word0(rec, 2), <<"unknown", -1 - Len(d.funcs)>>)
        sym == Scoped(name, word(4))
        f == FuncOf(sym, t.sub[1], Tail(t.sub), [i \in 1..(Len(t.sub) - 1) |-> i - 1], t.n = 1, <<>>)
        i == Len(d.mod.funcs) + 1
    IN  IF ~HasType(d, word(1)) THEN Fail(d)
        ELSE IF t.k # "func" THEN Fail(d)
        ELSE [Push(d, [SymbolValue("func", sym) EXCEPT !.n = i]) EXCEPT
                 !.mod.funcs = Append(@, f), !.funcs = Append(@, [fn |-> i, decl |-> word(3) # 0])]

ModuleGlobal(rec) ==
    LET v2 == d.version >= 2 /\ Len(rec) >= 2
        word(i) == Word0(rec, IF v2 THEN i + 1 ELSE i)
        t == TypeOr(d, word(IF v2 THEN 2 ELSE 1), I8)
        const == IF v2 THEN word(3) % 2 = 1 ELSE word(3) > 1
        name == NameAt(Word0(rec, 1), Word0(rec, 2), <<"global", -1 - Len(d.lv)>>)
        sym == Scoped(name, word(5))
        g == GlobalOf(sym, t, const, word(4) = 0 /\ word(5) # 8, <<>>, <<>>)
        e == [Push(d, SymbolValue("global", sym)) EXCEPT !.mod.globals = Append(@, g)]
    IN  IF word(4) = 0 THEN e
        ELSE [e EXCEPT !.inits = Append(@, [g |-> Len(e.mod.globals), init |-> word(4)])]

bc_decode_module_block(code, rec) ==
    CASE code = 1 -> [d EXCEPT !.version = Word0(rec, 1)]
      [] code = 7 -> ModuleGlobal(rec)
      [] code = 8 -> ModuleFunction(rec)
      [] OTHER -> d

(* Names of blocks.                                                        *)
bc_decode_value_symtab(code, rec) ==
    IF code = 2 /\ InFunction /\ Word0(rec, 1) < d.nb
    THEN [d EXCEPT !.fn.blocks[Word0(rec, 1) + 1].label = IF Len(rec) > 1 THEN <<Spelled(rec[2]), 0>> ELSE NoName]
    ELSE d

---------------------------------------------------------------------------
(* Entries that are no blocks.                                             *)

DefineAbbrev ==
    /\ Inside \notin {TOP, BLOCKINFO} /\ EntryIs(DEFINE_ABBREV)
    /\ r' = bc_read_define_abbrev(bits, Entry.r)
    /\ UNCHANGED << vars, file, phase, d, frames, last >>

(* An entry of BLOCKINFO.                                                  *)
InfoEntry ==
    /\ Inside = BLOCKINFO /\ AtEntry /\ ~Entry.r.err /\ Entry.v # END_BLOCK
    /\ \E x \in {bc_process_blockinfo_content(bits, Entry, Last(frames))} :
          r' = x.r /\ frames' = [frames EXCEPT ![Len(frames)] = x.frame]
    /\ UNCHANGED << vars, file, phase, d, last >>

RecordNext(kind) ==
    /\ Inside = kind /\ AtEntry /\ ~Entry.r.err /\ Entry.v \notin {END_BLOCK, DEFINE_ABBREV}
    /\ kind \in {MODULE_BLOCK, FUNCTION_BLOCK} => Entry.v # ENTER_BLOCK
RecordHere == bc_read_record(bits, Entry.r, Entry.v)

(* The record x has been read and makes the decoder be e.                  *)
Take(x, e) ==
    /\ r' = x.r
    /\ d' = IF x.r.err THEN d ELSE e
    /\ last' = IF x.r.err THEN last ELSE [end |-> x.r.pos, block |-> Inside, code |-> x.v, ops |-> x.r.rec]
    /\ UNCHANGED << vars, file, phase, frames >>

(* A block among types or constants is jumped over.                        *)
TakeUnlessBlock(x, e) ==
    IF Entry.v # ENTER_BLOCK THEN Take(x, e)
    ELSE r' = bc_skip_block(bits, Entry.r) /\ UNCHANGED << vars, file, phase, d, frames, last >>

ModuleRecord ==
    RecordNext(MODULE_BLOCK) /\ \E x \in {RecordHere} : Take(x, bc_decode_module_block(x.v, x.r.rec))
TypeRecord ==
    RecordNext(TYPE_BLOCK) /\ \E x \in {RecordHere} : TakeUnlessBlock(x, bc_decode_type_block(d, x.v, x.r.rec))
ConstantRecord ==
    /\ RecordNext(CONSTANTS_BLOCK)
    /\ \E x \in {RecordHere} : TakeUnlessBlock(x, bc_decode_constants_block(d, x.v, x.r.rec, x.r.char6))
BodyRecord ==
    RecordNext(FUNCTION_BLOCK) /\ \E x \in {RecordHere} : Take(x, FunctionRecord(d, x.v, x.r.rec))
SymtabRecord ==
    RecordNext(SYMTAB_BLOCK) /\ \E x \in {RecordHere} : Take(x, bc_decode_value_symtab(x.v, x.r.rec))

(* Between the blocks of the file: words of zeros are passed over.         *)
TopEntry ==
    /\ Inside = TOP /\ AtEntry /\ ~Entry.r.err /\ Entry.v # ENTER_BLOCK
    /\ r' = CASE Entry.v = END_BLOCK -> bc_align32(Entry.r)
              [] Entry.v = DEFINE_ABBREV -> bc_read_define_abbrev(bits, Entry.r)
              [] OTHER -> RecordHere.r
    /\ UNCHANGED << vars, file, phase, d, frames, last >>

---------------------------------------------------------------------------
(* Ends and errors.                                                        *)

(* The entry itself is not all there.                                      *)
CutShort == AtEntry /\ Entry.r.err /\ r' = Entry.r /\ UNCHANGED << vars, file, phase, d, frames, last >>

(* Mutant of DropBody: what had been decoded of the body stays.            *)
KeepBody ==
    LET body == frames[2]
    IN  /\ phase = "read" /\ Failing /\ InFunction
        /\ d' = [d EXCEPT !.err = FALSE, !.lv = d.outer, !.mod.funcs[d.funcs[d.body].fn] = d.fn]
        /\ r' = [CloseBlock(r, body) EXCEPT !.pos = body.end, !.err = FALSE]
        /\ frames' = << frames[1] >> /\ last' = [NoRecord EXCEPT !.end = body.end]
        /\ UNCHANGED << vars, file, phase >>

(* A function whose body cannot be decoded becomes a declaration and the   *)
(* reading goes on behind it.                                              *)
DropBody ==
    LET body == frames[2]
    IN  /\ phase = "read" /\ Failing /\ InFunction
        /\ d' = [d EXCEPT !.err = FALSE, !.lv = d.outer]
        /\ r' = [CloseBlock(r, body) EXCEPT !.pos = body.end, !.err = FALSE]
        /\ frames' = << frames[1] >> /\ last' = [NoRecord EXCEPT !.end = body.end]
        /\ UNCHANGED << vars, file, phase >>

Refuse ==
    /\ phase = "read" /\ Failing /\ ~InFunction
    /\ phase' = "failed" /\ UNCHANGED << vars, file, r, d, frames, last >>

EndFile ==
    /\ phase = "read" /\ ~Failing /\ frames = <<>> /\ r.pos >= Len(bits)
    /\ phase' = "done" /\ UNCHANGED << vars, file, r, d, frames, last >>

FrontNext ==
    \/ Next /\ UNCHANGED bcVars
    \/ WriteFile \/ Scan \/ PassOver \/ EnterInfo \/ EnterPlain \/ EnterTypes \/ EnterConstants \/ EnterBody \/ EndBlock
    \/ DefineAbbrev \/ InfoEntry \/ ModuleRecord \/ TypeRecord \/ ConstantRecord \/ BodyRecord \/ SymtabRecord
    \/ TopEntry \/ CutShort \/ DropBody \/ Refuse \/ EndFile

FrontSpec == FrontInit /\ [][FrontNext]_frontVars

---------------------------------------------------------------------------
(* Properties.                                                             *)

SourceScope == 1      \* that of local symbols in the modules of the files

(* What is decoded of a module: a function with an instruction that is not *)
(* supported is declared only.                                             *)
Unsupported(f) == \E i \in DOMAIN InstsOf(f) : InstsOf(f)[i].op \in {"fence"}
Decodable(m) == [m EXCEPT !.funcs = SelectSeq(@, LAMBDA f : ~Unsupported(f))]
FuncNames(c, m) == {SymbolOf(c, f.name) : f \in Range(m.funcs)}

(* A bitcode file is accepted, and the module lr_parse_bc_with_arena makes *)
(* of it has the functions and the globals that LLVM wrote and they do the *)
(* same, although values are used before they are decoded, switches become *)
(* chains of blocks whose phis are redirected, constants come after what   *)
(* refers to them, and a body that cannot be decoded is dropped without a  *)
(* trace in the ones behind it.  A file that ends within the module is     *)
(* never accepted.                                                         *)
DecodedMeansModule ==
    LET m == file.m
        was == Ctx(EmptyMap, SourceScope)
        is == Ctx(EmptyMap, ParserScope)
    IN  file # NoFile => IF ~file.whole THEN phase # "done"
                    ELSE /\ phase # "failed"
                         /\ phase = "done" => /\ ModuleFuncs(is, d.mod) = ModuleFuncs(was, Decodable(m))
                                              /\ ModuleGlobals(is, d.mod) = ModuleGlobals(was, m)
                                              /\ FuncNames(is, d.mod) = FuncNames(was, m)

(* Every record that the decoder is given is the one that was written      *)
(* there, and none of those before it has been left out, whichever         *)
(* abbreviations the block, BLOCKINFO or nobody gave for it.               *)
RecordsReadAsWritten ==
    [][last'.code # -1 /\ last' # last =>
          /\ last' \in Range(file.recs)
          /\ \A w \in Range(file.recs) :
                w.block \in {MODULE_BLOCK, TYPE_BLOCK, CONSTANTS_BLOCK, FUNCTION_BLOCK, SYMTAB_BLOCK}
                  => ~(w.end > last.end /\ w.end < last'.end)]_frontVars
================================================================================
