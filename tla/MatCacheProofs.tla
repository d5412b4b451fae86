-------------------------- MODULE MatCacheProofs --------------------------
(***************************************************************************)
(* Proofs about MatCache: code from before an invalidation is never placed *)
(* after it (InvalidationIsFinal), and the code a JIT publishes is what    *)
(* its target makes of the function (CodeIsCompiled).                      *)
(*                                                                         *)
(* The first rests on the age of what is in the cache (CacheFresh).  The   *)
(* second needs an invariant about everything that is under way (IInv).    *)
(* Lazy entries carry the signatures of their functions, and the cache     *)
(* holds what some function of these signatures compiles to, so that       *)
(* SignatureFixesCode turns a hit into what the function itself compiles   *)
(* to.  A frame of the stack has its code in the buffer, not yet patched;  *)
(* the stretches of all frames and of all ready functions are apart, so    *)
(* that patching one leaves the others alone.  Every address in use is one *)
(* that the name has had.                                                  *)
(***************************************************************************)
EXTENDS SignatureProofs

---------------------------------------------------------------------------
(* Lists.                                                                  *)

Listing(s) == s \in Seq(Range(s))

(* A list is numbered from 1.                                              *)
LEMMA ListingLen ==
    ASSUME NEW s, Listing(s)
    PROVE  Len(s) \in Nat /\ DOMAIN s = 1..Len(s)
BY DEF Listing

(* A function on 1..n is a list.                                           *)
LEMMA ListingOf ==
    ASSUME NEW n \in Nat, NEW s, s = [i \in 1..n |-> s[i]]
    PROVE  Listing(s) /\ Len(s) = n
<1>1. \A i \in 1..n : s[i] \in Range(s)
  <2>1. DOMAIN s = 1..n OBVIOUS
  <2> QED BY <2>1, Zenon DEF Range
<1> QED BY <1>1, IsList DEF Listing

(* A sequence over any set is a list.                                      *)
LEMMA ListingIs ==
    ASSUME NEW S, NEW s \in Seq(S)
    PROVE  Listing(s)
<1>1. Len(s) \in Nat /\ DOMAIN s = 1..Len(s) /\ s = [i \in 1..Len(s) |-> s[i]] BY LenProperties, SMT
<1> QED BY <1>1, ListingOf

(* The elements of a concatenation.                                        *)
LEMMA ListingConcat ==
    ASSUME NEW s, NEW t, Listing(s), Listing(t)
    PROVE  /\ Listing(s \o t) /\ Len(s \o t) = Len(s) + Len(t)
           /\ \A i \in 1..Len(s) : (s \o t)[i] = s[i]
           /\ \A i \in 1..Len(t) : (s \o t)[Len(s) + i] = t[i]
<1> DEFINE S == Range(s) \cup Range(t)
<1>1. s \in Seq(S) /\ t \in Seq(S)
  <2>1. s = [i \in 1..Len(s) |-> s[i]] /\ Len(s) \in Nat /\ \A i \in 1..Len(s) : s[i] \in S
    BY DEF Listing, Range
  <2>2. t = [i \in 1..Len(t) |-> t[i]] /\ Len(t) \in Nat /\ \A i \in 1..Len(t) : t[i] \in S
    BY DEF Listing, Range
  <2> QED BY <2>1, <2>2, IsList
<1> HIDE DEF S
<1>2. s \o t \in Seq(S) BY <1>1
<1>3. Listing(s \o t) BY <1>2, ListingIs
<1> QED BY <1>1, <1>3

(* The elements of a list with one more.                                   *)
LEMMA ListingAppend ==
    ASSUME NEW s, NEW x, Listing(s)
    PROVE  /\ Listing(Append(s, x)) /\ Len(Append(s, x)) = Len(s) + 1
           /\ \A i \in 1..Len(s) : Append(s, x)[i] = s[i]
           /\ Append(s, x)[Len(s) + 1] = x
<1> DEFINE S == Range(s) \cup {x}
<1>1. s \in Seq(S)
  <2>1. s = [i \in 1..Len(s) |-> s[i]] /\ Len(s) \in Nat /\ \A i \in 1..Len(s) : s[i] \in S
    BY DEF Listing, Range
  <2> QED BY <2>1, IsList
<1>2. x \in S OBVIOUS
<1> HIDE DEF S
<1>3. Append(s, x) \in Seq(S) BY <1>1, <1>2
<1>4. Listing(Append(s, x)) BY <1>3, ListingIs
<1> QED BY <1>1, <1>2, <1>4

(* The elements of a list without its last.                                *)
LEMMA ListingFront ==
    ASSUME NEW s, Listing(s), s # <<>>
    PROVE  /\ Len(s) > 0 /\ Listing(Front(s)) /\ Len(Front(s)) = Len(s) - 1
           /\ \A i \in 1..(Len(s) - 1) : Front(s)[i] = s[i]
<1>1. s \in Seq(Range(s)) /\ Len(s) \in Nat BY DEF Listing
<1>2. Len(s) > 0 BY <1>1
<1>3. Front(s) = [i \in 1..(Len(s) - 1) |-> s[i]] BY <1>1, <1>2 DEF Front
<1>4. Front(s) = [i \in 1..(Len(s) - 1) |-> Front(s)[i]] /\ Len(s) - 1 \in Nat
      /\ \A i \in 1..(Len(s) - 1) : Front(s)[i] = s[i]
  BY <1>1, <1>2, <1>3
<1> QED BY <1>2, <1>4, ListingOf

---------------------------------------------------------------------------
(* What the back end makes of a function.                                  *)

(* What a product of the back end is: its cells hold no address yet, and   *)
(* each relocation names a cell of its own.                                *)
Product(out) ==
    /\ Listing(out.cells)
    /\ \A i \in DOMAIN out.cells : out.cells[i] = [does |-> out.cells[i].does, addr |-> 0]
    /\ \A r \in out.relocs : r = [off |-> r.off, sym |-> r.sym] /\ r.off \in 1..Len(out.cells)
    /\ \A r, s \in out.relocs : r.off = s.off => r = s

Drafts(S) == {[cell |-> [does |-> d, addr |-> 0], sym |-> s] : d \in S, s \in Seq(Nat)}

(* An instruction mentions names.                                          *)
LEMMA MentionedAreNames ==
    ASSUME NEW m \in ModuleDefs, NEW x, GoodInst(m, x)
    PROVE  Mentioned(m, x) \in Seq(Names)
<1>1. x.o \in Seq(Operands) BY DEF GoodInst, Instructions
<1>2. DOMAIN x.o = 1..Len(x.o) /\ Len(x.o) \in Nat BY <1>1, LenProperties
<1>3. SymbolNames(m) \in Seq(Names) BY SymbolNamesAreNames
<1> DEFINE p == [i \in DOMAIN x.o |-> IF x.o[i].k = GLOBAL THEN <<SymbolNames(m)[x.o[i].n]>> ELSE <<>>]
<1>4. \A i \in DOMAIN x.o : x.o[i].k = GLOBAL => SymbolNames(m)[x.o[i].n] \in Names
  BY <1>3 DEF GoodInst
<1>5. p = [i \in 1..Len(x.o) |-> p[i]] /\ \A i \in 1..Len(x.o) : p[i] \in Seq(Names)
  BY <1>2, <1>4
<1> HIDE DEF p
<1>6. p \in Seq(Seq(Names)) BY <1>2, <1>5, IsList
<1>7. FlattenSeq(p) \in Seq(Names) BY <1>6, FlatIsSeq
<1> QED BY <1>7 DEF Mentioned, p

(* What a cell and the name that goes into it look like.                   *)
LEMMA DraftIs ==
    ASSUME NEW S, NEW d \in S, NEW s \in Seq(Nat)
    PROVE  [cell |-> [does |-> d, addr |-> 0], sym |-> s] \in Drafts(S)
BY DEF Drafts

(* An instruction compiles to such cells.                                  *)
LEMMA CompileInstDrafts ==
    ASSUME NEW S, NEW t, NEW m \in ModuleDefs, NEW x, GoodInst(m, x), Encode(t, m, x) \in S, Slot \in S
    PROVE  CompileInst(t, m, x) \in Seq(Drafts(S))
<1> DEFINE names == Mentioned(m, x)
           h == [cell |-> [does |-> Encode(t, m, x), addr |-> 0], sym |-> <<>>]
           p == [i \in DOMAIN names |-> [cell |-> [does |-> Slot, addr |-> 0], sym |-> names[i]]]
<1>1. names \in Seq(Seq(Nat)) BY MentionedAreNames DEF Names
<1>2. DOMAIN names = 1..Len(names) /\ Len(names) \in Nat /\ \A i \in 1..Len(names) : names[i] \in Seq(Nat)
  <2> HIDE DEF names
  <2> QED BY <1>1
<1>3. h \in Drafts(S)
  <2>1. <<>> \in Seq(Nat) OBVIOUS
  <2> QED BY <2>1, DraftIs
<1>4. <<h>> \in Seq(Drafts(S))
  <2> HIDE DEF h
  <2> QED BY <1>3
<1>5. \A i \in 1..Len(names) : p[i] \in Drafts(S)
  <2> TAKE i \in 1..Len(names)
  <2>1. p[i] = [cell |-> [does |-> Slot, addr |-> 0], sym |-> names[i]] BY <1>2, Zenon
  <2> QED BY <2>1, <1>2, DraftIs
<1>6. p = [i \in 1..Len(names) |-> p[i]]
  <2> HIDE DEF names
  <2> QED BY <1>2, Zenon
<1>7. p \in Seq(Drafts(S))
  <2> HIDE DEF p, names
  <2> QED BY <1>2, <1>5, <1>6, IsList
<1>8. CompileInst(t, m, x) = <<h>> \o p BY Zenon DEF CompileInst
<1> HIDE DEF h, p
<1> QED BY <1>4, <1>7, <1>8, ConcatProperties

(* What the back end makes of a function of a module is a product.         *)
LEMMA CompileIsProduct ==
    ASSUME NEW t, NEW m \in AllModules, NEW f \in Range(m.funcs)
    PROVE  Product(Compile(t, m, f))
<1>1. GoodModule(m) BY ModulesAreGood
<1>2. m \in ModuleDefs /\ GoodFunc(m, f) BY <1>1 DEF GoodModule, Range
<1>0. PICK c : c = FuncMeta(t, f) OBVIOUS
<1> DEFINE all == {x \in Instructions : GoodInst(m, x)}
           S == {Encode(c, m, x) : x \in all} \cup {Slot}
           q == [i \in DOMAIN f.blocks |-> CompileBlock(c, m, f.blocks[i])]
           out == FlattenSeq(q)
<1>3. \A x \in all : CompileInst(c, m, x) \in Seq(Drafts(S))
  <2> TAKE x \in all
  <2>1. Encode(c, m, x) \in S /\ Slot \in S /\ GoodInst(m, x) BY Zenon
  <2> HIDE DEF S
  <2> QED BY <2>1, <1>2, CompileInstDrafts
<1> HIDE DEF S
<1>4. \A b : GoodBlock(m, b) => CompileBlock(c, m, b) \in Seq(Drafts(S))
  <2> SUFFICES ASSUME NEW b, GoodBlock(m, b) PROVE CompileBlock(c, m, b) \in Seq(Drafts(S))
    OBVIOUS
  <2>1. b.insts \in Seq(Instructions) BY DEF GoodBlock, BasicBlocks
  <2>2. DOMAIN b.insts = 1..Len(b.insts) /\ Len(b.insts) \in Nat BY <2>1, LenProperties
  <2>3. \A i \in 1..Len(b.insts) : b.insts[i] \in all BY <2>1, <2>2, ElementOfSeq DEF GoodBlock
  <2> DEFINE p == [i \in DOMAIN b.insts |-> CompileInst(c, m, b.insts[i])]
  <2> HIDE DEF all
  <2>4. p = [i \in 1..Len(b.insts) |-> p[i]] /\ \A i \in 1..Len(b.insts) : p[i] \in Seq(Drafts(S))
    BY <2>2, <2>3, <1>3
  <2> HIDE DEF p
  <2>5. p \in Seq(Seq(Drafts(S))) BY <2>2, <2>4, IsList
  <2>6. FlattenSeq(p) \in Seq(Drafts(S)) BY <2>5, FlatIsSeq
  <2> QED BY <2>6 DEF p, CompileBlock
<1>5. out \in Seq(Drafts(S))
  <2>1. f.blocks \in Seq(BasicBlocks) BY <1>2 DEF GoodFunc, FunctionDefs
  <2>2. DOMAIN f.blocks = 1..Len(f.blocks) /\ Len(f.blocks) \in Nat BY <2>1, LenProperties
  <2>3. \A i \in 1..Len(f.blocks) : GoodBlock(m, f.blocks[i]) BY <2>2, <1>2 DEF GoodFunc
  <2>4. q = [i \in 1..Len(f.blocks) |-> q[i]] /\ \A i \in 1..Len(f.blocks) : q[i] \in Seq(Drafts(S))
    BY <2>2, <2>3, <1>4
  <2> HIDE DEF q
  <2>5. q \in Seq(Seq(Drafts(S))) BY <2>2, <2>4, IsList
  <2> QED BY <2>5, FlatIsSeq
<1> DEFINE cells == [i \in DOMAIN out |-> out[i].cell]
           relocs == {[off |-> i, sym |-> out[i].sym] : i \in {h \in DOMAIN out : out[h].sym # <<>>}}
<1>6. Compile(t, m, f) = [cells |-> cells, relocs |-> relocs] BY <1>0, Zenon DEF Compile
<1>7. Compile(t, m, f).cells = cells /\ Compile(t, m, f).relocs = relocs
  <2> HIDE DEF cells, relocs
  <2> QED BY <1>6
<1> HIDE DEF out
<1>8. DOMAIN out = 1..Len(out) /\ Len(out) \in Nat /\ \A i \in 1..Len(out) : out[i] \in Drafts(S)
  BY <1>5
<1>9. cells = [i \in 1..Len(out) |-> cells[i]] /\ \A i \in 1..Len(out) : cells[i] = out[i].cell BY <1>8
<1>10. \A i \in 1..Len(out) : out[i].cell = [does |-> out[i].cell.does, addr |-> 0]
  <2> TAKE i \in 1..Len(out)
  <2>1. PICK d \in S, s \in Seq(Nat) : out[i] = [cell |-> [does |-> d, addr |-> 0], sym |-> s]
    BY <1>8 DEF Drafts
  <2>2. out[i].cell = [does |-> d, addr |-> 0] BY <2>1
  <2> QED BY <2>2
<1>11. Listing(cells) /\ Len(cells) = Len(out)
  <2> HIDE DEF cells
  <2> QED BY <1>8, <1>9, ListingOf
<1>12. DOMAIN cells = 1..Len(out) BY <1>9
<1>13. \A r \in relocs : r = [off |-> r.off, sym |-> r.sym] /\ r.off \in 1..Len(out) /\
           r.sym = out[r.off].sym
  BY <1>8
<1>14. \A r, s \in relocs : r.off = s.off => r = s BY <1>13
<1> HIDE DEF cells, relocs
<1> QED BY <1>7, <1>9, <1>10, <1>11, <1>12, <1>13, <1>14 DEF Product

---------------------------------------------------------------------------
(* Nothing outlives an invalidation.                                       *)

(* What the cache holds was compiled since the last invalidation.          *)
CacheFresh == \A e \in cache : e.age = age

(* The empty cache is fresh.                                               *)
LEMMA FreshInit == Init => CacheFresh /\ NothingOutlivesInvalidation
BY DEF Init, CacheFresh, NothingOutlivesInvalidation

(* Placing code of this age keeps what was placed in order.                *)
LEMMA FreshPlace ==
    ASSUME NEW j, NEW n, NEW out, NEW scratch, Place(j, n, out, scratch, age), NothingOutlivesInvalidation
    PROVE  NothingOutlivesInvalidation'
BY DEF Place, NothingOutlivesInvalidation

(* The cache stays fresh when a materialization starts: it hands out and   *)
(* takes up code of this age only.                                         *)
LEMMA FreshEnter ==
    ASSUME NEW j, NEW n, Enter(j, n), CacheFresh, NothingOutlivesInvalidation
    PROVE  CacheFresh' /\ NothingOutlivesInvalidation'
<1>1. CASE EnterHit(j, n)
  <2>1. PICK e \in Matching(j, lazy[j][n]) :
          /\ Place(j, n, [cells |-> e.cells, relocs |-> e.relocs], FALSE, e.age)
          /\ cache' = cache /\ age' = age
    BY <1>1 DEF EnterHit
  <2>2. e.age = age BY DEF Matching, CacheFresh
  <2>3. NothingOutlivesInvalidation' BY <2>1, <2>2, FreshPlace
  <2> QED BY <2>1, <2>3 DEF CacheFresh
<1>2. CASE EnterMiss(j, n)
  <2>1. PICK S : cache' = Prefetched(j, S) BY <1>2 DEF EnterMiss
  <2>2. age' = age /\ Place(j, n, Compile(target[j], lazy[j][n].module, lazy[j][n].func), TRUE, age)
    BY <1>2 DEF EnterMiss
  <2>3. NothingOutlivesInvalidation' BY <2>2, FreshPlace
  <2>4. \A e \in cache' : e.age = age BY <2>1 DEF Prefetched, Entry, CacheFresh
  <2> QED BY <2>2, <2>3, <2>4 DEF CacheFresh
<1>3. CASE EnterFull(j, n)
  <2>1. cache' = cache /\ age' = age /\ log' = log BY <1>3 DEF EnterFull
  <2> QED BY <2>1 DEF CacheFresh, NothingOutlivesInvalidation
<1> QED BY <1>1, <1>2, <1>3 DEF Enter

(* The cache stays fresh in every step.                                    *)
LEMMA FreshNext ==
    ASSUME CacheFresh, NothingOutlivesInvalidation, [Next]_vars
    PROVE  CacheFresh' /\ NothingOutlivesInvalidation'
<1> USE DEF CacheFresh, NothingOutlivesInvalidation
<1>1. ASSUME NEW j \in Jits, NEW m \in ModulesOf[j], AddModule(j, m)
      PROVE  CacheFresh' /\ NothingOutlivesInvalidation'
  <2>1. cache' = cache /\ age' = age /\ log' = log BY <1>1 DEF AddModule
  <2> QED BY <2>1
<1>2. ASSUME NEW j \in Jits, NEW n \in DOMAIN lazy[j], Materialize(j, n)
      PROVE  CacheFresh' /\ NothingOutlivesInvalidation'
  <2>1. Enter(j, n) BY <1>2 DEF Materialize
  <2> QED BY <2>1, FreshEnter
<1>3. CASE MatDependency
  <2>1. Enter(Top.j, FirstMissing) BY <1>3 DEF MatDependency
  <2> QED BY <2>1, FreshEnter
<1>4. CASE MatUnresolved
  <2>1. cache' = cache /\ age' = age /\ log' = log BY <1>4 DEF MatUnresolved
  <2> QED BY <2>1
<1>5. CASE MatDone
  <2>1. age' = age /\ log' = log BY <1>5 DEF MatDone
  <2> DEFINE e == Entry(Top.j, lazy[Top.j][Top.n], [cells |-> CapturedCode(Top),
                 relocs |-> Top.relocs], age)
  <2>2. cache' = cache \/ cache' = Insert(cache, e) BY <1>5 DEF MatDone
  <2>3. e.age = age BY DEF Entry
  <2> HIDE DEF e
  <2>4. cache' \subseteq cache \cup {e} BY <2>2 DEF Insert
  <2> QED BY <2>1, <2>3, <2>4
<1>6. CASE InvalidateAll BY <1>6 DEF InvalidateAll
<1>7. CASE ResetStats
  <2>1. cache' = cache /\ age' = age /\ log' = log BY <1>7 DEF ResetStats
  <2> QED BY <2>1
<1>8. CASE UNCHANGED vars
  <2>1. cache' = cache /\ age' = age /\ log' = log BY <1>8 DEF vars
  <2> QED BY <2>1
<1> QED BY <1>1, <1>2, <1>3, <1>4, <1>5, <1>6, <1>7, <1>8 DEF Next

(* After lr_jit_mat_cache_invalidate_all no JIT is given code from before  *)
(* it, also when the epoch comes round: what is in the cache was compiled  *)
(* since the last invalidation.                                            *)
THEOREM InvalidationIsFinal == Spec => []NothingOutlivesInvalidation
<1> DEFINE Inv == CacheFresh /\ NothingOutlivesInvalidation
<1>1. Init => Inv BY FreshInit
<1>2. Inv /\ [Next]_vars => Inv' BY FreshNext
<1>3. Inv => NothingOutlivesInvalidation OBVIOUS
<1> HIDE DEF Inv
<1> QED BY <1>1, <1>2, <1>3, PTL DEF Spec

---------------------------------------------------------------------------
(* The inductive invariant.                                                *)

Out(j, n) == Compile(target[j], lazy[j][n].module, lazy[j][n].func)

IsMap(f) == f = [x \in DOMAIN f |-> f[x]]
IsEntry(e) ==
    e = [module |-> e.module, func |-> e.func, msig |-> e.msig, fsig |-> e.fsig,
         state |-> e.state, addr |-> e.addr]

(* The kinds of the variables.                                             *)
LazyShape ==
    /\ lazy = [j \in Jits |-> lazy[j]]
    /\ \A j \in Jits : IsMap(lazy[j]) /\ \A n \in DOMAIN lazy[j] : IsEntry(lazy[j][n])
SymsShape ==
    /\ syms = [j \in Jits |-> syms[j]]
    /\ \A j \in Jits : IsMap(syms[j])
CodeShape ==
    /\ code = [j \in Jits |-> code[j]]
    /\ \A j \in Jits : Listing(code[j])
Shape == LazyShape /\ SymsShape /\ CodeShape /\ Listing(stack)

(* A lazy entry holds the signatures of its function.                      *)
SignedEntry(e) ==
    /\ e.module \in AllModules /\ e.func \in Range(e.module.funcs)
    /\ e.msig = SigModule(e.module) /\ e.fsig = SigFunction(e.module, e.func)
Signed == \A j \in Jits : \A n \in DOMAIN lazy[j] : SignedEntry(lazy[j][n])

(* An entry of the cache holds what its target makes of some function that *)
(* has its signatures.                                                     *)
CompiledEntry(e) ==
    \E m \in AllModules : \E f \in Range(m.funcs) :
      /\ e.msig = SigModule(m) /\ e.fsig = SigFunction(m, f)
      /\ e.cells = Compile(e.target, m, f).cells /\ e.relocs = Compile(e.target, m, f).relocs
CacheCompiled == \A e \in cache : CompiledEntry(e)

(* A materialization under way has put its code into the buffer as it was  *)
(* compiled, and its entry points to it.                                   *)
FrameOK(f) ==
    /\ f.j \in Jits /\ f.n \in DOMAIN lazy[f.j]
    /\ lazy[f.j][f.n].state = "compiling" /\ f.base \in Nat /\ lazy[f.j][f.n].addr = f.base + 1
    /\ f.cells = Out(f.j, f.n).cells /\ f.relocs = Out(f.j, f.n).relocs
    /\ f.base + Len(f.cells) <= Len(code[f.j])
    /\ \A i \in DOMAIN f.cells : code[f.j][f.base + i] = f.cells[i]
FramesOK == \A i \in DOMAIN stack : FrameOK(stack[i])

(* The code of a caller ends before the code of what it waits for starts.  *)
FramesApart ==
    \A i, k \in DOMAIN stack :
      /\ stack[i].j = stack[k].j
      /\ i < k => stack[i].n # stack[k].n /\ stack[i].base + Len(stack[i].cells) <= stack[k].base

(* An address in use is one the ghosts remember.                           *)
KnownSyms == \A j \in Jits : \A s \in DOMAIN syms[j] : [j |-> j, n |-> s, addr |-> syms[j][s]] \in had
KnownCode ==
    \A j \in Jits : \A n \in DOMAIN lazy[j] :
      lazy[j][n].addr # 0 => \E z \in log : z.j = j /\ z.n = n /\ z.base + 1 = lazy[j][n].addr

PlacedAt(j, n, at) ==
    /\ at + Len(Out(j, n).cells) <= Len(code[j])
    /\ \A i \in DOMAIN Out(j, n).cells :
         /\ [code[j][at + i] EXCEPT !.addr = 0] = Out(j, n).cells[i]
         /\ \A r \in Out(j, n).relocs : r.off = i => code[j][at + i].addr \in Starts(j, r.sym)

(* The code of a ready function is in place, apart from what is still to   *)
(* be patched.                                                             *)
ReadyOK(j, n) ==
    /\ n \in DOMAIN syms[j] /\ syms[j][n] \in Nat \ {0}
    /\ PlacedAt(j, n, syms[j][n] - 1)
    /\ \A k \in DOMAIN stack : stack[k].j = j =>
         \/ syms[j][n] - 1 + Len(Out(j, n).cells) <= stack[k].base
         \/ stack[k].base + Len(stack[k].cells) <= syms[j][n] - 1
Published == \A j \in Jits : \A n \in DOMAIN lazy[j] : lazy[j][n].state = "ready" => ReadyOK(j, n)

(* All but the cache.                                                      *)
JitsInv == Shape /\ Signed /\ FramesOK /\ FramesApart /\ KnownSyms /\ KnownCode /\ Published

IInv == JitsInv /\ CacheCompiled

---------------------------------------------------------------------------
(* How a step changes the entries.                                         *)

(* One entry gets a state and an address.                                  *)
Updated(j, n, s, a) ==
    /\ lazy' = [k \in Jits |-> lazy'[k]]
    /\ \A k \in Jits : IsMap(lazy'[k]) /\ DOMAIN lazy'[k] = DOMAIN lazy[k]
    /\ \A k \in Jits : \A x \in DOMAIN lazy[k] : k # j \/ x # n => lazy'[k][x] = lazy[k][x]
    /\ lazy'[j][n] = [module |-> lazy[j][n].module, func |-> lazy[j][n].func, msig |-> lazy[j][n].msig,
                      fsig |-> lazy[j][n].fsig, state |-> s, addr |-> a]

(* An entry with a new state and address.                                  *)
LEMMA EntryUpdate ==
    ASSUME NEW e, IsEntry(e), NEW s, NEW a
    PROVE  [[e EXCEPT !.state = s] EXCEPT !.addr = a] =
             [module |-> e.module, func |-> e.func, msig |-> e.msig, fsig |-> e.fsig, state |-> s,
                 addr |-> a]
<1>1. PICK m, f, p, q, u, v : e = [module |-> m, func |-> f, msig |-> p, fsig |-> q, state |-> u,
               addr |-> v]
  BY Zenon DEF IsEntry
<1>2. [[e EXCEPT !.state = s] EXCEPT !.addr = a] =
         [module |-> m, func |-> f, msig |-> p, fsig |-> q, state |-> s, addr |-> a]
  <2> DEFINE d == [e EXCEPT !.state = s]
  <2>1. d = [module |-> m, func |-> f, msig |-> p, fsig |-> q, state |-> s, addr |-> v] BY <1>1
  <2> HIDE DEF d
  <2>2. [d EXCEPT !.addr = a] = [module |-> m, func |-> f, msig |-> p, fsig |-> q, state |-> s, addr |-> a]
    BY <2>1
  <2> QED BY <2>2 DEF d
<1>3. e.module = m /\ e.func = f /\ e.msig = p /\ e.fsig = q BY <1>1
<1> QED BY <1>2, <1>3

(* What the assignment to one entry changes.                               *)
LEMMA UpdateEntry ==
    ASSUME LazyShape, NEW j \in Jits, NEW n \in DOMAIN lazy[j], NEW s, NEW a,
           lazy' = [lazy EXCEPT ![j][n].state = s, ![j][n].addr = a]
    PROVE  Updated(j, n, s, a)
<1> DEFINE e == lazy[j][n]
           e2 == [[e EXCEPT !.state = s] EXCEPT !.addr = a]
<1>1. lazy = [k \in Jits |-> lazy[k]] /\ \A k \in Jits : IsMap(lazy[k]) BY DEF LazyShape
<1>2. lazy' = [k \in Jits |-> IF k = j THEN [x \in DOMAIN lazy[j] |-> IF x =
          n THEN e2 ELSE lazy[j][x]] ELSE lazy[k]]
  BY <1>1 DEF IsMap
<1>3. IsEntry(e) BY DEF LazyShape
<1>4. e2 = [module |-> e.module, func |-> e.func, msig |-> e.msig, fsig |-> e.fsig, state |-> s, addr |-> a]
  BY <1>3, EntryUpdate
<1> HIDE DEF e2
<1>5. lazy' = [k \in Jits |-> lazy'[k]] BY <1>2
<1>6. lazy'[j] = [x \in DOMAIN lazy[j] |-> IF x = n THEN e2 ELSE lazy[j][x]]
      /\ \A k \in Jits : k # j => lazy'[k] = lazy[k] BY <1>2
<1>7. \A k \in Jits : IsMap(lazy'[k]) /\ DOMAIN lazy'[k] = DOMAIN lazy[k] BY <1>1, <1>6 DEF IsMap
<1>8. \A k \in Jits : \A x \in DOMAIN lazy[k] : k # j \/ x # n => lazy'[k][x] = lazy[k][x] BY <1>6
<1>9. lazy'[j][n] = e2 BY <1>6
<1> QED BY <1>4, <1>5, <1>7, <1>8, <1>9 DEF Updated

(* An entry keeps its function, and is moved from one stage to another.    *)
SameFn(d, e) == d.module = e.module /\ d.func = e.func /\ d.msig = e.msig /\ d.fsig = e.fsig

(* What every step does: entries and ghosts only grow.                     *)
Grows ==
    /\ target' = target /\ log \subseteq log' /\ had \subseteq had'
    /\ \A k \in Jits : \A x \in DOMAIN lazy[k] : x \in DOMAIN lazy'[k] /\ SameFn(lazy'[k][x], lazy[k][x])

(* No step changes what a function compiles to.                            *)
LEMMA OutKept ==
    ASSUME Grows, NEW j \in Jits, NEW n \in DOMAIN lazy[j]
    PROVE  Out(j, n)' = Out(j, n)
BY DEF Grows, SameFn, Out

(* A name keeps the addresses it had.                                      *)
LEMMA StartsGrow ==
    ASSUME Grows, NEW j, NEW s, NEW x \in Starts(j, s)
    PROVE  x \in Starts(j, s)'
<1>1. log \subseteq log' /\ had \subseteq had' BY DEF Grows
<1> QED BY <1>1 DEF Starts

(* An entry with a new state and address is still of its function.         *)
LEMMA UpdatedGrows ==
    ASSUME LazyShape, NEW j \in Jits, NEW n \in DOMAIN lazy[j], NEW s, NEW a, Updated(j, n, s, a),
           target' = target, log \subseteq log', had \subseteq had'
    PROVE  Grows /\ LazyShape'
<1>1. /\ lazy' = [k \in Jits |-> lazy'[k]]
      /\ \A k \in Jits : IsMap(lazy'[k]) /\ DOMAIN lazy'[k] = DOMAIN lazy[k]
      /\ \A k \in Jits : \A x \in DOMAIN lazy[k] : k # j \/ x # n => lazy'[k][x] = lazy[k][x]
  BY DEF Updated
<1>2. SameFn(lazy'[j][n], lazy[j][n]) /\ IsEntry(lazy'[j][n]) BY DEF Updated, SameFn, IsEntry
<1>3. \A k \in Jits : \A x \in DOMAIN lazy[k] : IsEntry(lazy[k][x]) BY DEF LazyShape
<1>4. \A k \in Jits : \A x \in DOMAIN lazy[k] : SameFn(lazy'[k][x], lazy[k][x]) /\ IsEntry(lazy'[k][x])
  <2> TAKE k \in Jits
  <2> TAKE x \in DOMAIN lazy[k]
  <2>1. CASE k = j /\ x = n BY <2>1, <1>2
  <2>2. CASE k # j \/ x # n
    <3>1. lazy'[k][x] = lazy[k][x] BY <2>2, <1>1
    <3> QED BY <3>1, <1>3 DEF SameFn
  <2> QED BY <2>1, <2>2
<1> QED BY <1>1, <1>4 DEF Grows, LazyShape

(* Entries keep their signatures.                                          *)
LEMMA SignedKept ==
    ASSUME Signed, Grows, \A k \in Jits : DOMAIN lazy'[k] = DOMAIN lazy[k]
    PROVE  Signed'
BY DEF Signed, SignedEntry, Grows, SameFn

---------------------------------------------------------------------------
(* What a step leaves alone.                                               *)

(* What an entry compiles to is a product.                                 *)
LEMMA OutIsProduct ==
    ASSUME Signed, NEW j \in Jits, NEW n \in DOMAIN lazy[j]
    PROVE  Product(Out(j, n)) /\ Len(Out(j, n).cells) \in Nat /\
               DOMAIN Out(j, n).cells = 1..Len(Out(j, n).cells)
<1>1. Product(Out(j, n)) BY CompileIsProduct DEF Signed, SignedEntry, Out
<1>2. Listing(Out(j, n).cells) BY <1>1 DEF Product
<1> QED BY <1>1, <1>2, ListingLen

(* Cells from + 1 .. from + len of a buffer are as they were.              *)
Untouched(j, from, len) == \A i \in 1..len : code'[j][from + i] = code[j][from + i]
NotShorter(j) == Len(code[j]) \in Nat /\ Len(code'[j]) \in Nat /\ Len(code[j]) <= Len(code'[j])

(* A step that leaves a frame its entry and its stretch of the buffer      *)
(* keeps it in order.                                                      *)
LEMMA FrameKept ==
    ASSUME Signed, Grows, NEW f, FrameOK(f),
           lazy'[f.j][f.n].state = "compiling", lazy'[f.j][f.n].addr = lazy[f.j][f.n].addr,
           NotShorter(f.j), Untouched(f.j, f.base, Len(f.cells))
    PROVE  FrameOK(f)'
<1>1. /\ f.j \in Jits /\ f.n \in DOMAIN lazy[f.j]
      /\ f.base \in Nat /\ lazy[f.j][f.n].addr = f.base + 1
      /\ f.cells = Out(f.j, f.n).cells /\ f.relocs = Out(f.j, f.n).relocs
      /\ f.base + Len(f.cells) <= Len(code[f.j])
      /\ \A i \in DOMAIN f.cells : code[f.j][f.base + i] = f.cells[i]
  BY DEF FrameOK
<1>2. Out(f.j, f.n)' = Out(f.j, f.n) BY <1>1, OutKept
<1>3. Len(f.cells) \in Nat /\ DOMAIN f.cells = 1..Len(f.cells) BY <1>1, OutIsProduct
<1>4. f.n \in DOMAIN lazy'[f.j] BY <1>1 DEF Grows
<1>5. f.base + Len(f.cells) <= Len(code'[f.j]) BY <1>1, <1>3 DEF NotShorter
<1>6. \A i \in DOMAIN f.cells : code'[f.j][f.base + i] = f.cells[i] BY <1>1, <1>3 DEF Untouched
<1> QED BY <1>1, <1>2, <1>4, <1>5, <1>6 DEF FrameOK

(* Code stays in place where a step does not touch it.                     *)
LEMMA PlacedKept ==
    ASSUME Signed, Grows, NEW j \in Jits, NEW n \in DOMAIN lazy[j], NEW at \in Nat, PlacedAt(j, n, at),
           NotShorter(j), Untouched(j, at, Len(Out(j, n).cells))
    PROVE  PlacedAt(j, n, at)'
<1>1. Out(j, n)' = Out(j, n) BY OutKept
<1>2. Len(Out(j, n).cells) \in Nat /\ DOMAIN Out(j, n).cells = 1..Len(Out(j, n).cells) BY OutIsProduct
<1>3. PICK out : out = Out(j, n) OBVIOUS
<1>4. /\ at + Len(out.cells) <= Len(code[j])
      /\ \A i \in DOMAIN out.cells : [code[j][at + i] EXCEPT !.addr = 0] = out.cells[i]
      /\ \A i \in DOMAIN out.cells : \A r \in out.relocs : r.off = i =>
             code[j][at + i].addr \in Starts(j, r.sym)
  BY <1>3, Zenon DEF PlacedAt
<1>5. at + Len(out.cells) <= Len(code'[j]) BY <1>2, <1>3, <1>4 DEF NotShorter
<1>6. \A i \in DOMAIN out.cells : code'[j][at + i] = code[j][at + i] BY <1>2, <1>3 DEF Untouched
<1>7. \A i \in DOMAIN out.cells : \A r \in out.relocs : r.off = i =>
          code'[j][at + i].addr \in Starts(j, r.sym)'
  <2> TAKE i \in DOMAIN out.cells
  <2> TAKE r \in out.relocs
  <2> HAVE r.off = i
  <2>1. code[j][at + i].addr \in Starts(j, r.sym) BY <1>4
  <2>2. code'[j][at + i].addr = code[j][at + i].addr BY <1>6
  <2>3. PICK x, s : x = code[j][at + i].addr /\ s = r.sym OBVIOUS
  <2>4. x \in Starts(j, s)' BY <2>1, <2>3, StartsGrow
  <2> QED BY <2>2, <2>3, <2>4
<1>8. \A i \in DOMAIN out.cells : [code'[j][at + i] EXCEPT !.addr = 0] = out.cells[i]
  BY <1>4, <1>6, Zenon
<1>9. out = Out(j, n)' BY <1>1, <1>3
<1> QED BY <1>5, <1>7, <1>8, <1>9, Zenon DEF PlacedAt

(* Two stretches of a buffer do not meet.                                  *)
Apart(a, m, b, n) == a + m <= b \/ b + n <= a

(* A ready function whose address and code a step leaves alone stays in    *)
(* order.                                                                  *)
LEMMA ReadyKept ==
    ASSUME Signed, Grows, NEW j \in Jits, NEW n \in DOMAIN lazy[j], ReadyOK(j, n),
           n \in DOMAIN syms'[j], syms'[j][n] = syms[j][n],
           NotShorter(j), Untouched(j, syms[j][n] - 1, Len(Out(j, n).cells)),
           \A k \in DOMAIN stack' : stack'[k].j = j =>
              Apart(syms[j][n] - 1, Len(Out(j, n).cells), stack'[k].base, Len(stack'[k].cells))
    PROVE  ReadyOK(j, n)'
<1>1. PICK at : at = syms[j][n] - 1 OBVIOUS
<1>2. at \in Nat /\ syms[j][n] \in Nat \ {0} BY <1>1 DEF ReadyOK
<1>3. PlacedAt(j, n, at) BY <1>1 DEF ReadyOK
<1>4. PlacedAt(j, n, at)' BY <1>1, <1>2, <1>3, PlacedKept
<1>5. Out(j, n)' = Out(j, n) BY OutKept
<1>6. PlacedAt(j, n, syms[j][n] - 1)' BY <1>1, <1>4
<1> QED BY <1>2, <1>5, <1>6 DEF ReadyOK, Apart

---------------------------------------------------------------------------
(* The start of a materialization.                                         *)

(* Placing what a pending function compiles to, at the end of the buffer,  *)
(* keeps the invariant.                                                    *)
LEMMA PlaceKeeps ==
    ASSUME JitsInv, NEW j \in Jits, NEW n \in DOMAIN lazy[j], lazy[j][n].state = "pending", Idle \/ j =
               Top.j,
           NEW out, out.cells = Out(j, n).cells, out.relocs = Out(j, n).relocs, NEW scratch, NEW made,
           Place(j, n, out, scratch, made), target' = target, syms' = syms, had' = had
    PROVE  JitsInv'
<1>1. PICK base : base = Len(code[j]) OBVIOUS
<1>2. base \in Nat /\ Listing(code[j]) BY <1>1, ListingLen DEF JitsInv, Shape, CodeShape
<1>3. PICK fr : fr = [j |-> j, n |-> n, scratch |-> scratch, cells |-> out.cells,
               relocs |-> out.relocs, base |-> base]
  OBVIOUS
<1>4. /\ code' = [code EXCEPT ![j] = @ \o out.cells]
      /\ lazy' = [lazy EXCEPT ![j][n].state = "compiling", ![j][n].addr = base + 1]
      /\ stack' = Append(stack, fr)
      /\ log' = log \cup {[j |-> j, n |-> n, base |-> base, made |-> made, placed |-> age]}
  BY <1>1, <1>3 DEF Place
<1>5. Updated(j, n, "compiling", base + 1) BY <1>4, UpdateEntry DEF JitsInv, Shape
<1>6. Grows /\ LazyShape'
  <2>1. log \subseteq log' /\ had \subseteq had' BY <1>4
  <2> QED BY <2>1, <1>5, UpdatedGrows DEF JitsInv, Shape
<1>7. \A k \in Jits : DOMAIN lazy'[k] = DOMAIN lazy[k] BY <1>5 DEF Updated
<1>8. Signed' BY <1>6, <1>7, SignedKept DEF JitsInv
<1>9. Product(Out(j, n)) /\ Len(out.cells) \in Nat /\ DOMAIN out.cells = 1..Len(out.cells) /\
          Listing(out.cells)
  BY OutIsProduct DEF JitsInv, Product
<1>10. /\ code = [k \in Jits |-> code[k]] /\ \A k \in Jits : Listing(code[k])
  BY DEF JitsInv, Shape, CodeShape
<1>11. /\ code' = [k \in Jits |-> code'[k]] /\ code'[j] = code[j] \o out.cells
       /\ \A k \in Jits : k # j => code'[k] = code[k]
  BY <1>4, <1>10
<1>12. /\ Listing(code'[j]) /\ Len(code'[j]) = base + Len(out.cells)
       /\ \A i \in 1..base : code'[j][i] = code[j][i]
       /\ \A i \in 1..Len(out.cells) : code'[j][base + i] = out.cells[i]
  <2>1. PICK s, t : s = code[j] /\ t = out.cells OBVIOUS
  <2>2. Listing(s) /\ Listing(t) BY <2>1, <1>2, <1>9
  <2>3. /\ Listing(s \o t) /\ Len(s \o t) = Len(s) + Len(t)
        /\ \A i \in 1..Len(s) : (s \o t)[i] = s[i]
        /\ \A i \in 1..Len(t) : (s \o t)[Len(s) + i] = t[i]
    BY <2>2, ListingConcat
  <2>4. PICK u : u = s \o t OBVIOUS
  <2>5. code'[j] = u BY <2>1, <2>4, <1>11
  <2>6. base = Len(s) BY <2>1, <1>1
  <2> QED BY <2>1, <2>3, <2>4, <2>5, <2>6, ZenonT(60)
<1>13. CodeShape' BY <1>10, <1>11, <1>12 DEF CodeShape
<1>14. \A k \in Jits : Len(code[k]) \in Nat BY <1>10, ListingLen
<1>15. \A k \in Jits : NotShorter(k) /\ \A i \in 1..Len(code[k]) : code'[k][i] = code[k][i]
  <2> TAKE k \in Jits
  <2>1. CASE k = j
    <3>1. Len(code[j]) = base /\ Len(code'[j]) = base + Len(out.cells) BY <1>1, <1>12
    <3>2. NotShorter(j) BY <3>1, <1>2, <1>9 DEF NotShorter
    <3>3. \A i \in 1..Len(code[j]) : code'[j][i] = code[j][i] BY <3>1, <1>12
    <3> QED BY <2>1, <3>2, <3>3
  <2>2. CASE k # j BY <2>2, <1>11, <1>14 DEF NotShorter
  <2> QED BY <2>1, <2>2
<1>16. \A k \in Jits : \A b, l \in Nat : b + l <= Len(code[k]) => Untouched(k, b, l)
  BY <1>14, <1>15 DEF Untouched
<1>17. Listing(stack) BY DEF JitsInv, Shape
<1>18. Len(stack) \in Nat /\ DOMAIN stack = 1..Len(stack) BY <1>17, ListingLen
<1>19. /\ Listing(stack') /\ Len(stack') = Len(stack) + 1 /\ stack'[Len(stack) + 1] = fr
       /\ \A i \in 1..Len(stack) : stack'[i] = stack[i]
  BY <1>4, <1>17, ListingAppend
<1>20. DOMAIN stack' = 1..(Len(stack) + 1) BY <1>19, ListingLen
<1>21. fr.j = j /\ fr.n = n /\ fr.cells = out.cells /\ fr.relocs = out.relocs /\ fr.base = base BY <1>3
<1>22. SymsShape' /\ KnownSyms' BY DEF JitsInv, Shape, SymsShape, KnownSyms
<1>23. \A i \in 1..Len(stack) : FrameOK(stack[i]) /\ stack[i].j = j /\ stack[i].n # n
  <2> TAKE i \in 1..Len(stack)
  <2>1. FrameOK(stack[i]) BY <1>18 DEF JitsInv, FramesOK
  <2>2. ~Idle /\ Len(stack) > 0 BY <1>17, <1>18 DEF Idle
  <2>3. stack[i].j = j BY <2>2, <1>18 DEF JitsInv, FramesApart, Top
  <2>4. stack[i].n # n BY <2>1, <2>3 DEF FrameOK
  <2> QED BY <2>1, <2>3, <2>4
<1>24. \A i \in 1..Len(stack) : stack[i].base \in Nat /\ Len(stack[i].cells) \in Nat
                               /\ stack[i].base + Len(stack[i].cells) <= base
  <2> TAKE i \in 1..Len(stack)
  <2>1. PICK f : f = stack[i] OBVIOUS
  <2>2. f.j = j /\ f.j \in Jits /\ f.n \in DOMAIN lazy[f.j] /\ f.base \in Nat /\
            f.cells = Out(f.j, f.n).cells
        /\ f.base + Len(f.cells) <= Len(code[f.j])
    BY <2>1, <1>23 DEF FrameOK
  <2>3. Len(f.cells) \in Nat BY <2>2, OutIsProduct DEF JitsInv
  <2> QED BY <2>1, <2>2, <2>3, <1>1
<1>25. FramesOK'
  <2>1. \A i \in 1..Len(stack) : \A f : f = stack[i] => FrameOK(f)'
    <3> TAKE i \in 1..Len(stack)
    <3> SUFFICES ASSUME NEW f, f = stack[i] PROVE FrameOK(f)' OBVIOUS
    <3>1. FrameOK(f) /\ f.j = j /\ f.n # n BY <1>23
    <3>2. f.n \in DOMAIN lazy[j] /\ lazy[j][f.n].state = "compiling" BY <3>1 DEF FrameOK
    <3>3. lazy'[j][f.n] = lazy[j][f.n] BY <3>1, <3>2, <1>5 DEF Updated
    <3>4. f.base \in Nat /\ Len(f.cells) \in Nat /\ f.base + Len(f.cells) <= Len(code[j]) BY <1>1, <1>24
    <3>5. NotShorter(f.j) /\ Untouched(f.j, f.base, Len(f.cells)) BY <3>1, <3>4, <1>15, <1>16
    <3> QED BY <3>1, <3>2, <3>3, <3>5, <1>6, FrameKept DEF JitsInv
  <2>2. FrameOK(fr)'
    <3>1. Out(j, n)' = Out(j, n) BY <1>6, OutKept
    <3>2. lazy'[j][n].state = "compiling" /\ lazy'[j][n].addr = base + 1 BY <1>5 DEF Updated
    <3>3. base + Len(out.cells) <= Len(code'[j]) BY <1>2, <1>9, <1>12
    <3> QED BY <3>1, <3>2, <3>3, <1>2, <1>7, <1>9, <1>12, <1>21 DEF FrameOK
  <2>3. \A i \in DOMAIN stack' : \A f : f = stack'[i] => FrameOK(f)' BY <2>1, <2>2, <1>18, <1>19, <1>20
  <2> QED BY <2>3 DEF FramesOK
<1>26. FramesApart'
  <2> SUFFICES ASSUME NEW i \in DOMAIN stack', NEW k \in DOMAIN stack'
               PROVE  /\ stack'[i].j = stack'[k].j
                      /\ i < k => stack'[i].n # stack'[k].n /\
                             stack'[i].base + Len(stack'[i].cells) <= stack'[k].base
    BY DEF FramesApart
  <2>1. i \in 1..(Len(stack) + 1) /\ k \in 1..(Len(stack) + 1) BY <1>20
  <2>2. CASE i \in 1..Len(stack) /\ k \in 1..Len(stack)
    BY <2>2, <1>18, <1>19 DEF JitsInv, FramesApart
  <2>3. CASE i \in 1..Len(stack) /\ k = Len(stack) + 1
    BY <2>3, <1>19, <1>21, <1>23, <1>24
  <2>4. CASE i = Len(stack) + 1
    <3>1. ~(i < k) BY <2>1, <2>4, <1>18
    <3>2. stack'[k].j = j
      <4>1. CASE k \in 1..Len(stack) BY <4>1, <1>19, <1>23
      <4>2. CASE k = Len(stack) + 1 BY <4>2, <1>19, <1>21
      <4> QED BY <4>1, <4>2, <2>1, <1>18
    <3> QED BY <3>1, <3>2, <2>4, <1>19, <1>21
  <2> QED BY <2>1, <2>2, <2>3, <2>4, <1>18
<1>27. KnownCode'
  <2> SUFFICES ASSUME NEW k \in Jits, NEW x \in DOMAIN lazy'[k], lazy'[k][x].addr # 0
               PROVE  \E z \in log' : z.j = k /\ z.n = x /\ z.base + 1 = lazy'[k][x].addr
    BY DEF KnownCode
  <2>1. CASE k = j /\ x = n
    <3>1. lazy'[k][x].addr = base + 1 BY <2>1, <1>5 DEF Updated
    <3>2. PICK z : z = [j |-> j, n |-> n, base |-> base, made |-> made, placed |-> age] OBVIOUS
    <3>3. z \in log' /\ z.j = j /\ z.n = n /\ z.base = base BY <3>2, <1>4
    <3> QED BY <2>1, <3>1, <3>3
  <2>2. CASE k # j \/ x # n
    <3>1. x \in DOMAIN lazy[k] /\ lazy'[k][x] = lazy[k][x] BY <2>2, <1>5, <1>7 DEF Updated
    <3>2. log \subseteq log' BY <1>4
    <3> QED BY <3>1, <3>2 DEF JitsInv, KnownCode
  <2> QED BY <2>1, <2>2
<1>28. Published'
  <2> SUFFICES ASSUME NEW k \in Jits, NEW x \in DOMAIN lazy'[k], lazy'[k][x].state = "ready"
               PROVE  ReadyOK(k, x)'
    BY DEF Published
  <2>1. k # j \/ x # n BY <1>5 DEF Updated
  <2>2. x \in DOMAIN lazy[k] /\ lazy'[k][x] = lazy[k][x] BY <2>1, <1>5, <1>7 DEF Updated
  <2>3. ReadyOK(k, x) BY <2>2 DEF JitsInv, Published
  <2>4. PICK at, len : at = syms[k][x] - 1 /\ len = Len(Out(k, x).cells) OBVIOUS
  <2>5. at \in Nat BY <2>3, <2>4 DEF ReadyOK
  <2>6. len \in Nat BY <2>2, <2>4, OutIsProduct DEF JitsInv
  <2>7. at + len <= Len(code[k]) BY <2>3, <2>4 DEF ReadyOK, PlacedAt
  <2>8. Untouched(k, at, len) /\ NotShorter(k) BY <2>5, <2>6, <2>7, <1>15, <1>16
  <2>9. \A i \in DOMAIN stack' : stack'[i].j = k => Apart(at, len, stack'[i].base, Len(stack'[i].cells))
    <3> SUFFICES ASSUME NEW i \in DOMAIN stack', stack'[i].j = k
                 PROVE  Apart(at, len, stack'[i].base, Len(stack'[i].cells))
      OBVIOUS
    <3>1. CASE i \in 1..Len(stack) BY <3>1, <2>3, <2>4, <1>18, <1>19 DEF ReadyOK, Apart
    <3>2. CASE i = Len(stack) + 1
      <4>1. k = j /\ stack'[i].base = base BY <3>2, <1>19, <1>21
      <4> QED BY <4>1, <2>7, <1>1 DEF Apart
    <3> QED BY <3>1, <3>2, <1>18, <1>20
  <2>10. x \in DOMAIN syms'[k] /\ syms'[k][x] = syms[k][x] BY <2>3 DEF ReadyOK
  <2> QED BY <2>2, <2>3, <2>4, <2>8, <2>9, <2>10, <1>6, ReadyKept DEF JitsInv
<1> QED BY <1>6, <1>8, <1>13, <1>19, <1>22, <1>25, <1>26, <1>27, <1>28 DEF JitsInv, Shape

(* A hit: by SignatureFixesCode the stored code is what the function       *)
(* compiles to.                                                            *)
LEMMA HitKeeps ==
    ASSUME VectorsAlike, AbisAlike, JitsInv, CacheCompiled, NEW j \in Jits, NEW n \in DOMAIN lazy[j],
           lazy[j][n].state = "pending", Idle \/ j = Top.j, EnterHit(j, n)
    PROVE  JitsInv' /\ CacheCompiled'
<1>1. PICK e \in Matching(j, lazy[j][n]) :
        /\ Place(j, n, [cells |-> e.cells, relocs |-> e.relocs], FALSE, e.age)
        /\ target' = target /\ cache' = cache /\ syms' = syms /\ had' = had
  BY DEF EnterHit
<1>2. CacheCompiled' BY <1>1 DEF CacheCompiled, CompiledEntry
<1>3. e \in cache /\ Key(e) = KeyOf(j, lazy[j][n]) BY DEF Matching
<1>4. e.target = target[j] /\ e.msig = lazy[j][n].msig /\ e.fsig = lazy[j][n].fsig
  BY <1>3 DEF Key, KeyOf
<1>5. PICK m \in AllModules : \E f \in Range(m.funcs) :
        /\ e.msig = SigModule(m) /\ e.fsig = SigFunction(m, f)
        /\ e.cells = Compile(e.target, m, f).cells /\ e.relocs = Compile(e.target, m, f).relocs
  BY <1>3 DEF CacheCompiled, CompiledEntry
<1>0. PICK f \in Range(m.funcs) :
        /\ e.msig = SigModule(m) /\ e.fsig = SigFunction(m, f)
        /\ e.cells = Compile(e.target, m, f).cells /\ e.relocs = Compile(e.target, m, f).relocs
  BY <1>5
<1>6. PICK m2, f2, t : m2 = lazy[j][n].module /\ f2 = lazy[j][n].func /\ t = target[j] OBVIOUS
<1>7. /\ m2 \in AllModules /\ f2 \in Range(m2.funcs)
      /\ lazy[j][n].msig = SigModule(m2) /\ lazy[j][n].fsig = SigFunction(m2, f2)
  BY <1>6 DEF JitsInv, Signed, SignedEntry
<1>8. Compile(t, m, f) = Compile(t, m2, f2)
  <2>1. SigModule(m) = SigModule(m2) /\ SigFunction(m, f) = SigFunction(m2, f2) BY <1>4, <1>0, <1>7
  <2>2. m2 \in AllModules /\ f2 \in Range(m2.funcs) BY <1>7
  <2> QED BY <2>1, <2>2, SignatureFixesCode
<1>9. Out(j, n) = Compile(t, m2, f2) BY <1>6 DEF Out
<1>10. e.cells = Out(j, n).cells /\ e.relocs = Out(j, n).relocs BY <1>4, <1>0, <1>6, <1>8, <1>9
<1>11. PICK out : out = [cells |-> e.cells, relocs |-> e.relocs] OBVIOUS
<1>12. out.cells = Out(j, n).cells /\ out.relocs = Out(j, n).relocs BY <1>10, <1>11
<1>13. JitsInv' BY <1>1, <1>11, <1>12, PlaceKeeps
<1> QED BY <1>2, <1>13

(* What is kept of an entry in the cache is what it compiles to.           *)
LEMMA EntryCompiled ==
    ASSUME Signed, NEW j \in Jits, NEW n \in DOMAIN lazy[j], NEW out, NEW when,
           out.cells = Out(j, n).cells, out.relocs = Out(j, n).relocs
    PROVE  CompiledEntry(Entry(j, lazy[j][n], out, when))
<1>1. PICK e : e = Entry(j, lazy[j][n], out, when) OBVIOUS
<1>2. /\ e.target = target[j] /\ e.msig = lazy[j][n].msig /\ e.fsig = lazy[j][n].fsig
      /\ e.cells = out.cells /\ e.relocs = out.relocs
  BY <1>1 DEF Entry
<1>3. PICK m, f : m = lazy[j][n].module /\ f = lazy[j][n].func OBVIOUS
<1>4. m \in AllModules /\ f \in Range(m.funcs) /\ e.msig = SigModule(m) /\ e.fsig = SigFunction(m, f)
  BY <1>2, <1>3 DEF Signed, SignedEntry
<1>5. Out(j, n) = Compile(e.target, m, f) BY <1>2, <1>3 DEF Out
<1>6. CompiledEntry(e) BY <1>2, <1>4, <1>5 DEF CompiledEntry
<1> QED BY <1>1, <1>6

(* A miss, with or without a prefetch.                                     *)
LEMMA MissKeeps ==
    ASSUME JitsInv, CacheCompiled, NEW j \in Jits, NEW n \in DOMAIN lazy[j],
           lazy[j][n].state = "pending", Idle \/ j = Top.j, EnterMiss(j, n)
    PROVE  JitsInv' /\ CacheCompiled'
<1>1. Place(j, n, Out(j, n), TRUE, age) /\ target' = target /\ syms' = syms /\ had' = had
  BY DEF EnterMiss, Out
<1>2. PICK out, when : out = Out(j, n) /\ when = age OBVIOUS
<1>3. Place(j, n, out, TRUE, when) BY <1>1, <1>2
<1>4. JitsInv' BY <1>1, <1>2, <1>3, PlaceKeeps
<1>5. PICK S : cache' = Prefetched(j, S) /\ S \subseteq DOMAIN lazy[j]
  BY DEF EnterMiss, Prefetchable
<1>6. \A e \in cache' : CompiledEntry(e)
  <2> TAKE e \in cache'
  <2>1. CASE e \in cache BY <2>1 DEF CacheCompiled
  <2>2. CASE e \notin cache
    <3>1. PICK x \in S : e = Entry(j, lazy[j][x], Compile(target[j], lazy[j][x].module,
                   lazy[j][x].func), age)
      BY <1>5, <2>2 DEF Prefetched
    <3>2. e = Entry(j, lazy[j][x], Out(j, x), age) BY <3>1 DEF Out
    <3>3. PICK o, w : o = Out(j, x) /\ w = age OBVIOUS
    <3>4. x \in DOMAIN lazy[j] BY <1>5
    <3>5. CompiledEntry(Entry(j, lazy[j][x], o, w)) BY <3>3, <3>4, EntryCompiled DEF JitsInv
    <3> QED BY <3>2, <3>3, <3>5
  <2> QED BY <2>1, <2>2
<1>7. CacheCompiled' BY <1>6 DEF CacheCompiled, CompiledEntry
<1> QED BY <1>4, <1>7

(* Giving up everything under way: what was placed is dead code.           *)
LEMMA GiveUpKeeps ==
    ASSUME JitsInv, NEW j \in Jits, GiveUp(j), target' = target, syms' = syms, code' = code, log' =
               log, had' = had
    PROVE  JitsInv'
<1>0. Shape /\ Signed /\ KnownCode /\ KnownSyms /\ Published BY DEF JitsInv
<1> DEFINE onStack(x) == \E i \in DOMAIN stack : stack[i].n = x
<1>1. /\ lazy = [k \in Jits |-> lazy[k]]
      /\ \A k \in Jits : IsMap(lazy[k]) /\ \A n \in DOMAIN lazy[k] : IsEntry(lazy[k][n])
  BY <1>0 DEF Shape, LazyShape
<1>2. /\ lazy' = [k \in Jits |-> lazy'[k]]
      /\ \A k \in Jits : k # j => lazy'[k] = lazy[k]
      /\ lazy'[j] = [n \in DOMAIN lazy[j] |->
                        IF onStack(n) THEN [lazy[j][n] EXCEPT !.state = "pending", !.addr =
                            0] ELSE lazy[j][n]]
  BY <1>1 DEF GiveUp
<1> HIDE DEF onStack
<1>3. \A k \in Jits : IsMap(lazy'[k]) /\ DOMAIN lazy'[k] = DOMAIN lazy[k] BY <1>1, <1>2 DEF IsMap
<1>4. \A k \in Jits : \A n \in DOMAIN lazy[k] :
         /\ SameFn(lazy'[k][n], lazy[k][n]) /\ IsEntry(lazy'[k][n])
         /\ lazy'[k][n] = lazy[k][n] \/ (lazy'[k][n].state = "pending" /\ lazy'[k][n].addr = 0)
  <2> TAKE k \in Jits
  <2> TAKE n \in DOMAIN lazy[k]
  <2>1. CASE k = j /\ onStack(n)
    <3>1. PICK e : e = lazy[j][n] OBVIOUS
    <3>2. IsEntry(e) BY <1>1, <2>1, <3>1
    <3>3. lazy'[j][n] = [[e EXCEPT !.state = "pending"] EXCEPT !.addr = 0] BY <1>2, <2>1, <3>1
    <3>4. lazy'[j][n] = [module |-> e.module, func |-> e.func, msig |-> e.msig, fsig |-> e.fsig,
                         state |-> "pending", addr |-> 0]
      BY <3>2, <3>3, EntryUpdate
    <3> QED BY <2>1, <3>1, <3>4 DEF SameFn, IsEntry
  <2>2. CASE ~(k = j /\ onStack(n))
    <3>1. lazy'[k][n] = lazy[k][n] BY <2>2, <1>2
    <3> QED BY <3>1, <1>1 DEF SameFn
  <2> QED BY <2>1, <2>2
<1>5. Grows BY <1>3, <1>4 DEF Grows
<1>6. LazyShape' BY <1>2, <1>3, <1>4 DEF LazyShape
<1>7. stack' = <<>> BY DEF GiveUp
<1>8. Listing(stack') /\ DOMAIN stack' = {} BY <1>7 DEF Listing, Range
<1>9. Shape' BY <1>0, <1>6, <1>8 DEF Shape, SymsShape, CodeShape
<1>10. Signed' BY <1>0, <1>3, <1>5, SignedKept
<1>11. FramesOK' /\ FramesApart' BY <1>8 DEF FramesOK, FramesApart
<1>12. KnownSyms' BY <1>0 DEF KnownSyms
<1>13. KnownCode' BY <1>0, <1>3, <1>4 DEF KnownCode
<1>14. Published'
  <2> SUFFICES ASSUME NEW k \in Jits, NEW x \in DOMAIN lazy'[k], lazy'[k][x].state = "ready"
               PROVE  ReadyOK(k, x)'
    BY DEF Published
  <2>1. x \in DOMAIN lazy[k] /\ lazy'[k][x] = lazy[k][x] BY <1>3, <1>4
  <2>2. ReadyOK(k, x) BY <2>1, <1>0 DEF Published
  <2>3. Len(code[k]) \in Nat BY <1>0, ListingLen DEF Shape, CodeShape
  <2>4. NotShorter(k) BY <2>3 DEF NotShorter
  <2>5. PICK at, len : at = syms[k][x] - 1 /\ len = Len(Out(k, x).cells) OBVIOUS
  <2>6. Untouched(k, at, len) BY DEF Untouched
  <2>7. x \in DOMAIN syms'[k] /\ syms'[k][x] = syms[k][x] BY <2>2 DEF ReadyOK
  <2> QED BY <2>1, <2>2, <2>4, <2>5, <2>6, <2>7, <1>0, <1>5, <1>8, ReadyKept
<1> QED BY <1>9, <1>10, <1>11, <1>12, <1>13, <1>14 DEF JitsInv

(* All the ways in which a materialization starts.                         *)
LEMMA EnterKeeps ==
    ASSUME VectorsAlike, AbisAlike, JitsInv, CacheCompiled, NEW j \in Jits, NEW n, Idle \/ j = Top.j, Enter(j, n)
    PROVE  JitsInv' /\ CacheCompiled'
<1>1. n \in DOMAIN lazy[j] /\ lazy[j][n].state = "pending" BY DEF Enter, Callable
<1>2. CASE EnterHit(j, n) BY <1>1, <1>2, HitKeeps
<1>3. CASE EnterMiss(j, n) BY <1>1, <1>3, MissKeeps
<1>4. CASE EnterFull(j, n)
  <2>1. GiveUp(j) /\ target' = target /\ syms' = syms /\ code' = code /\ log' = log /\ had' = had /\
            cache' = cache
    BY <1>4 DEF EnterFull
  <2>2. JitsInv' BY <2>1, GiveUpKeeps
  <2> QED BY <2>1, <2>2 DEF CacheCompiled, CompiledEntry
<1> QED BY <1>2, <1>3, <1>4 DEF Enter

---------------------------------------------------------------------------
(* Names and modules.                                                      *)

Bound(j, new) ==
    /\ SymsShape' /\ KnownSyms' /\ had \subseteq had'
    /\ \A k \in Jits : k # j => syms'[k] = syms[k]
    /\ \A x \in DOMAIN new : x \in DOMAIN syms'[j] /\ syms'[j][x] = new[x]
    /\ \A x \in DOMAIN syms[j] : x \in DOMAIN syms'[j] /\ (x \notin DOMAIN new => syms'[j][x] = syms[j][x])

(* What binding names changes.                                             *)
LEMMA BindBinds ==
    ASSUME SymsShape, KnownSyms, NEW j \in Jits, NEW new, Bind(j, new)
    PROVE  Bound(j, new)
<1>1. syms = [k \in Jits |-> syms[k]] /\ \A k \in Jits : IsMap(syms[k]) BY DEF SymsShape
<1>2. /\ syms' = [syms EXCEPT ![j] = Over(new, @)]
      /\ had' = had \cup {[j |-> j, n |-> n, addr |-> new[n]] : n \in DOMAIN new}
  BY DEF Bind
<1>3. syms' = [k \in Jits |-> syms'[k]] /\ syms'[j] = Over(new, syms[j]) /\ \A k \in Jits : k # j =>
          syms'[k] = syms[k]
  BY <1>1, <1>2
<1>4. syms'[j] = [n \in DOMAIN new \cup DOMAIN syms[j] |-> IF n \in DOMAIN new THEN new[n] ELSE syms[j][n]]
  BY <1>3 DEF Over
<1>5. IsMap(syms'[j]) /\ DOMAIN syms'[j] = DOMAIN new \cup DOMAIN syms[j]
  BY <1>4 DEF IsMap
<1>6. \A x \in DOMAIN new : syms'[j][x] = new[x] BY <1>4
<1>7. \A x \in DOMAIN syms[j] : x \notin DOMAIN new => syms'[j][x] = syms[j][x] BY <1>4
<1>8. SymsShape' BY <1>1, <1>3, <1>5 DEF SymsShape
<1>9. had \subseteq had' BY <1>2
<1>10. KnownSyms'
  <2> SUFFICES ASSUME NEW k \in Jits, NEW s \in DOMAIN syms'[k]
               PROVE  [j |-> k, n |-> s, addr |-> syms'[k][s]] \in had'
    BY DEF KnownSyms
  <2>1. CASE k = j /\ s \in DOMAIN new
    <3>1. [j |-> j, n |-> s, addr |-> new[s]] \in had' BY <1>2, <2>1
    <3> QED BY <3>1, <2>1, <1>6
  <2>2. CASE ~(k = j /\ s \in DOMAIN new)
    <3>1. s \in DOMAIN syms[k] /\ syms'[k][s] = syms[k][s] BY <2>2, <1>3, <1>5, <1>7
    <3>2. [j |-> k, n |-> s, addr |-> syms[k][s]] \in had BY <3>1 DEF KnownSyms
    <3> QED BY <3>1, <3>2, <1>9
  <2> QED BY <2>1, <2>2
<1> QED BY <1>3, <1>5, <1>6, <1>7, <1>8, <1>9, <1>10 DEF Bound

(* A step that writes no code and starts or ends nothing, and leaves the   *)
(* ready functions where they are.                                         *)
LEMMA NothingPlaced ==
    ASSUME JitsInv, LazyShape', SymsShape', KnownSyms', Signed', Grows, stack' = stack, code' =
               code, log' = log,
           \A k \in Jits : \A x \in DOMAIN lazy[k] : lazy'[k][x] = lazy[k][x],
           \A k \in Jits : \A x \in DOMAIN lazy'[k] \ DOMAIN lazy[k] :
              lazy'[k][x].state = "pending" /\ lazy'[k][x].addr = 0,
           \A k \in Jits : \A x \in DOMAIN lazy[k] : lazy[k][x].state = "ready" =>
              x \in DOMAIN syms'[k] /\ syms'[k][x] = syms[k][x]
    PROVE  JitsInv'
<1>0. Shape /\ Signed /\ FramesOK /\ FramesApart /\ KnownCode /\ Published BY DEF JitsInv
<1>1. Shape' BY <1>0 DEF Shape, CodeShape
<1>2. \A k \in Jits : NotShorter(k)
  <2> TAKE k \in Jits
  <2>1. Len(code[k]) \in Nat BY <1>0, ListingLen DEF Shape, CodeShape
  <2> QED BY <2>1 DEF NotShorter
<1>3. FramesOK'
  <2>1. \A i \in DOMAIN stack : \A f : f = stack[i] => FrameOK(f)'
    <3> TAKE i \in DOMAIN stack
    <3> SUFFICES ASSUME NEW f, f = stack[i] PROVE FrameOK(f)' OBVIOUS
    <3>1. FrameOK(f) BY <1>0 DEF FramesOK
    <3>2. f.j \in Jits /\ f.n \in DOMAIN lazy[f.j] /\ lazy[f.j][f.n].state = "compiling" BY <3>1 DEF FrameOK
    <3>3. lazy'[f.j][f.n] = lazy[f.j][f.n] BY <3>2
    <3>4. Untouched(f.j, f.base, Len(f.cells)) BY DEF Untouched
    <3> QED BY <3>1, <3>2, <3>3, <3>4, <1>0, <1>2, FrameKept
  <2>2. \A i \in DOMAIN stack' : \A f : f = stack'[i] => FrameOK(f)' BY <2>1
  <2> QED BY <2>2 DEF FramesOK
<1>4. FramesApart' BY <1>0 DEF FramesApart
<1>5. KnownCode' BY <1>0 DEF KnownCode
<1>6. Published'
  <2> SUFFICES ASSUME NEW k \in Jits, NEW x \in DOMAIN lazy'[k], lazy'[k][x].state = "ready"
               PROVE  ReadyOK(k, x)'
    BY DEF Published
  <2>1. x \in DOMAIN lazy[k] /\ lazy'[k][x] = lazy[k][x] OBVIOUS
  <2>2. ReadyOK(k, x) BY <2>1, <1>0 DEF Published
  <2>3. PICK at, len : at = syms[k][x] - 1 /\ len = Len(Out(k, x).cells) OBVIOUS
  <2>4. Untouched(k, at, len) BY DEF Untouched
  <2>5. x \in DOMAIN syms'[k] /\ syms'[k][x] = syms[k][x] BY <2>1
  <2>6. \A i \in DOMAIN stack' : stack'[i].j = k => Apart(at, len, stack'[i].base, Len(stack'[i].cells))
    BY <2>2, <2>3 DEF ReadyOK, Apart
  <2> QED BY <2>1, <2>2, <2>3, <2>4, <2>5, <2>6, <1>0, <1>2, ReadyKept
<1> QED BY <1>1, <1>3, <1>4, <1>5, <1>6 DEF JitsInv

(* Adding a module: its names are new.                                     *)
LEMMA AddKeeps ==
    ASSUME JitsInv, NEW j \in Jits, NEW m \in ModulesOf[j], AddModule(j, m)
    PROVE  JitsInv'
<1>0. LazyShape /\ SymsShape /\ KnownSyms /\ Signed /\ Published BY DEF JitsInv, Shape
<1> DEFINE fn(n) == CHOOSE x \in Range(m.funcs) : ~x.decl /\ x.name = n
           new == [n \in DefinedNames(m) |-> LazyEntry(m, fn(n))]
           globals == [n \in GlobalNames(m) |-> GlobalAddr(m,
               CHOOSE i \in DOMAIN m.globals : m.globals[i].name = n)]
<1>1. m \in AllModules BY DEF AllModules
<1>2. /\ DefinedNames(m) \cap DOMAIN lazy[j] = {} /\ GlobalNames(m) \cap DOMAIN syms[j] = {}
      /\ lazy' = [lazy EXCEPT ![j] = Over(new, @)]
      /\ Bind(j, globals)
      /\ target' = target /\ code' = code /\ stack' = stack /\ log' = log
  BY DEF AddModule
<1>3. \A n \in DefinedNames(m) : fn(n) \in Range(m.funcs)
  <2> TAKE n \in DefinedNames(m)
  <2>1. PICK i \in DOMAIN m.funcs : ~m.funcs[i].decl /\ m.funcs[i].name = n BY DEF DefinedNames, Defined
  <2>2. \E x \in Range(m.funcs) : ~x.decl /\ x.name = n BY <2>1 DEF Range
  <2> QED BY <2>2
<1> HIDE DEF fn
<1>4. Bound(j, globals)
  <2> HIDE DEF globals
  <2> QED BY <1>0, <1>2, BindBinds
<1>5. DOMAIN globals = GlobalNames(m) OBVIOUS
<1> HIDE DEF globals
<1>6. DOMAIN new = DefinedNames(m) /\ \A n \in DefinedNames(m) : new[n] = LazyEntry(m, fn(n)) OBVIOUS
<1> HIDE DEF new
<1>7. /\ lazy = [k \in Jits |-> lazy[k]]
      /\ \A k \in Jits : IsMap(lazy[k]) /\ \A n \in DOMAIN lazy[k] : IsEntry(lazy[k][n])
  BY <1>0 DEF LazyShape
<1>8. /\ lazy' = [k \in Jits |-> lazy'[k]] /\ \A k \in Jits : k # j => lazy'[k] = lazy[k]
      /\ lazy'[j] = Over(new, lazy[j])
  BY <1>2, <1>7
<1>9. lazy'[j] = [n \in DefinedNames(m) \cup DOMAIN lazy[j] |->
                     IF n \in DefinedNames(m) THEN new[n] ELSE lazy[j][n]]
  BY <1>6, <1>8 DEF Over
<1>10. \A k \in Jits : \A x \in DOMAIN lazy[k] : x \in DOMAIN lazy'[k] /\ lazy'[k][x] = lazy[k][x]
  BY <1>2, <1>8, <1>9
<1>11. \A k \in Jits : \A x \in DOMAIN lazy'[k] \ DOMAIN lazy[k] : lazy'[k][x] = LazyEntry(m, fn(x)) /\
           x \in DefinedNames(m)
  BY <1>6, <1>8, <1>9
<1>12. \A n : IsEntry(LazyEntry(m, fn(n))) /\ LazyEntry(m, fn(n)).state = "pending" /\
           LazyEntry(m, fn(n)).addr = 0
  BY DEF LazyEntry, IsEntry
<1>13. \A n \in DefinedNames(m) : SignedEntry(LazyEntry(m, fn(n)))
  BY <1>1, <1>3 DEF SignedEntry, LazyEntry
<1>14. \A k \in Jits : IsMap(lazy'[k]) BY <1>7, <1>8, <1>9 DEF IsMap
<1>15. \A k \in Jits : \A n \in DOMAIN lazy'[k] : IsEntry(lazy'[k][n])
  BY <1>7, <1>10, <1>11, <1>12
<1>16. LazyShape' BY <1>8, <1>14, <1>15 DEF LazyShape
<1>17. \A k \in Jits : \A n \in DOMAIN lazy'[k] : SignedEntry(lazy'[k][n])
  BY <1>0, <1>10, <1>11, <1>13 DEF Signed
<1>18. Signed' BY <1>17 DEF Signed, SignedEntry
<1>19. SymsShape' /\ KnownSyms' /\ had \subseteq had' BY <1>4 DEF Bound
<1>20. Grows BY <1>2, <1>10, <1>19 DEF Grows, SameFn
<1>21. \A k \in Jits : \A x \in DOMAIN lazy'[k] \ DOMAIN lazy[k] : lazy'[k][x].state = "pending" /\
           lazy'[k][x].addr = 0
  BY <1>11, <1>12
<1>22. \A k \in Jits : \A x \in DOMAIN lazy[k] : lazy[k][x].state = "ready" =>
           x \in DOMAIN syms'[k] /\ syms'[k][x] = syms[k][x]
  <2> SUFFICES ASSUME NEW k \in Jits, NEW x \in DOMAIN lazy[k], lazy[k][x].state = "ready"
               PROVE  x \in DOMAIN syms'[k] /\ syms'[k][x] = syms[k][x]
    OBVIOUS
  <2>1. x \in DOMAIN syms[k] BY <1>0 DEF Published, ReadyOK
  <2>2. CASE k = j BY <2>1, <2>2, <1>2, <1>4, <1>5 DEF Bound
  <2>3. CASE k # j BY <2>1, <2>3, <1>4 DEF Bound
  <2> QED BY <2>2, <2>3
<1> QED BY <1>2, <1>10, <1>16, <1>18, <1>19, <1>20, <1>21, <1>22, NothingPlaced

---------------------------------------------------------------------------
(* Resolving and patching.                                                 *)

(* The innermost materialization.                                          *)
LEMMA TopIs ==
    ASSUME JitsInv, ~Idle
    PROVE  /\ Len(stack) \in Nat \ {0} /\ DOMAIN stack = 1..Len(stack) /\ FrameOK(Top)
           /\ Top.j \in Jits /\ Top.n \in DOMAIN lazy[Top.j] /\ Product(Out(Top.j, Top.n))
<1>1. Listing(stack) BY DEF JitsInv, Shape
<1>2. Len(stack) \in Nat /\ DOMAIN stack = 1..Len(stack) BY <1>1, ListingLen
<1>3. Len(stack) # 0 BY <1>1 DEF Idle, Listing
<1>4. FrameOK(Top) BY <1>2, <1>3 DEF JitsInv, FramesOK, Top
<1>5. Top.j \in Jits /\ Top.n \in DOMAIN lazy[Top.j] BY <1>4 DEF FrameOK
<1>6. PICK j, n : j = Top.j /\ n = Top.n OBVIOUS
<1>7. Product(Out(j, n)) BY <1>5, <1>6, OutIsProduct DEF JitsInv
<1> QED BY <1>2, <1>3, <1>4, <1>5, <1>6, <1>7

(* Among relocations one has the least offset.                             *)
LEMMA LeastExists ==
    ASSUME NEW S, \A r \in S : r.off \in Nat \ {0}, S # {}
    PROVE  \E r \in S : \A x \in S : r.off <= x.off
<1> SUFFICES ASSUME ~ \E r \in S : \A x \in S : r.off <= x.off PROVE FALSE OBVIOUS
<1> DEFINE B == {n \in Nat : \A r \in S : r.off > n}
<1>1. 0 \in B OBVIOUS
<1>2. \A n \in Nat : n \in B => n + 1 \in B
  <2> TAKE n \in Nat
  <2> HAVE n \in B
  <2>1. \A r \in S : r.off >= n + 1 OBVIOUS
  <2>2. \A r \in S : r.off # n + 1 BY <2>1
  <2> QED BY <2>1, <2>2
<1> HIDE DEF B
<1>3. \A n \in Nat : n \in B BY <1>1, <1>2, SetInduction
<1>4. PICK r \in S : TRUE OBVIOUS
<1>5. r.off \in B BY <1>3, <1>4
<1> QED BY <1>4, <1>5 DEF B

(* A name without address is not that of a ready function.                 *)
LEMMA MissingIsNotReady ==
    ASSUME JitsInv, ~Idle, Missing # {},
           FirstMissing \in DOMAIN lazy[Top.j], lazy[Top.j][FirstMissing].state = "ready"
    PROVE  FALSE
<1>1. PICK f : f = Top OBVIOUS
<1>2. FrameOK(f) /\ f.j \in Jits /\ f.n \in DOMAIN lazy[f.j] /\ Product(Out(f.j, f.n)) BY <1>1, TopIs
<1>3. \A r \in f.relocs : r.off \in Nat \ {0}
  <2>1. f.relocs = Out(f.j, f.n).relocs BY <1>2 DEF FrameOK
  <2>2. \A r \in f.relocs : r.off \in 1..Len(Out(f.j, f.n).cells) BY <2>1, <1>2 DEF Product
  <2> QED BY <2>2
<1>4. PICK M : M = Missing OBVIOUS
<1>5. \A r \in M : r.off \in Nat \ {0} BY <1>1, <1>3, <1>4 DEF Missing
<1>6. \E r \in M : \A x \in M : r.off <= x.off BY <1>4, <1>5, LeastExists
<1>7. PICK s \in M : FirstMissing = s.sym
  <2>1. (CHOOSE r \in M : \A x \in M : r.off <= x.off) \in M BY <1>6
  <2> QED BY <2>1, <1>4 DEF FirstMissing
<1>8. Found(f.j, s.sym) = 0 BY <1>1, <1>4 DEF Missing
<1>9. s.sym \in DOMAIN lazy[f.j] /\ lazy[f.j][s.sym].state = "ready" BY <1>1, <1>7
<1>10. s.sym \in DOMAIN syms[f.j] /\ syms[f.j][s.sym] \in Nat \ {0}
  BY <1>2, <1>9 DEF JitsInv, Published, ReadyOK
<1> QED BY <1>8, <1>9, <1>10 DEF Found

(* A name found in the process, or not at all.                             *)
LEMMA UnresolvedKeeps ==
    ASSUME JitsInv, MatUnresolved
    PROVE  JitsInv'
<1>1. ~Idle /\ Missing # {} /\ target' = target /\ code' = code /\ log' = log BY DEF MatUnresolved
<1>2. PICK j, s : j = Top.j /\ s = FirstMissing OBVIOUS
<1>3. j \in Jits BY <1>1, <1>2, TopIs
<1>4. CASE Bind(Top.j, [n \in {FirstMissing} |-> External]) /\ lazy' = lazy /\ stack' = stack
  <2>1. PICK new : new = [n \in {s} |-> External] OBVIOUS
  <2>2. Bind(j, new) BY <2>1, <1>2, <1>4
  <2>3. DOMAIN new = {s} BY <2>1
  <2>4. Bound(j, new) BY <2>2, <1>3, BindBinds DEF JitsInv, Shape
  <2>5. SymsShape' /\ KnownSyms' /\ had \subseteq had' BY <2>4 DEF Bound
  <2>6. Grows BY <2>5, <1>1, <1>4 DEF Grows, SameFn
  <2>7. LazyShape' /\ Signed' BY <1>4 DEF JitsInv, Shape, LazyShape, Signed
  <2>8. \A k \in Jits : \A x \in DOMAIN lazy[k] : lazy[k][x].state = "ready" =>
           x \in DOMAIN syms'[k] /\ syms'[k][x] = syms[k][x]
    <3> SUFFICES ASSUME NEW k \in Jits, NEW x \in DOMAIN lazy[k], lazy[k][x].state = "ready"
                 PROVE  x \in DOMAIN syms'[k] /\ syms'[k][x] = syms[k][x]
      OBVIOUS
    <3>1. x \in DOMAIN syms[k] BY DEF JitsInv, Published, ReadyOK
    <3>2. CASE k = j
      <4>1. x # s BY <3>2, <1>1, <1>2, MissingIsNotReady
      <4> QED BY <3>1, <3>2, <4>1, <2>3, <2>4 DEF Bound
    <3>3. CASE k # j BY <3>1, <3>3, <2>4 DEF Bound
    <3> QED BY <3>2, <3>3
  <2> QED BY <2>5, <2>6, <2>7, <2>8, <1>1, <1>4, NothingPlaced
<1>5. CASE GiveUp(Top.j) /\ syms' = syms /\ had' = had
  BY <1>1, <1>2, <1>3, <1>5, GiveUpKeeps
<1> QED BY <1>4, <1>5 DEF MatUnresolved

(* What is found for a name is one of its addresses.                       *)
LEMMA FoundStarts ==
    ASSUME KnownSyms, KnownCode, NEW j \in Jits, NEW s, Found(j, s) # 0
    PROVE  Found(j, s) \in Starts(j, s)
<1>1. CASE s \in DOMAIN lazy[j] /\ lazy[j][s].state # "ready"
  <2>1. Found(j, s) = lazy[j][s].addr BY <1>1 DEF Found
  <2>2. PICK z \in log : z.j = j /\ z.n = s /\ z.base + 1 = lazy[j][s].addr BY <1>1, <2>1 DEF KnownCode
  <2> QED BY <2>1, <2>2 DEF Starts
<1>2. CASE ~(s \in DOMAIN lazy[j] /\ lazy[j][s].state # "ready")
  <2>1. s \in DOMAIN syms[j] /\ Found(j, s) = syms[j][s] BY <1>2 DEF Found
  <2>2. PICK h : h = [j |-> j, n |-> s, addr |-> syms[j][s]] OBVIOUS
  <2>3. h \in had /\ h.j = j /\ h.n = s /\ h.addr = syms[j][s] BY <2>1, <2>2 DEF KnownSyms
  <2> QED BY <2>1, <2>3 DEF Starts
<1> QED BY <1>1, <1>2

(* Patching touches no cell outside the function and writes, into the cell *)
(* of a relocation, what was found for its name.                           *)
PatchedIs(f, u, v) ==
    /\ Listing(v) /\ Len(v) = Len(u)
    /\ \A b, l \in Nat : Apart(b, l, f.base, Len(f.cells)) /\ b + l <= Len(u) =>
         \A i \in 1..l : v[b + i] = u[b + i]
    /\ \A i \in DOMAIN f.cells :
         /\ [v[f.base + i] EXCEPT !.addr = 0] = f.cells[i]
         /\ \A r \in f.relocs : r.off = i => v[f.base + i].addr = Found(f.j, r.sym)

(* Patching a product that stands in the buffer as it was compiled.        *)
LEMMA Patching ==
    ASSUME NEW f, NEW u, Listing(u), f.base \in Nat, f.base + Len(f.cells) <= Len(u),
           \A i \in DOMAIN f.cells : u[f.base + i] = f.cells[i],
           Product(f)
    PROVE  PatchedIs(f, u, Patched(f, u))
<1>1. PICK v : v = Patched(f, u) OBVIOUS
<1>2. Len(u) \in Nat /\ DOMAIN u = 1..Len(u) BY ListingLen
<1>3. /\ Len(f.cells) \in Nat /\ DOMAIN f.cells = 1..Len(f.cells)
      /\ \A r \in f.relocs : r.off \in 1..Len(f.cells)
      /\ \A r, s \in f.relocs : r.off = s.off => r = s
      /\ \A i \in DOMAIN f.cells : f.cells[i] = [does |-> f.cells[i].does, addr |-> 0]
  BY ListingLen DEF Product
<1> DEFINE at(i, r) == r.off + f.base = i
           rel(i) == CHOOSE r \in f.relocs : at(i, r)
<1>4. v = [i \in 1..Len(u) |-> IF \E r \in f.relocs : at(i, r)
                               THEN [u[i] EXCEPT !.addr = Found(f.j, rel(i).sym)] ELSE u[i]]
  BY <1>1, <1>2 DEF Patched
<1>5. v = [i \in 1..Len(u) |-> v[i]] BY <1>4
<1>6. Listing(v) /\ Len(v) = Len(u) BY <1>2, <1>5, ListingOf
<1>7. \A i \in 1..Len(u) : (\A r \in f.relocs : ~at(i, r)) => v[i] = u[i] BY <1>4
<1>8. \A i \in 1..Len(u) : (\E r \in f.relocs : at(i, r)) =>
          v[i] = [u[i] EXCEPT !.addr = Found(f.j, rel(i).sym)]
  BY <1>4
<1>9. ASSUME NEW b \in Nat, NEW l \in Nat, Apart(b, l, f.base, Len(f.cells)), b + l <= Len(u),
                 NEW i \in 1..l
      PROVE  v[b + i] = u[b + i]
  <2>1. b + i \in 1..Len(u) BY <1>2, <1>9
  <2>2. \A r \in f.relocs : ~at(b + i, r)
    <3> SUFFICES ASSUME NEW r \in f.relocs PROVE r.off + f.base # b + i OBVIOUS
    <3>1. PICK o, w, h : o = r.off /\ w = f.base /\ h = Len(f.cells) OBVIOUS
    <3>2. o \in 1..h /\ w \in Nat /\ h \in Nat BY <3>1, <1>3
    <3>3. b + l <= w \/ w + h <= b BY <3>1, <1>9 DEF Apart
    <3>4. o + w # b + i BY <3>2, <3>3, <1>9
    <3> QED BY <3>1, <3>4
  <2> QED BY <2>1, <2>2, <1>7
<1>10. ASSUME NEW i \in DOMAIN f.cells
       PROVE  /\ [v[f.base + i] EXCEPT !.addr = 0] = f.cells[i]
              /\ \A r \in f.relocs : r.off = i => v[f.base + i].addr = Found(f.j, r.sym)
  <2>1. f.base + i \in 1..Len(u) BY <1>2, <1>3
  <2>2. u[f.base + i] = [does |-> f.cells[i].does, addr |-> 0] BY <1>3
  <2>3. f.cells[i] = [does |-> f.cells[i].does, addr |-> 0] BY <1>3
  <2>4. PICK d : d = f.cells[i].does OBVIOUS
  <2>5. CASE \A r \in f.relocs : r.off # i
    <3>1. \A r \in f.relocs : ~at(f.base + i, r) BY <1>3, <2>5
    <3>2. v[f.base + i] = u[f.base + i] BY <3>1, <2>1, <1>7
    <3>3. [v[f.base + i] EXCEPT !.addr = 0] = f.cells[i] BY <3>2, <2>2, <2>3, <2>4
    <3> QED BY <3>3, <2>5
  <2>6. ASSUME NEW r \in f.relocs, r.off = i
        PROVE  /\ [v[f.base + i] EXCEPT !.addr = 0] = f.cells[i]
               /\ v[f.base + i].addr = Found(f.j, r.sym)
    <3>1. at(f.base + i, r) BY <1>3, <2>6
    <3>2. rel(f.base + i) \in f.relocs /\ at(f.base + i, rel(f.base + i)) BY <3>1
    <3>3. PICK q : q = rel(f.base + i) OBVIOUS
    <3>4. q \in f.relocs /\ q.off + f.base = f.base + i BY <3>2, <3>3
    <3>5. q.off = r.off BY <3>4, <1>3, <2>6
    <3>6. q = r BY <3>4, <3>5, <1>3
    <3>7. v[f.base + i] = [u[f.base + i] EXCEPT !.addr = Found(f.j, r.sym)]
      BY <3>1, <3>3, <3>6, <2>1, <1>8, ZenonT(60)
    <3>8. PICK a : a = Found(f.j, r.sym) OBVIOUS
    <3>9. v[f.base + i] = [does |-> d, addr |-> a] BY <3>7, <3>8, <2>2, <2>4
    <3> QED BY <3>8, <3>9, <2>3, <2>4
  <2> QED BY <2>5, <2>6
<1>11. PatchedIs(f, u, v) BY <1>6, <1>9, <1>10 DEF PatchedIs
<1> QED BY <1>1, <1>11

---------------------------------------------------------------------------
(* The end of a materialization, and the theorem.                          *)

(* The end of a materialization: its code is patched and published, and    *)
(* the stretches of all others are apart from its own.                     *)
LEMMA DoneKeeps ==
    ASSUME JitsInv, MatDone
    PROVE  JitsInv'
<1>0. Shape /\ Signed /\ FramesOK /\ FramesApart /\ KnownCode /\ KnownSyms /\ Published BY DEF JitsInv
<1>1. PICK f : f = Top OBVIOUS
<1>2. PICK a : a = lazy[f.j][f.n].addr OBVIOUS
<1>3. /\ ~Idle /\ Missing = {}
      /\ code' = [code EXCEPT ![f.j] = Patched(f, @)]
      /\ Bind(f.j, [n \in {f.n} |-> a])
      /\ lazy' = [lazy EXCEPT ![f.j][f.n].state = "ready", ![f.j][f.n].addr = 0]
      /\ stack' = Front(stack)
      /\ target' = target /\ log' = log
  BY <1>1, <1>2 DEF MatDone
<1>4. /\ Len(stack) \in Nat \ {0} /\ DOMAIN stack = 1..Len(stack) /\ FrameOK(f) /\ f = stack[Len(stack)]
      /\ f.j \in Jits /\ f.n \in DOMAIN lazy[f.j] /\ Product(Out(f.j, f.n))
  BY <1>1, <1>3, TopIs DEF Top
<1>5. PICK j, n : j = f.j /\ n = f.n OBVIOUS
<1>6. /\ f.base \in Nat /\ a = f.base + 1 /\ f.cells = Out(j, n).cells /\ f.relocs = Out(j, n).relocs
      /\ f.base + Len(f.cells) <= Len(code[j]) /\ \A i \in DOMAIN f.cells : code[j][f.base + i] = f.cells[i]
      /\ j \in Jits /\ n \in DOMAIN lazy[j]
  BY <1>2, <1>4, <1>5 DEF FrameOK
<1>7. Product(f) /\ Len(f.cells) \in Nat /\ DOMAIN f.cells = 1..Len(f.cells)
  <2>0. PICK out : out = Out(j, n) OBVIOUS
  <2>1. Product(out) /\ f.cells = out.cells /\ f.relocs = out.relocs BY <2>0, <1>4, <1>5, <1>6
  <2>2. Product(f) BY <2>1, Zenon DEF Product
  <2> QED BY <2>2, ListingLen DEF Product
<1>8. PICK new : new = [x \in {n} |-> a] OBVIOUS
<1>9. DOMAIN new = {n} /\ new[n] = a BY <1>8
<1>10. Bound(j, new) BY <1>0, <1>3, <1>5, <1>6, <1>8, BindBinds DEF Shape
<1>11. Updated(j, n, "ready", 0) BY <1>0, <1>3, <1>5, <1>6, UpdateEntry DEF Shape
<1>12. SymsShape' /\ KnownSyms' /\ had \subseteq had' BY <1>10 DEF Bound
<1>13. Grows /\ LazyShape' BY <1>0, <1>3, <1>6, <1>11, <1>12, UpdatedGrows DEF Shape
<1>14. \A k \in Jits : DOMAIN lazy'[k] = DOMAIN lazy[k] BY <1>11 DEF Updated
<1>15. Signed' BY <1>0, <1>13, <1>14, SignedKept
<1>16. PICK u : u = code[j] OBVIOUS
<1>17. PICK v : v = Patched(f, u) OBVIOUS
<1>18. /\ code = [k \in Jits |-> code[k]] /\ \A k \in Jits : Listing(code[k]) BY <1>0 DEF Shape, CodeShape
<1>19. PatchedIs(f, u, v) BY <1>6, <1>7, <1>16, <1>17, <1>18, Patching
<1>20. code' = [k \in Jits |-> code'[k]] /\ code'[j] = v /\ \A k \in Jits : k # j => code'[k] = code[k]
  BY <1>3, <1>5, <1>6, <1>16, <1>17, <1>18
<1>21. Listing(v) /\ Len(v) = Len(u) BY <1>19 DEF PatchedIs
<1>22. CodeShape' BY <1>18, <1>20, <1>21 DEF CodeShape
<1>23. \A k \in Jits : Len(code[k]) \in Nat BY <1>18, ListingLen
<1>24. \A k \in Jits : NotShorter(k) /\ Len(code'[k]) = Len(code[k])
  <2> TAKE k \in Jits
  <2>1. Len(code'[k]) = Len(code[k]) BY <1>16, <1>20, <1>21
  <2> QED BY <2>1, <1>23 DEF NotShorter
<1>25. \A k \in Jits : \A b, l \in Nat :
          b + l <= Len(code[k]) /\ (k = j => Apart(b, l, f.base, Len(f.cells))) => Untouched(k, b, l)
  <2> TAKE k \in Jits
  <2> TAKE b, l \in Nat
  <2> HAVE b + l <= Len(code[k]) /\ (k = j => Apart(b, l, f.base, Len(f.cells)))
  <2>1. CASE k = j BY <2>1, <1>16, <1>19, <1>20 DEF PatchedIs, Untouched
  <2>2. CASE k # j BY <2>2, <1>20 DEF Untouched
  <2> QED BY <2>1, <2>2
<1>26. Listing(stack) /\ stack # <<>> BY <1>0, <1>3 DEF Shape, Idle
<1>27. /\ Listing(stack') /\ Len(stack') = Len(stack) - 1
       /\ \A i \in 1..(Len(stack) - 1) : stack'[i] = stack[i]
  BY <1>3, <1>26, ListingFront
<1>28. DOMAIN stack' = 1..(Len(stack) - 1) BY <1>27, ListingLen
<1>29. Shape' BY <1>12, <1>13, <1>22, <1>27 DEF Shape
<1>30. \A i \in DOMAIN stack' : i \in DOMAIN stack /\ stack'[i] = stack[i] /\ i < Len(stack)
  BY <1>4, <1>27, <1>28
<1>31. \A i \in DOMAIN stack' : /\ FrameOK(stack[i]) /\ stack[i].j = j /\ stack[i].n # n
                               /\ stack[i].base + Len(stack[i].cells) <= f.base
  <2> TAKE i \in DOMAIN stack'
  <2>1. i \in DOMAIN stack /\ i < Len(stack) /\ Len(stack) \in DOMAIN stack BY <1>4, <1>30
  <2>2. /\ stack[i].j = stack[Len(stack)].j /\ stack[i].n # stack[Len(stack)].n
        /\ stack[i].base + Len(stack[i].cells) <= stack[Len(stack)].base
    BY <2>1, <1>0 DEF FramesApart
  <2> QED BY <2>1, <2>2, <1>0, <1>4, <1>5 DEF FramesOK
<1>32. FramesOK'
  <2>1. \A i \in DOMAIN stack' : \A g : g = stack[i] => FrameOK(g)'
    <3> TAKE i \in DOMAIN stack'
    <3> SUFFICES ASSUME NEW g, g = stack[i] PROVE FrameOK(g)' OBVIOUS
    <3>1. FrameOK(g) /\ g.j = j /\ g.n # n /\ g.base + Len(g.cells) <= f.base BY <1>31
    <3>2. /\ g.n \in DOMAIN lazy[j] /\ lazy[j][g.n].state = "compiling" /\ g.base \in Nat
          /\ g.cells = Out(j, g.n).cells /\ g.base + Len(g.cells) <= Len(code[j])
      BY <3>1 DEF FrameOK
    <3>3. lazy'[j][g.n] = lazy[j][g.n] BY <3>1, <3>2, <1>6, <1>11 DEF Updated
    <3>4. PICK x : x = g.n OBVIOUS
    <3>5. Len(Out(j, x).cells) \in Nat BY <3>2, <3>4, <1>0, <1>6, OutIsProduct
    <3>6. Len(g.cells) \in Nat BY <3>2, <3>4, <3>5
    <3>7. Apart(g.base, Len(g.cells), f.base, Len(f.cells)) BY <3>1 DEF Apart
    <3>8. NotShorter(g.j) /\ Untouched(g.j, g.base, Len(g.cells))
      BY <3>1, <3>2, <3>6, <3>7, <1>6, <1>24, <1>25
    <3> QED BY <3>1, <3>2, <3>3, <3>8, <1>0, <1>13, FrameKept
  <2>2. \A i \in DOMAIN stack' : \A g : g = stack'[i] => FrameOK(g)' BY <2>1, <1>30
  <2> QED BY <2>2 DEF FramesOK
<1>33. FramesApart'
  <2> SUFFICES ASSUME NEW i \in DOMAIN stack', NEW k \in DOMAIN stack'
               PROVE  /\ stack'[i].j = stack'[k].j
                      /\ i < k => stack'[i].n # stack'[k].n /\
                             stack'[i].base + Len(stack'[i].cells) <= stack'[k].base
    BY DEF FramesApart
  <2>1. i \in DOMAIN stack /\ k \in DOMAIN stack /\ stack'[i] = stack[i] /\ stack'[k] = stack[k] BY <1>30
  <2> QED BY <2>1, <1>0 DEF FramesApart
<1>34. KnownCode'
  <2> SUFFICES ASSUME NEW k \in Jits, NEW x \in DOMAIN lazy'[k], lazy'[k][x].addr # 0
               PROVE  \E z \in log' : z.j = k /\ z.n = x /\ z.base + 1 = lazy'[k][x].addr
    BY DEF KnownCode
  <2>1. k # j \/ x # n BY <1>11 DEF Updated
  <2>2. x \in DOMAIN lazy[k] /\ lazy'[k][x] = lazy[k][x] BY <2>1, <1>11, <1>14 DEF Updated
  <2>3. \E z \in log : z.j = k /\ z.n = x /\ z.base + 1 = lazy[k][x].addr BY <2>2, <1>0 DEF KnownCode
  <2>4. log' = log BY <1>3
  <2> QED BY <2>2, <2>3, <2>4
<1>35. ReadyOK(j, n)'
  <2>1. n \in DOMAIN syms'[j] /\ syms'[j][n] = a BY <1>9, <1>10 DEF Bound
  <2>2. syms'[j][n] \in Nat \ {0} /\ syms'[j][n] - 1 = f.base BY <2>1, <1>6
  <2>3. Out(j, n)' = Out(j, n) BY <1>6, <1>13, OutKept
  <2>4. PICK out, at : out = Out(j, n) /\ at = f.base OBVIOUS
  <2>5. out.cells = f.cells /\ out.relocs = f.relocs BY <2>4, <1>6
  <2>6. at + Len(out.cells) <= Len(code'[j]) BY <2>4, <2>5, <1>6, <1>24
  <2>7. \A i \in DOMAIN out.cells : [code'[j][at + i] EXCEPT !.addr = 0] = out.cells[i]
    BY <2>4, <2>5, <1>19, <1>20, Zenon DEF PatchedIs
  <2>8. \A i \in DOMAIN out.cells : \A r \in out.relocs : r.off = i =>
            code'[j][at + i].addr \in Starts(j, r.sym)'
    <3> TAKE i \in DOMAIN out.cells
    <3> TAKE r \in out.relocs
    <3> HAVE r.off = i
    <3>1. PICK s, w : s = r.sym /\ w = Found(j, s) OBVIOUS
    <3>2. code'[j][at + i].addr = w BY <3>1, <2>4, <2>5, <1>5, <1>19, <1>20, ZenonT(60) DEF PatchedIs
    <3>3. w # 0 BY <3>1, <2>5, <1>1, <1>3, <1>5 DEF Missing
    <3>4. w \in Starts(j, s) BY <3>1, <3>3, <1>0, <1>6, FoundStarts
    <3>5. w \in Starts(j, s)' BY <3>4, <1>13, StartsGrow
    <3> QED BY <3>1, <3>2, <3>5
  <2>9. out = Out(j, n)' BY <2>3, <2>4
  <2>10. PlacedAt(j, n, at)' BY <2>6, <2>7, <2>8, <2>9, Zenon DEF PlacedAt
  <2>11. PlacedAt(j, n, syms[j][n] - 1)' BY <2>2, <2>4, <2>10
  <2>12. \A k \in DOMAIN stack' : stack'[k].base + Len(stack'[k].cells) <= syms'[j][n] - 1
    BY <2>2, <1>30, <1>31
  <2> QED BY <2>1, <2>2, <2>11, <2>12 DEF ReadyOK
<1>36. Published'
  <2> SUFFICES ASSUME NEW k \in Jits, NEW x \in DOMAIN lazy'[k], lazy'[k][x].state = "ready"
               PROVE  ReadyOK(k, x)'
    BY DEF Published
  <2>1. CASE k = j /\ x = n BY <2>1, <1>35
  <2>2. CASE k # j \/ x # n
    <3>1. x \in DOMAIN lazy[k] /\ lazy'[k][x] = lazy[k][x] BY <2>2, <1>11, <1>14 DEF Updated
    <3>2. ReadyOK(k, x) BY <3>1, <1>0 DEF Published
    <3>3. PICK at, len : at = syms[k][x] - 1 /\ len = Len(Out(k, x).cells) OBVIOUS
    <3>4. at \in Nat /\ x \in DOMAIN syms[k] BY <3>2, <3>3 DEF ReadyOK
    <3>5. len \in Nat BY <3>1, <3>3, <1>0, OutIsProduct
    <3>6. at + len <= Len(code[k]) BY <3>2, <3>3 DEF ReadyOK, PlacedAt
    <3>7. \A i \in DOMAIN stack : stack[i].j = k => Apart(at, len, stack[i].base, Len(stack[i].cells))
      BY <3>2, <3>3 DEF ReadyOK, Apart
    <3>8. k = j => Apart(at, len, f.base, Len(f.cells))
      <4>1. Len(stack) \in DOMAIN stack BY <1>4
      <4> QED BY <4>1, <3>7, <1>4, <1>5
    <3>9. Untouched(k, at, len) /\ NotShorter(k) BY <3>4, <3>5, <3>6, <3>8, <1>24, <1>25
    <3>10. \A i \in DOMAIN stack' : stack'[i].j = k => Apart(at, len, stack'[i].base, Len(stack'[i].cells))
      BY <3>7, <1>30
    <3>11. x \in DOMAIN syms'[k] /\ syms'[k][x] = syms[k][x]
      <4>1. CASE k = j BY <4>1, <2>2, <3>4, <1>9, <1>10 DEF Bound
      <4>2. CASE k # j BY <4>2, <3>4, <1>10 DEF Bound
      <4> QED BY <4>1, <4>2
    <3> QED BY <3>1, <3>2, <3>3, <3>9, <3>10, <3>11, <1>0, <1>13, ReadyKept
  <2> QED BY <2>1, <2>2
<1> QED BY <1>12, <1>15, <1>29, <1>32, <1>33, <1>34, <1>36 DEF JitsInv

(* What is kept for the cache is the code without addresses.               *)
LEMMA DoneCache ==
    ASSUME JitsInv, CacheCompiled, MatDone
    PROVE  CacheCompiled'
<1>1. PICK f, j, n : f = Top /\ j = f.j /\ n = f.n OBVIOUS
<1>2. FrameOK(f) /\ j \in Jits /\ n \in DOMAIN lazy[j] BY <1>1, TopIs DEF MatDone
<1>3. PICK out, when : out = [cells |-> CapturedCode(f), relocs |-> f.relocs] /\ when = age OBVIOUS
<1>4. out.cells = f.cells /\ out.relocs = f.relocs BY <1>3 DEF CapturedCode
<1>5. out.cells = Out(j, n).cells /\ out.relocs = Out(j, n).relocs BY <1>1, <1>2, <1>4 DEF FrameOK
<1>6. CompiledEntry(Entry(j, lazy[j][n], out, when)) BY <1>2, <1>5, EntryCompiled DEF JitsInv
<1>7. PICK e : e = Entry(j, lazy[j][n], out, when) OBVIOUS
<1>8. cache' = cache \/ cache' = Insert(cache, e) BY <1>1, <1>3, <1>7 DEF MatDone
<1>9. cache' \subseteq cache \cup {e} BY <1>8 DEF Insert
<1>10. \A x \in cache' : CompiledEntry(x) BY <1>6, <1>7, <1>9 DEF CacheCompiled
<1> QED BY <1>10 DEF CacheCompiled, CompiledEntry

(* Steps that leave the buffers, tables and entries alone.                 *)
LEMMA JitsUnchanged ==
    ASSUME JitsInv, UNCHANGED <<target, lazy, syms, code, stack, log, had>>
    PROVE  JitsInv'
<1>1. LazyShape' /\ SymsShape' /\ KnownSyms' /\ Signed'
  BY DEF JitsInv, Shape, LazyShape, SymsShape, KnownSyms, Signed
<1>2. Grows BY DEF Grows, SameFn
<1>3. \A k \in Jits : \A x \in DOMAIN lazy[k] : lazy[k][x].state = "ready" => x \in DOMAIN syms[k]
  BY DEF JitsInv, Published, ReadyOK
<1> QED BY <1>1, <1>2, <1>3, NothingPlaced

(* The invariant holds at first.                                           *)
LEMMA InitInv == Init => JitsInv /\ CacheCompiled
<1> SUFFICES ASSUME Init PROVE JitsInv /\ CacheCompiled OBVIOUS
<1>1. \A j \in Jits : lazy[j] = Empty /\ syms[j] = Empty /\ code[j] = <<>> BY DEF Init
<1>2. DOMAIN Empty = {} /\ IsMap(Empty) BY DEF Empty, IsMap
<1>3. Listing(<<>>) BY DEF Listing
<1>4. stack = <<>> /\ DOMAIN stack = {} BY DEF Init
<1>5. LazyShape BY <1>1, <1>2 DEF Init, LazyShape
<1>6. SymsShape BY <1>1, <1>2 DEF Init, SymsShape
<1>7. CodeShape BY <1>1, <1>3 DEF Init, CodeShape
<1>8. Shape BY <1>3, <1>4, <1>5, <1>6, <1>7 DEF Shape
<1>9. Signed /\ KnownCode /\ KnownSyms /\ Published
  BY <1>1, <1>2 DEF Signed, KnownCode, KnownSyms, Published
<1>10. FramesOK /\ FramesApart BY <1>4 DEF FramesOK, FramesApart
<1>11. CacheCompiled BY DEF Init, CacheCompiled
<1> QED BY <1>8, <1>9, <1>10, <1>11 DEF JitsInv

(* Every step keeps the invariant.                                         *)
LEMMA NextKeeps ==
    ASSUME VectorsAlike, AbisAlike, JitsInv, CacheCompiled, [Next]_vars
    PROVE  JitsInv' /\ CacheCompiled'
<1>1. ASSUME NEW j \in Jits, NEW m \in ModulesOf[j], AddModule(j, m) PROVE JitsInv' /\ CacheCompiled'
  <2>1. JitsInv' BY <1>1, AddKeeps
  <2>2. cache' = cache BY <1>1 DEF AddModule
  <2> QED BY <2>1, <2>2 DEF CacheCompiled, CompiledEntry
<1>2. ASSUME NEW j \in Jits, NEW n \in DOMAIN lazy[j], Materialize(j, n) PROVE JitsInv' /\ CacheCompiled'
  <2>1. Idle /\ Enter(j, n) BY <1>2 DEF Materialize
  <2> QED BY <2>1, EnterKeeps
<1>3. CASE MatDependency
  <2>1. PICK j, n : j = Top.j /\ n = FirstMissing OBVIOUS
  <2>2. ~Idle /\ Enter(j, n) BY <1>3, <2>1 DEF MatDependency
  <2>3. j \in Jits BY <2>1, <2>2, TopIs
  <2> QED BY <2>1, <2>2, <2>3, EnterKeeps
<1>4. CASE MatUnresolved
  <2>1. JitsInv' BY <1>4, UnresolvedKeeps
  <2>2. cache' = cache BY <1>4 DEF MatUnresolved
  <2> QED BY <2>1, <2>2 DEF CacheCompiled, CompiledEntry
<1>5. CASE MatDone BY <1>5, DoneKeeps, DoneCache
<1>6. CASE InvalidateAll
  <2>1. UNCHANGED <<target, lazy, syms, code, stack, log, had>> /\ cache' = {} BY <1>6 DEF InvalidateAll
  <2> QED BY <2>1, JitsUnchanged DEF CacheCompiled
<1>7. CASE ResetStats
  <2>1. UNCHANGED <<target, lazy, syms, code, stack, log, had>> /\ cache' = cache BY <1>7 DEF ResetStats
  <2> QED BY <2>1, JitsUnchanged DEF CacheCompiled, CompiledEntry
<1>8. CASE UNCHANGED vars
  <2>1. UNCHANGED <<target, lazy, syms, code, stack, log, had>> /\ cache' = cache BY <1>8 DEF vars
  <2> QED BY <2>1, JitsUnchanged DEF CacheCompiled, CompiledEntry
<1> QED BY <1>1, <1>2, <1>3, <1>4, <1>5, <1>6, <1>7, <1>8 DEF Next

(* The invariant implies the property.                                     *)
LEMMA InvPublishes == JitsInv => PublishedIsCompiled
<1> SUFFICES ASSUME JitsInv, NEW j \in Jits, NEW n \in DOMAIN lazy[j], lazy[j][n].state = "ready"
             PROVE  LET out == Compile(target[j], lazy[j][n].module, lazy[j][n].func)
                        at == syms[j][n] - 1
                    IN  /\ at + Len(out.cells) <= Len(code[j])
                        /\ \A i \in DOMAIN out.cells :
                             LET c == code[j][at + i]
                             IN  /\ [c EXCEPT !.addr = 0] = out.cells[i]
                                 /\ \A r \in out.relocs : r.off = i => c.addr \in Starts(j, r.sym)
  BY DEF PublishedIsCompiled
<1>1. PlacedAt(j, n, syms[j][n] - 1) BY DEF JitsInv, Published, ReadyOK
<1> QED BY <1>1, Zenon DEF PlacedAt, Out

(* When there is one vector type and functions of equal signatures follow  *)
(* one calling convention, the code a JIT publishes for a function,        *)
(* compiled or replayed from the cache, is what its target makes of the    *)
(* function in its module, every mention of a name filled with an address  *)
(* of that name in this JIT (materialize_lazy_function).                   *)
THEOREM CodeIsCompiled == ASSUME VectorsAlike, AbisAlike PROVE Spec => []PublishedIsCompiled
<1>1. Init => IInv BY InitInv DEF IInv
<1>2. IInv /\ [Next]_vars => IInv' BY NextKeeps DEF IInv
<1>3. IInv => PublishedIsCompiled BY InvPublishes DEF IInv
<1> QED BY <1>1, <1>2, <1>3, PTL DEF Spec
===========================================================================
