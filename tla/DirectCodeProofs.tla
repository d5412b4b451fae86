-------------------------- MODULE DirectCodeProofs --------------------------
(***************************************************************************)
(* What the calls of a DIRECT session keep true of the code buffer, for    *)
(* every set of names, every code capacity and alignment and any number of *)
(* functions: the open functions, the instruction cache, the blobs, and    *)
(* where a bound call goes.                                                *)
(*                                                                         *)
(* None of the properties is inductive.  Whether a call agrees with lookup *)
(* depends on which addresses a name may have had; whether a blob          *)
(* describes its code depends on every later write of a patch landing on a *)
(* call site; whether the cache is flushed depends on the lowest offset    *)
(* the update window remembers.  The invariant DInv adds what the calls    *)
(* maintain of each:                                                       *)
(*                                                                         *)
(*   IInv       types and windows of the relocation table                  *)
(*              (DirectSessionProofs)                                      *)
(*   OpenInv    a function is open in exactly one place                    *)
(*   WindowInv  unflushed bytes lie in what the end of the update flushes  *)
(*   CodeInv    relocations and blobs point at the calls of their function *)
(*   NamesInv   what a name's number of definitions says of its addresses  *)
(*   KnownInv   a name a call was bound to stays resolvable                *)
(*   RangeInv   the two indices stay inside the relocation table           *)
(*                                                                         *)
(* One lemma per invariant shows that every call keeps it.  The calls      *)
(* differ mostly in the view of the tables they patch from, so the lemmas  *)
(* share PatchView, what is common to these calls, and lemmas about the    *)
(* operators of the model: PatchPending, BeginUpdate, CloseUpdate, FuncEnd.*)
(***************************************************************************)
EXTENDS DirectSessionProofs, WellFoundedInduction

Cells == 0 .. CodeCap - 1
Cell == [want : Names \cup {NULL}, got : SUBSET Names]
Blob == [name : Names, base : 0 .. CodeCap, relocs : Seq(Names)]

\* Every open function is current or in one suspended slot, and was begun: an
\* id is given out once.
Here == IF cur = NULL THEN {} ELSE {cur.id}
There == {suspended[k].id : k \in DOMAIN suspended}
OnePlace ==
    /\ open = Here \cup There
    /\ \A k, m \in DOMAIN suspended : k # m => suspended[k].id # suspended[m].id
    /\ \A k \in DOMAIN suspended : suspended[k].id \notin Here

OpenInv == OnePlace /\ open \subseteq 1 .. begun

\* What was written since the last flush lies in the part the end of the
\* update flushes; outside an update there is nothing.
WindowInv ==
    /\ upd \in [active : BOOLEAN, dirty : BOOLEAN, begin : 0 .. CodeCap]
    /\ upd.begin <= code_size
    /\ \A a \in stale : /\ upd.active /\ upd.dirty
                        /\ a \in upd.begin .. code_size - 1

\* A placed relocation points at its own call site; one left behind by a
\* failed func_end keeps a function-relative offset.
PlacedInv ==
    \A i \in DOMAIN relocs :
        /\ relocs[i].placed => /\ relocs[i].addr < code_size
                               /\ code[relocs[i].addr].want = relocs[i].sym
        /\ ~relocs[i].placed => relocs[i].addr <= MaxCalls

\* The blobs lie below code_size, in the order of their functions, and list
\* the calls of their cells.
BlobCells ==
    \A k \in DOMAIN blobs :
        /\ blobs[k].base + Len(blobs[k].relocs) < code_size
        /\ \A i \in DOMAIN blobs[k].relocs :
              code[blobs[k].base + i].want = blobs[k].relocs[i]
BlobOrder ==
    \A k, m \in DOMAIN blobs :
        k < m => blobs[k].base + Len(blobs[k].relocs) < blobs[m].base

\* A cell is only written with the symbol of its call, unless a failed func_end
\* left relocations behind.
GotOwn ==
    Orphans = {} => \A a \in Cells : \A n \in code[a].got : n = code[a].want

CodeInv ==
    /\ code \in [Cells -> Cell]
    /\ blobs \in Seq(Blob)
    /\ Builtins <= code_size
    /\ PlacedInv /\ BlobCells /\ BlobOrder /\ GotOwn

\* Names only the functions of the session define.
Private == Names \ (OtherNames \cup HostNames \cup LibNames)

\* What is known of such a name, by the number of its definitions.
NameInv(n) ==
    /\ defs[n] = 0 =>
          /\ objdef[n] = NULL /\ symbols[n] = NULL
          /\ \A i \in DOMAIN relocs : relocs[i].sym = n => relocs[i].to = NULL
    /\ defs[n] # 0 => objdef[n] # NULL
    /\ defs[n] = 1 =>
          /\ symbols[n] = CodeAddr(objdef[n])
          /\ \A i \in DOMAIN relocs :
                relocs[i].sym = n => relocs[i].to \in {NULL, symbols[n]}

NamesInv ==
    /\ lazy \subseteq OtherNames
    /\ defs \in [Names -> Nat]
    /\ \A n \in Private : NameInv(n)

\* A name a call was bound to stays known.
Known(n) ==
    \/ objdef[n] # NULL \/ symbols[n] # NULL
    \/ n \in HostNames \/ (libs /\ n \in LibNames)

Target(n) == \E i \in DOMAIN relocs : relocs[i].sym = n /\ relocs[i].to # NULL

KnownInv ==
    /\ libs \in BOOLEAN
    /\ ~LazyJit => lazy = {}
    /\ \A n \in Names : Target(n) => Known(n)

\* The two indices into the relocation table.
RangeInv ==
    active_start <= Len(relocs) /\ pending_start <= Len(relocs) /\ answered \in BOOLEAN

-----------------------------------------------------------------------------
(***************************************************************************)
(* The effect of the patching pass                                         *)
(***************************************************************************)

\* What the concatenation of two sequences is.
LEMMA ConcatCorrect ==
    ASSUME NEW S, NEW s \in Seq(S), NEW t \in Seq(S)
    PROVE  /\ s \o t \in Seq(S) /\ Len(s \o t) = Len(s) + Len(t)
           /\ DOMAIN (s \o t) = 1 .. Len(s) + Len(t)
           /\ \A i \in 1 .. Len(s) : (s \o t)[i] = s[i]
           /\ \A i \in 1 .. Len(t) : (s \o t)[Len(s) + i] = t[i]
OBVIOUS

\* The smallest of some offsets.
LEMMA LowestCorrect ==
    ASSUME NEW A, A \subseteq Nat, A # {}
    PROVE  Lowest(A) \in A /\ \A y \in A : Lowest(A) <= y
<1>1. \E x \in A : \A y \in A : <<y, x>> \notin OpToRel(<, Nat)
  BY NatLessThanWellFounded, WFMin, Zenon
<1>2. PICK x \in A : \A y \in A : <<y, x>> \notin OpToRel(<, Nat)
  BY <1>1
<1>3. \A y \in A : ~(y < x)
  <2> SUFFICES ASSUME NEW y \in A, y < x PROVE FALSE
    OBVIOUS
  <2>1. <<y, x>> \in Nat \X Nat
    OBVIOUS
  <2>2. <<y, x>>[1] < <<y, x>>[2]
    OBVIOUS
  <2> QED
    BY <2>1, <2>2, <1>2 DEF OpToRel
<1>4. \A y \in A : x <= y
  BY <1>3
<1> QED
  BY <1>4 DEF Lowest

\* The offsets that a pass writes to lie inside the code.
LEMMA BoundInside ==
    ASSUME NEW rel, NEW v, NEW lo \in Nat, NEW hi \in Nat,
           NEW i \in BoundBy(rel, v, lo, hi)
    PROVE  i \in lo .. hi /\ Resolve(v, rel[i].sym) # NULL /\ rel[i].addr < v.size
BY DEF BoundBy, Bindable

\* What writing targets does to a cell.
LEMMA WriteCorrect ==
    ASSUME NEW cd \in [Cells -> Cell], NEW rel \in Seq(Link), NEW I, I \subseteq DOMAIN rel
    PROVE  /\ WriteCells(cd, rel, I) \in [Cells -> Cell]
           /\ \A a \in Cells :
                 /\ WriteCells(cd, rel, I)[a].want = cd[a].want
                 /\ \A n \in WriteCells(cd, rel, I)[a].got :
                       n \in cd[a].got \/ \E i \in I : rel[i].addr = a /\ rel[i].sym = n
<1> DEFINE W == WriteCells(cd, rel, I)
           Syms(a) == {rel[i].sym : i \in {k \in I : rel[k].addr = a}}
<1>1. \A i \in I : rel[i] \in Link
  BY SeqIsFun
<1>2. \A a \in Cells : Syms(a) \subseteq Names
  BY <1>1 DEF Link
<1>3. DOMAIN cd = Cells /\ \A a \in Cells : cd[a] \in Cell
  OBVIOUS
<1>4. W = [a \in Cells |-> [cd[a] EXCEPT !.got = @ \cup Syms(a)]]
  BY <1>3 DEF WriteCells
<1> HIDE DEF W
<1>5. ASSUME NEW a \in Cells
      PROVE  /\ W[a] \in Cell /\ W[a].want = cd[a].want
             /\ W[a].got = cd[a].got \cup Syms(a)
  <2>1. W[a] = [cd[a] EXCEPT !.got = @ \cup Syms(a)]
    BY <1>4
  <2>2. Syms(a) \subseteq Names /\ cd[a] \in Cell
    BY <1>2, <1>3
  <2> HIDE DEF Syms
  <2> QED
    BY <2>1, <2>2 DEF Cell
<1>6. W \in [Cells -> Cell]
  BY <1>4, <1>5
<1> QED
  BY <1>5, <1>6 DEF W

\* One pass over the pending range: the relocations keep what they are, some
\* get a target, and the cells they point at get their symbols.
LEMMA PatchEffect ==
    ASSUME IInv, CodeInv, NEW v, ViewOK(v), v.size = code_size, PatchPending(v)
    PROVE  /\ Len(relocs') = Len(relocs) /\ relocs' \in Seq(Link)
           /\ \A i \in 1 .. Len(relocs) :
                 /\ relocs'[i].sym = relocs[i].sym /\ relocs'[i].addr = relocs[i].addr
                 /\ relocs'[i].placed = relocs[i].placed
                 /\ relocs'[i].to # relocs[i].to =>
                       relocs'[i].to = Resolve(v, relocs[i].sym) /\ relocs'[i].to # NULL
           /\ code' \in [Cells -> Cell]
           /\ \A a \in Cells :
                 /\ code'[a].want = code[a].want
                 /\ \A n \in code'[a].got :
                       \/ n \in code[a].got
                       \/ \E i \in 1 .. Len(relocs) : relocs[i].addr = a /\ relocs[i].sym = n
           /\ \E A \in SUBSET (0 .. code_size - 1) :
                 CloseUpdate(MarkPatched(BeginUpdate(upd, code_size), A), code_size, stale \cup A)
           /\ UNCHANGED <<objdef, blobs, defs, code_size>>
<1> DEFINE lo == pending_start + 1
           hi == Len(relocs)
           I == IF pending THEN BoundBy(relocs, v, lo, hi) ELSE {}
<1>1. /\ relocs' = BindRelocs(relocs, v, I)
      /\ code' = WriteCells(code, relocs, I)
      /\ CloseUpdate(MarkPatched(BeginUpdate(upd, code_size), Written(relocs, I)),
                     code_size, stale \cup Written(relocs, I))
      /\ UNCHANGED <<objdef, blobs, defs, code_size>>
  BY DEF PatchPending
<1>2. /\ relocs \in Seq(Link) /\ hi \in Nat /\ lo \in Nat /\ lo >= 1
      /\ DOMAIN relocs = 1 .. hi /\ \A i \in 1 .. hi : relocs[i] \in Link
      /\ code_size \in Nat /\ code \in [Cells -> Cell]
  BY SeqIsFun, ConstantsAssumption DEF IInv, LinkTypes, CodeInv
<1>3. \A i \in I : /\ i \in 1 .. hi /\ Resolve(v, relocs[i].sym) # NULL
                   /\ relocs[i].addr < code_size
  <2>1. ASSUME NEW i \in BoundBy(relocs, v, lo, hi)
        PROVE  i \in 1 .. hi /\ Resolve(v, relocs[i].sym) # NULL /\ relocs[i].addr < code_size
    <3>1. i \in lo .. hi /\ Resolve(v, relocs[i].sym) # NULL /\ relocs[i].addr < v.size
      BY <1>2, BoundInside
    <3> QED
      BY <3>1, <1>2
  <2> QED
    BY <2>1
<1> HIDE DEF I, lo
<1>4. /\ BindRelocs(relocs, v, I) \in Seq(Link)
      /\ Len(BindRelocs(relocs, v, I)) = Len(relocs)
      /\ \A i \in 1 .. Len(relocs) :
            /\ BindRelocs(relocs, v, I)[i].sym = relocs[i].sym
            /\ BindRelocs(relocs, v, I)[i].addr = relocs[i].addr
            /\ BindRelocs(relocs, v, I)[i].placed = relocs[i].placed
            /\ BindRelocs(relocs, v, I)[i].to =
                  IF i \in I THEN Resolve(v, relocs[i].sym) ELSE relocs[i].to
  BY <1>2, BindCorrect
<1>5. \A i \in 1 .. hi :
         /\ relocs'[i].sym = relocs[i].sym /\ relocs'[i].addr = relocs[i].addr
         /\ relocs'[i].placed = relocs[i].placed
         /\ relocs'[i].to # relocs[i].to =>
               relocs'[i].to = Resolve(v, relocs[i].sym) /\ relocs'[i].to # NULL
  BY <1>1, <1>3, <1>4
<1>6. /\ WriteCells(code, relocs, I) \in [Cells -> Cell]
      /\ \A a \in Cells :
            /\ WriteCells(code, relocs, I)[a].want = code[a].want
            /\ \A n \in WriteCells(code, relocs, I)[a].got :
                  \/ n \in code[a].got
                  \/ \E i \in I : relocs[i].addr = a /\ relocs[i].sym = n
  <2>1. I \subseteq DOMAIN relocs
    BY <1>2, <1>3
  <2> QED
    BY <1>2, <2>1, WriteCorrect
<1>7. Written(relocs, I) \in SUBSET (0 .. code_size - 1)
  BY <1>2, <1>3 DEF Written, Link
<1>8. \A a \in Cells :
         /\ code'[a].want = code[a].want
         /\ \A n \in code'[a].got :
               \/ n \in code[a].got
               \/ \E i \in 1 .. Len(relocs) : relocs[i].addr = a /\ relocs[i].sym = n
  BY <1>1, <1>3, <1>6
<1>9. Len(relocs') = Len(relocs) /\ relocs' \in Seq(Link) /\ code' \in [Cells -> Cell]
  BY <1>1, <1>4, <1>6
<1>10. \E A \in SUBSET (0 .. code_size - 1) :
          CloseUpdate(MarkPatched(BeginUpdate(upd, code_size), A), code_size, stale \cup A)
  BY <1>1, <1>7
<1> QED
  BY <1>1, <1>5, <1>8, <1>9, <1>10

-----------------------------------------------------------------------------
(***************************************************************************)
(* The writable window                                                     *)
(***************************************************************************)
Window == [active : BOOLEAN, dirty : BOOLEAN, begin : 0 .. CodeCap]

\* Marking a patch lowers the start of the window to the lowest patch.
LEMMA MarkCorrect ==
    ASSUME NEW u \in Window, NEW A \in SUBSET (0 .. CodeCap - 1)
    PROVE  /\ MarkPatched(u, A) \in Window
           /\ MarkPatched(u, A).active = u.active
           /\ MarkPatched(u, A).dirty = (u.dirty \/ A # {})
           /\ MarkPatched(u, A).begin <= u.begin
           /\ \A a \in A : MarkPatched(u, A).begin <= a
<1> DEFINE L == Lowest(A \cup {u.begin})
<1>1. u.begin \in Nat /\ A \cup {u.begin} \subseteq 0 .. CodeCap
  <2>1. u.begin \in 0 .. CodeCap
    BY DEF Window
  <2>2. A \subseteq 0 .. CodeCap
    BY ConstantsAssumption
  <2>3. u.begin \in Nat
    BY <2>1, ConstantsAssumption
  <2> QED
    BY <2>1, <2>2, <2>3
<1>2. L \in A \cup {u.begin} /\ \A y \in A \cup {u.begin} : L <= y
  <2>1. A \cup {u.begin} \subseteq Nat
    BY <1>1
  <2> QED
    BY <2>1, LowestCorrect
<1>3. MarkPatched(u, A) = [u EXCEPT !.dirty = @ \/ A # {}, !.begin = L]
  BY DEF MarkPatched
<1> HIDE DEF L
<1>4. L \in 0 .. CodeCap
  BY <1>1, <1>2
<1>5. (u.dirty \/ A # {}) \in BOOLEAN
  OBVIOUS
<1>6. MarkPatched(u, A) = [active |-> u.active, dirty |-> (u.dirty \/ A # {}), begin |-> L]
  BY <1>3 DEF Window
<1>7. MarkPatched(u, A) \in Window
  BY <1>4, <1>5, <1>6 DEF Window
<1> QED
  BY <1>2, <1>6, <1>7

\* Opening the window.
LEMMA BeginCorrect ==
    ASSUME WindowInv, code_size \in 0 .. CodeCap
    PROVE  /\ BeginUpdate(upd, code_size) \in Window
           /\ BeginUpdate(upd, code_size).active
           /\ BeginUpdate(upd, code_size).begin <= code_size
           /\ \A a \in stale : /\ BeginUpdate(upd, code_size).dirty
                               /\ a \in BeginUpdate(upd, code_size).begin .. code_size - 1
<1>1. CASE upd.active
  BY <1>1 DEF WindowInv, BeginUpdate, Window
<1>2. CASE ~upd.active
  BY <1>2 DEF WindowInv, BeginUpdate, Window
<1> QED
  BY <1>1, <1>2

\* Closing it flushes what is stale.
LEMMA CloseCorrect ==
    ASSUME NEW u \in Window, u.active, NEW size \in 0 .. CodeCap, u.begin <= size,
           NEW st, \A a \in st : u.dirty /\ a \in u.begin .. size - 1,
           CloseUpdate(u, size, st), code_size' = size
    PROVE  WindowInv'
<1>1. CASE upd.active
  BY <1>1 DEF CloseUpdate, WindowInv, Window
<1>2. CASE ~upd.active
  <2>1. /\ upd' = [active |-> FALSE, dirty |-> FALSE, begin |-> size]
        /\ stale' = st \ Flushed(u, size)
    BY <1>2 DEF CloseUpdate
  <2>2. stale' = {}
    BY <2>1 DEF Flushed
  <2> QED
    BY <2>1, <2>2 DEF WindowInv
<1> QED
  BY <1>1, <1>2

\* A pass over the pending range leaves no stale byte outside the window.
LEMMA PatchWindow ==
    ASSUME WindowInv, code_size \in 0 .. CodeCap, code_size' = code_size,
           NEW A \in SUBSET (0 .. code_size - 1),
           CloseUpdate(MarkPatched(BeginUpdate(upd, code_size), A), code_size, stale \cup A)
    PROVE  WindowInv'
<1> DEFINE b == BeginUpdate(upd, code_size)
           u == MarkPatched(b, A)
<1>1. b \in Window /\ b.active /\ b.begin <= code_size
      /\ \A a \in stale : b.dirty /\ a \in b.begin .. code_size - 1
  BY BeginCorrect
<1>2. A \in SUBSET (0 .. CodeCap - 1) /\ A \subseteq 0 .. code_size - 1 /\ code_size \in Nat
  BY ConstantsAssumption
<1> HIDE DEF b
<1>3. /\ u \in Window /\ u.active = b.active /\ u.dirty = (b.dirty \/ A # {})
      /\ u.begin <= b.begin /\ \A a \in A : u.begin <= a
  BY <1>1, <1>2, MarkCorrect
<1> HIDE DEF u
<1>4. u.begin \in Nat /\ b.begin \in Nat /\ u.begin <= code_size
  BY <1>1, <1>2, <1>3 DEF Window
<1>5. ASSUME NEW a \in stale \cup A
      PROVE  u.dirty /\ a \in u.begin .. code_size - 1
  <2>1. u.dirty
    BY <1>1, <1>3
  <2>2. a \in u.begin .. code_size - 1
    <3>1. CASE a \in stale
      <4>1. a \in b.begin .. code_size - 1 /\ u.begin <= b.begin
        BY <3>1, <1>1, <1>3
      <4> QED
        BY <4>1, <1>2, <1>4
    <3>2. CASE a \in A
      <4>1. a \in 0 .. code_size - 1 /\ u.begin <= a
        BY <3>2, <1>2, <1>3
      <4> QED
        BY <4>1, <1>2, <1>4
    <3> QED
      BY <3>1, <3>2
  <2> QED
    BY <2>1, <2>2
<1>6. CloseUpdate(u, code_size, stale \cup A)
  BY DEF u, b
<1> QED
  BY <1>1, <1>3, <1>4, <1>5, <1>6, CloseCorrect

-----------------------------------------------------------------------------
(***************************************************************************)
(* The effect of finish_direct_compile; the names are those of FuncEnd     *)
(***************************************************************************)
Base == AlignUp(code_size)
Start == active_start + 1
Rel(calls) == PlaceRelocs(relocs \o Emitted(calls), Start, Base)
V1(calls) == [View EXCEPT !.obj = DefineObj(objdef, cur.name, Base),
                          !.size = Base + FuncLen(calls)]
All1(calls) == PatchedAll(Rel(calls), V1(calls), Start, Len(Rel(calls)))
I1(calls) == BoundBy(Rel(calls), V1(calls), Start, Len(Rel(calls)))
From(calls) == PendingStart(Start, All1(calls)) + 1
Sym1(calls) == CacheLookups(V1(calls), LookedUp(Rel(calls), V1(calls), Start, Len(Rel(calls))))
Sym2(calls) == JitAddSymbol([V1(calls) EXCEPT !.sym = Sym1(calls)], cur.name, CodeAddr(Base))
V2(calls) == [V1(calls) EXCEPT !.sym = Sym2(calls)]
I2(calls) == IF pending \/ ~All1(calls)
             THEN BoundBy(Rel(calls), V2(calls), From(calls), Len(Rel(calls)))
             ELSE {}

\* Rounding up does not go down.
LEMMA AlignUpCorrect ==
    ASSUME NEW x \in Nat
    PROVE  AlignUp(x) \in Nat /\ x <= AlignUp(x)
<1> DEFINE y == x + Align - 1
           q == y \div Align
<1>1. Align \in Nat \ {0} /\ y \in Nat
  BY ConstantsAssumption
<1>2. q \in Nat /\ y = q * Align + (y % Align) /\ (y % Align) \in 0 .. Align - 1
  BY <1>1
<1>3. AlignUp(x) = q * Align
  BY DEF AlignUp
<1>4. q * Align \in Nat
  BY <1>1, <1>2
<1> HIDE DEF q
<1> QED
  BY <1>1, <1>2, <1>3, <1>4

\* The call in terms of these names.
LEMMA FuncEndNamed ==
    ASSUME NEW calls, FuncEnd(calls)
    PROVE  /\ cur # NULL /\ cur.blocks /\ Base + FuncLen(calls) <= CodeCap
           /\ relocs' = BindRelocs(BindRelocs(Rel(calls), V1(calls), I1(calls)),
                                   V2(calls), I2(calls))
           /\ objdef' = V1(calls).obj
           /\ blobs' = Append(blobs, [name |-> cur.name, base |-> Base,
                          relocs |-> [k \in 1 .. (Len(Rel(calls)) - active_start) |->
                                         Rel(calls)[active_start + k].sym]])
           /\ defs' = [defs EXCEPT ![cur.name] = @ + 1]
           /\ \/ symbols' = Sym2(calls)
              \/ \E N : symbols' = CacheLookups(V2(calls), N)
           /\ code' = WriteCells(PlaceCode(code, Base, calls), Rel(calls),
                                 I1(calls) \cup I2(calls))
           /\ code_size' = Base + FuncLen(calls)
           /\ CloseUpdate(MarkPatched([BeginUpdate(upd, code_size) EXCEPT !.dirty = TRUE],
                                      Written(Rel(calls), I1(calls) \cup I2(calls))),
                          code_size',
                          stale \cup (Base .. (code_size' - 1))
                                \cup Written(Rel(calls), I1(calls) \cup I2(calls)))
           /\ FinishFunctionState
           /\ answered' = FALSE
           /\ UNCHANGED <<lazy, libs>>
BY DEF FuncEnd, FitsCode, Base, Start, Rel, V1, All1, I1, From, Sym1, Sym2, V2, I2

\* Where the function goes.
LEMMA FuncEndBase ==
    ASSUME IInv, NEW calls \in Calls, FuncEnd(calls)
    PROVE  /\ cur \in Func /\ cur.name \in Names /\ cur.id \in 1 .. MaxBegins
           /\ Len(calls) \in 0 .. MaxCalls /\ calls \in Seq(Names)
           /\ active_start = Len(relocs) /\ Len(relocs) \in Nat /\ relocs \in Seq(Link)
           /\ code_size \in 0 .. CodeCap
           /\ Base \in 0 .. CodeCap - 1 /\ code_size <= Base
           /\ code_size' = Base + Len(calls) + 1 /\ code_size' \in 0 .. CodeCap
<1>1. cur # NULL /\ code_size' = Base + FuncLen(calls) /\ Base + FuncLen(calls) <= CodeCap
  BY FuncEndNamed
<1>2. /\ cur \in Func /\ cur.name \in Names /\ cur.id \in 1 .. MaxBegins
      /\ active_start = Len(relocs) /\ Len(relocs) \in Nat /\ relocs \in Seq(Link)
      /\ code_size \in 0 .. CodeCap
  BY <1>1 DEF IInv, LinkTypes, ActiveAtEnd, Func
<1>3. Len(calls) \in 0 .. MaxCalls /\ calls \in Seq(Names)
  <2>1. PICK k \in 0 .. MaxCalls : calls \in [1 .. k -> Names]
    BY DEF Calls
  <2>2. k \in Nat
    BY ConstantsAssumption
  <2> QED
    BY <2>1, <2>2, FunIsSeq
<1>4. Base \in Nat /\ code_size <= Base
  BY <1>2, AlignUpCorrect DEF Base
<1>5. CodeCap \in Nat /\ Len(calls) \in Nat
  BY <1>3, ConstantsAssumption
<1>6. FuncLen(calls) = Len(calls) + 1
  BY DEF FuncLen
<1>7. Base \in 0 .. CodeCap - 1
  BY <1>1, <1>4, <1>5, <1>6
<1>8. code_size' = Base + Len(calls) + 1 /\ code_size' \in 0 .. CodeCap
  BY <1>1, <1>4, <1>5, <1>6
<1> QED
  BY <1>2, <1>3, <1>4, <1>7, <1>8

\* The relocations with the function's own ones placed.
LEMMA FuncEndRel ==
    ASSUME IInv, NEW calls \in Calls, FuncEnd(calls)
    PROVE  /\ Rel(calls) \in Seq(Link) /\ Len(Rel(calls)) = Len(relocs) + Len(calls)
           /\ \A i \in 1 .. Len(relocs) : Rel(calls)[i] = relocs[i]
           /\ \A k \in 1 .. Len(calls) :
                 /\ Rel(calls)[Len(relocs) + k].sym = calls[k]
                 /\ Rel(calls)[Len(relocs) + k].addr = Base + k
                 /\ Rel(calls)[Len(relocs) + k].placed
                 /\ Rel(calls)[Len(relocs) + k].to = NULL
<1> DEFINE E == Emitted(calls)
           cat == relocs \o E
           n == Len(relocs)
           m == Len(calls)
<1>1. /\ n \in Nat /\ m \in Nat /\ relocs \in Seq(Link) /\ Base \in Nat /\ Start = n + 1
      /\ Start \in Nat /\ calls \in Seq(Names)
  BY FuncEndBase DEF Start
<1>2. /\ E \in Seq(Link) /\ Len(E) = m
  BY EmittedCorrect
<1>2a. \A k \in 1 .. m : E[k].sym = calls[k] /\ E[k].addr = k /\ E[k].to = NULL
  BY DEF Emitted
<1> HIDE DEF E
<1>3. /\ cat \in Seq(Link) /\ Len(cat) = n + m /\ DOMAIN cat = 1 .. n + m
      /\ \A i \in 1 .. n : cat[i] = relocs[i]
      /\ \A k \in 1 .. m : cat[n + k] = E[k]
  <2>0. relocs \in Seq(Link) /\ E \in Seq(Link)
    BY <1>1, <1>2
  <2>1. /\ relocs \o E \in Seq(Link) /\ Len(relocs \o E) = n + Len(E)
        /\ DOMAIN (relocs \o E) = 1 .. n + Len(E)
        /\ \A i \in 1 .. n : (relocs \o E)[i] = relocs[i]
        /\ \A k \in 1 .. Len(E) : (relocs \o E)[n + k] = E[k]
    BY <2>0, ConcatCorrect
  <2> QED
    BY <2>1, <1>1, <1>2
<1>4. Rel(calls) = PlaceRelocs(cat, Start, Base)
  BY DEF Rel, E
<1>5. /\ Rel(calls) \in Seq(Link) /\ Len(Rel(calls)) = n + m
      /\ \A i \in 1 .. n : Rel(calls)[i] = relocs[i]
  <2> HIDE DEF cat
  <2>0. cat \in Seq(Link) /\ Start \in Nat /\ Base \in Nat
    BY <1>1, <1>3
  <2>a. \A lo \in Nat, base \in Nat :
          /\ PlaceRelocs(cat, lo, base) \in Seq(Link)
          /\ Len(PlaceRelocs(cat, lo, base)) = Len(cat)
          /\ \A i \in 1 .. Len(cat) : i < lo => PlaceRelocs(cat, lo, base)[i] = cat[i]
    BY <2>0, PlaceCorrect
  <2>1. /\ PlaceRelocs(cat, Start, Base) \in Seq(Link)
        /\ Len(PlaceRelocs(cat, Start, Base)) = Len(cat)
        /\ \A i \in 1 .. Len(cat) : i < Start => PlaceRelocs(cat, Start, Base)[i] = cat[i]
    BY <2>0, <2>a
  <2>2. \A i \in 1 .. n : i \in 1 .. n + m /\ i < Start
    BY <1>1
  <2> QED
    BY <2>1, <2>2, <1>3, <1>4
<1>6. ASSUME NEW k \in 1 .. m
      PROVE  /\ Rel(calls)[n + k].sym = calls[k] /\ Rel(calls)[n + k].addr = Base + k
             /\ Rel(calls)[n + k].placed /\ Rel(calls)[n + k].to = NULL
  <2> DEFINE r == cat[n + k]
             q == [r EXCEPT !.addr = @ + Base, !.placed = TRUE]
  <2>1. n + k \in DOMAIN cat /\ n + k >= Start /\ k \in Nat
    BY <1>1, <1>3
  <2>2. /\ r \in Link /\ r.sym = calls[k] /\ r.addr = k /\ r.to = NULL
    <3>0. E[k] \in Link
      BY <1>2, SeqIsFun
    <3>1. E[k].sym = calls[k] /\ E[k].addr = k /\ E[k].to = NULL
      BY <1>2a
    <3>2. cat[n + k] = E[k]
      BY <1>3
    <3> HIDE DEF cat
    <3> QED
      BY <3>0, <3>1, <3>2
  <2> HIDE DEF cat
  <2>3. Rel(calls)[n + k] = q
    BY <2>1, <1>4 DEF PlaceRelocs
  <2> HIDE DEF r
  <2>4. q.sym = r.sym /\ q.addr = r.addr + Base /\ q.placed /\ q.to = r.to
    BY <2>2 DEF Link
  <2> HIDE DEF q
  <2> QED
    BY <2>1, <2>2, <2>3, <2>4, <1>1
<1> QED
  BY <1>5, <1>6

\* The views the two passes resolve with.
LEMMA FuncEndViews ==
    ASSUME IInv, NEW calls \in Calls, FuncEnd(calls)
    PROVE  /\ ViewOK(V1(calls)) /\ ViewOK(V2(calls))
           /\ V1(calls).obj = DefineObj(objdef, cur.name, Base)
           /\ V1(calls).sym = symbols /\ V1(calls).lazy = lazy /\ V1(calls).libs = libs
           /\ V1(calls).size = code_size'
           /\ V2(calls).obj = V1(calls).obj /\ V2(calls).sym = Sym2(calls)
           /\ V2(calls).lazy = lazy /\ V2(calls).libs = libs
           /\ V2(calls).size = code_size'
           /\ Sym1(calls) \in Table /\ Sym2(calls) \in Table
<1>1. /\ cur.name \in Names /\ Base \in 0 .. CodeCap /\ code_size' = Base + FuncLen(calls)
  BY FuncEndBase, ConstantsAssumption DEF FuncLen
<1>2. objdef \in ObjTable /\ symbols \in Table
  BY DEF IInv, LinkTypes
<1>3. /\ V1(calls).obj = DefineObj(objdef, cur.name, Base)
      /\ V1(calls).sym = symbols /\ V1(calls).lazy = lazy /\ V1(calls).libs = libs
      /\ V1(calls).size = code_size'
  BY <1>1 DEF V1, View
<1>4. ViewOK(V1(calls))
  <2>1. DefineObj(objdef, cur.name, Base) \in ObjTable
    BY <1>1, <1>2 DEF DefineObj, ObjTable
  <2> QED
    BY <2>1, <1>2, <1>3 DEF ViewOK
<1>5. Sym1(calls) \in Table
  BY <1>4, CacheType DEF Sym1
<1>6. Sym2(calls) \in Table
  <2> DEFINE w == [V1(calls) EXCEPT !.sym = Sym1(calls)]
  <2>1. w.sym = Sym1(calls) /\ w.obj = V1(calls).obj
    BY DEF V1, View
  <2>2. ViewOK(w)
    BY <2>1, <1>4, <1>5 DEF ViewOK
  <2>3. CodeAddr(Base) \in Address
    BY <1>1, AddressKinds
  <2> HIDE DEF w
  <2>4. JitAddSymbol(w, cur.name, CodeAddr(Base)) \in Table
    BY <2>2, <2>3, <1>1, AddType
  <2> QED
    BY <2>4 DEF w, Sym2
<1>7. /\ V2(calls).obj = V1(calls).obj /\ V2(calls).sym = Sym2(calls)
      /\ V2(calls).lazy = lazy /\ V2(calls).libs = libs
      /\ V2(calls).size = code_size'
  BY <1>3 DEF V2, V1, View
<1>8. ViewOK(V2(calls))
  BY <1>4, <1>6, <1>7 DEF ViewOK
<1> QED
  BY <1>3, <1>4, <1>5, <1>6, <1>7, <1>8

\* Both passes bind relocations of the table, inside the code.
LEMMA FuncEndBound ==
    ASSUME IInv, NEW calls \in Calls, FuncEnd(calls)
    PROVE  /\ \A i \in I1(calls) : /\ i \in 1 .. Len(Rel(calls))
                                   /\ Resolve(V1(calls), Rel(calls)[i].sym) # NULL
                                   /\ Rel(calls)[i].addr < code_size'
           /\ \A i \in I2(calls) : /\ i \in 1 .. Len(Rel(calls))
                                   /\ Resolve(V2(calls), Rel(calls)[i].sym) # NULL
                                   /\ Rel(calls)[i].addr < code_size'
<1>1. Start \in Nat \ {0} /\ Len(Rel(calls)) \in Nat
  <2>1. Len(relocs) \in Nat /\ Len(calls) \in Nat /\ active_start = Len(relocs)
    BY FuncEndBase
  <2> QED
    BY <2>1, FuncEndRel DEF Start
<1>2. From(calls) \in Nat \ {0}
  <2>1. pending_start \in Nat
    BY DEF IInv, LinkTypes
  <2> QED
    BY <2>1, <1>1 DEF From, PendingStart
<1>3. V1(calls).size = code_size' /\ V2(calls).size = code_size'
  BY FuncEndViews
<1>4. ASSUME NEW i \in I1(calls)
      PROVE  /\ i \in 1 .. Len(Rel(calls))
             /\ Resolve(V1(calls), Rel(calls)[i].sym) # NULL /\ Rel(calls)[i].addr < code_size'
  <2>1. /\ i \in Start .. Len(Rel(calls))
        /\ Resolve(V1(calls), Rel(calls)[i].sym) # NULL /\ Rel(calls)[i].addr < V1(calls).size
    BY <1>1, <1>4, BoundInside DEF I1
  <2> QED
    BY <2>1, <1>1, <1>3
<1>5. ASSUME NEW i \in I2(calls)
      PROVE  /\ i \in 1 .. Len(Rel(calls))
             /\ Resolve(V2(calls), Rel(calls)[i].sym) # NULL /\ Rel(calls)[i].addr < code_size'
  <2>1. i \in BoundBy(Rel(calls), V2(calls), From(calls), Len(Rel(calls)))
    BY <1>5 DEF I2
  <2>2. /\ i \in From(calls) .. Len(Rel(calls))
        /\ Resolve(V2(calls), Rel(calls)[i].sym) # NULL /\ Rel(calls)[i].addr < V2(calls).size
    BY <1>1, <1>2, <2>1, BoundInside
  <2> QED
    BY <2>2, <1>1, <1>2, <1>3
<1> QED
  BY <1>4, <1>5

\* The table of relocations after the call.
LEMMA FuncEndRelocs ==
    ASSUME IInv, NEW calls \in Calls, FuncEnd(calls)
    PROVE  /\ relocs' \in Seq(Link) /\ Len(relocs') = Len(relocs) + Len(calls)
           /\ \A i \in 1 .. Len(Rel(calls)) :
                 /\ relocs'[i].sym = Rel(calls)[i].sym
                 /\ relocs'[i].addr = Rel(calls)[i].addr
                 /\ relocs'[i].placed = Rel(calls)[i].placed
                 /\ relocs'[i].to # Rel(calls)[i].to =>
                       /\ relocs'[i].to # NULL
                       /\ relocs'[i].to \in {Resolve(V1(calls), Rel(calls)[i].sym),
                                             Resolve(V2(calls), Rel(calls)[i].sym)}
<1> DEFINE R == Rel(calls)
           B == BindRelocs(R, V1(calls), I1(calls))
           C == BindRelocs(B, V2(calls), I2(calls))
<1>1. R \in Seq(Link) /\ Len(R) = Len(relocs) + Len(calls)
  BY FuncEndRel
<1>2. ViewOK(V1(calls)) /\ ViewOK(V2(calls))
  BY FuncEndViews
<1>3. relocs' = C
  BY FuncEndNamed
<1> HIDE DEF R
<1>4. /\ B \in Seq(Link) /\ Len(B) = Len(R)
      /\ \A i \in 1 .. Len(R) :
            /\ B[i].sym = R[i].sym /\ B[i].addr = R[i].addr /\ B[i].placed = R[i].placed
            /\ B[i].to = IF i \in I1(calls) THEN Resolve(V1(calls), R[i].sym) ELSE R[i].to
  BY <1>1, <1>2, BindCorrect
<1> HIDE DEF B
<1>5. /\ C \in Seq(Link) /\ Len(C) = Len(R)
      /\ \A i \in 1 .. Len(R) :
            /\ C[i].sym = B[i].sym /\ C[i].addr = B[i].addr /\ C[i].placed = B[i].placed
            /\ C[i].to = IF i \in I2(calls) THEN Resolve(V2(calls), B[i].sym) ELSE B[i].to
  BY <1>2, <1>4, BindCorrect
<1> HIDE DEF C
<1>6. \A i \in 1 .. Len(R) :
         /\ C[i].sym = R[i].sym /\ C[i].addr = R[i].addr /\ C[i].placed = R[i].placed
         /\ C[i].to = IF i \in I2(calls) THEN Resolve(V2(calls), R[i].sym)
                      ELSE IF i \in I1(calls) THEN Resolve(V1(calls), R[i].sym) ELSE R[i].to
  BY <1>4, <1>5
<1>7. /\ \A i \in I1(calls) : Resolve(V1(calls), R[i].sym) # NULL
      /\ \A i \in I2(calls) : Resolve(V2(calls), R[i].sym) # NULL
  BY FuncEndBound DEF R
<1>8. \A i \in 1 .. Len(R) : C[i].to # R[i].to =>
         /\ C[i].to # NULL
         /\ C[i].to \in {Resolve(V1(calls), R[i].sym), Resolve(V2(calls), R[i].sym)}
  BY <1>6, <1>7
<1> QED
  BY <1>1, <1>3, <1>5, <1>6, <1>8 DEF R

\* The code after the call: the function's cells, and symbols written to the
\* cells that relocations point at.
LEMMA FuncEndCode ==
    ASSUME IInv, CodeInv, NEW calls \in Calls, FuncEnd(calls)
    PROVE  /\ code' \in [Cells -> Cell]
           /\ \A a \in Cells :
                 a \notin Base .. (Base + Len(calls)) =>
                     /\ code'[a].want = code[a].want
                     /\ \A n \in code'[a].got :
                           \/ n \in code[a].got
                           \/ \E i \in 1 .. Len(relocs') :
                                 relocs'[i].addr = a /\ relocs'[i].sym = n
           /\ \A a \in Cells :
                 a \in Base .. (Base + Len(calls)) =>
                     /\ a # Base => code'[a].want = calls[a - Base]
                     /\ \A n \in code'[a].got :
                           \E i \in 1 .. Len(relocs') :
                                 relocs'[i].addr = a /\ relocs'[i].sym = n
<1> DEFINE P == PlaceCode(code, Base, calls)
           I == I1(calls) \cup I2(calls)
           R == Rel(calls)
           W == WriteCells(P, R, I)
<1>1. /\ Base \in Nat /\ Len(calls) \in Nat /\ calls \in Seq(Names)
      /\ code \in [Cells -> Cell]
  BY FuncEndBase, ConstantsAssumption DEF CodeInv
<1>2. DOMAIN code = Cells /\ \A a \in Cells : code[a] \in Cell
  BY <1>1
<1>3. ASSUME NEW a \in Cells
      PROVE  /\ P[a] \in Cell
             /\ a \in Base .. (Base + Len(calls)) =>
                   P[a].got = {} /\ (a # Base => P[a].want = calls[a - Base])
             /\ a \notin Base .. (Base + Len(calls)) => P[a] = code[a]
  <2>1. P[a] = IF a \in Base .. (Base + Len(calls))
               THEN [want |-> IF a = Base THEN NULL ELSE calls[a - Base], got |-> {}]
               ELSE code[a]
    BY <1>2 DEF PlaceCode
  <2>2. CASE a \notin Base .. (Base + Len(calls))
    BY <2>1, <2>2, <1>2
  <2>3. CASE a \in Base .. (Base + Len(calls))
    <3> DEFINE w == IF a = Base THEN NULL ELSE calls[a - Base]
    <3>1. P[a] = [want |-> w, got |-> {}]
      BY <2>1, <2>3
    <3>2. w \in Names \cup {NULL} /\ (a # Base => w = calls[a - Base])
      <4>1. a # Base => a - Base \in 1 .. Len(calls)
        BY <1>1, <2>3
      <4> QED
        BY <4>1, <1>1
    <3> HIDE DEF w
    <3>3. P[a].want = w /\ P[a].got = {} /\ P[a] \in Cell
      BY <3>1, <3>2 DEF Cell
    <3> QED
      BY <3>2, <3>3, <2>3
  <2> QED
    BY <2>2, <2>3
<1>4. P = [a \in Cells |-> P[a]]
  BY <1>2 DEF PlaceCode
<1> HIDE DEF P
<1>5. P \in [Cells -> Cell]
  BY <1>3, <1>4
<1>6. R \in Seq(Link) /\ I \subseteq 1 .. Len(R) /\ DOMAIN R = 1 .. Len(R)
  BY FuncEndRel, FuncEndBound, SeqIsFun
<1> HIDE DEF R, I
<1>7. /\ W \in [Cells -> Cell]
      /\ \A a \in Cells :
            /\ W[a].want = P[a].want
            /\ \A n \in W[a].got :
                  n \in P[a].got \/ \E i \in I : R[i].addr = a /\ R[i].sym = n
  <2>1. I \subseteq DOMAIN R
    BY <1>6
  <2> QED
    BY <2>1, <1>5, <1>6, WriteCorrect
<1>8. code' = W
  BY FuncEndNamed DEF P, R, I
<1> HIDE DEF W
<1>9. /\ Len(relocs') = Len(R)
      /\ \A i \in 1 .. Len(R) : relocs'[i].sym = R[i].sym /\ relocs'[i].addr = R[i].addr
  BY FuncEndRelocs, FuncEndRel DEF R
<1>10. ASSUME NEW a \in Cells, NEW n \in code'[a].got
       PROVE  \/ n \in P[a].got
              \/ \E i \in 1 .. Len(relocs') : relocs'[i].addr = a /\ relocs'[i].sym = n
  <2>1. n \in P[a].got \/ \E i \in I : R[i].addr = a /\ R[i].sym = n
    BY <1>7, <1>8, <1>10
  <2>2. CASE n \in P[a].got
    BY <2>2
  <2>3. CASE \E i \in I : R[i].addr = a /\ R[i].sym = n
    <3>1. PICK i \in I : R[i].addr = a /\ R[i].sym = n
      BY <2>3
    <3>2. i \in 1 .. Len(R) /\ i \in 1 .. Len(relocs')
      BY <1>6, <1>9
    <3>3. relocs'[i].addr = a /\ relocs'[i].sym = n
      BY <3>1, <3>2, <1>9
    <3> QED
      BY <3>2, <3>3
  <2> QED
    BY <2>1, <2>2, <2>3
<1>11. ASSUME NEW a \in Cells, a \notin Base .. (Base + Len(calls))
       PROVE  /\ code'[a].want = code[a].want
              /\ \A n \in code'[a].got :
                    \/ n \in code[a].got
                    \/ \E i \in 1 .. Len(relocs') :
                          relocs'[i].addr = a /\ relocs'[i].sym = n
  BY <1>3, <1>7, <1>8, <1>10, <1>11
<1>12. ASSUME NEW a \in Cells, a \in Base .. (Base + Len(calls))
       PROVE  /\ a # Base => code'[a].want = calls[a - Base]
              /\ \A n \in code'[a].got :
                    \E i \in 1 .. Len(relocs') : relocs'[i].addr = a /\ relocs'[i].sym = n
  BY <1>3, <1>7, <1>8, <1>10, <1>12
<1> QED
  BY <1>7, <1>8, <1>11, <1>12

-----------------------------------------------------------------------------
(***************************************************************************)
(* Open functions                                                          *)
(***************************************************************************)
\* OpenFunctionsKept without its abbreviations.
LEMMA OnePlaceMeans == OpenInv => OpenFunctionsKept
BY DEF OpenFunctionsKept, OpenInv, OnePlace, Here, There

\* A step that leaves the functions alone.
LEMMA OpenSame ==
    ASSUME OpenInv, UNCHANGED funcs
    PROVE  OpenInv'
BY DEF OpenInv, funcs, OnePlace, Here, There

\* A function that ends is removed from the open ones.
LEMMA OpenEnds ==
    ASSUME IInv, OpenInv, cur # NULL, FinishFunctionState
    PROVE  OpenInv'
<1>1. cur' = NULL /\ open' = open \ {cur.id} /\ suspended' = suspended /\ begun' = begun
  BY DEF FinishFunctionState
<1>2. OnePlace /\ open \subseteq 1 .. begun
  BY DEF OpenInv
<1>3. Here = {cur.id} /\ Here' = {} /\ There' = There
  BY <1>1 DEF Here, There
<1>4. cur.id \notin There
  BY <1>2, <1>3 DEF OnePlace, There
<1>5. OnePlace'
  BY <1>1, <1>2, <1>3, <1>4 DEF OnePlace
<1> QED
  BY <1>1, <1>2, <1>5 DEF OpenInv

\* Begin, block, suspend and resume.
LEMMA OpenMoves ==
    ASSUME IInv, OpenInv,
           \/ \E f \in FuncNames : FuncBegin(f)
           \/ Block \/ SuspendFunc
           \/ \E i \in DOMAIN suspended : ResumeFunc(i)
    PROVE  OpenInv'
<1> DEFINE n == Len(suspended)
<1>1. /\ suspended \in Seq(Func) /\ n \in Nat /\ DOMAIN suspended = 1 .. n
      /\ \A k \in 1 .. n : suspended[k] \in Func
      /\ begun \in Nat /\ cur \in Func \cup {NULL}
  BY SeqIsFun, ConstantsAssumption DEF IInv, LinkTypes
<1>2. OnePlace /\ open \subseteq 1 .. begun
  BY DEF OpenInv
<1>3. ASSUME NEW f \in FuncNames, FuncBegin(f) PROVE OpenInv'
  <2>1. /\ cur = NULL /\ begun < MaxBegins /\ begun' = begun + 1 /\ open' = open \cup {begun + 1}
        /\ cur' = [name |-> f, id |-> begun + 1, blocks |-> FALSE] /\ suspended' = suspended
    BY <1>3 DEF FuncBegin
  <2>2. cur' \in Func /\ cur'.id = begun + 1
    BY <2>1, <1>1, ConstantsAssumption DEF Func
  <2>3. Here = {} /\ Here' = {begun + 1} /\ There' = There
    <3>1. cur' # NULL
      BY <2>2, NullAssumption
    <3> QED
      BY <2>1, <2>2, <3>1 DEF Here, There
  <2>4. begun + 1 \notin There
    <3>1. There \subseteq 1 .. begun
      BY <1>2 DEF OnePlace
    <3> QED
      BY <3>1, <1>1
  <2>5. OnePlace'
    BY <2>1, <2>3, <2>4, <1>2 DEF OnePlace, There
  <2>6. open' \subseteq 1 .. begun'
    BY <2>1, <1>1, <1>2
  <2> QED
    BY <2>5, <2>6 DEF OpenInv
<1>4. ASSUME Block PROVE OpenInv'
  <2>1. /\ cur # NULL /\ cur' = [cur EXCEPT !.blocks = TRUE]
        /\ UNCHANGED <<suspended, begun, open>>
    BY <1>4 DEF Block
  <2>2. cur' \in Func /\ cur'.id = cur.id
    BY <2>1, <1>1 DEF Func
  <2>3. Here' = Here /\ There' = There
    <3>1. cur' # NULL
      BY <2>2, NullAssumption
    <3> QED
      BY <2>1, <2>2, <3>1 DEF Here, There
  <2>4. OnePlace'
    BY <2>1, <2>3, <1>2 DEF OnePlace
  <2> QED
    BY <2>1, <2>4, <1>2 DEF OpenInv
<1>5. ASSUME SuspendFunc PROVE OpenInv'
  <2>1. /\ cur # NULL /\ cur' = NULL /\ suspended' = Append(suspended, cur)
        /\ UNCHANGED <<begun, open>>
    BY <1>5 DEF SuspendFunc
  <2>2. /\ DOMAIN suspended' = 1 .. n + 1 /\ suspended'[n + 1] = cur
        /\ \A k \in 1 .. n : suspended'[k] = suspended[k]
    BY <2>1, <1>1
  <2>3. Here = {cur.id} /\ Here' = {}
    BY <2>1 DEF Here
  <2>4. There' = There \cup {cur.id}
    <3>1. There' \subseteq There \cup {cur.id}
      <4> SUFFICES ASSUME NEW k \in DOMAIN suspended'
                   PROVE  suspended'[k].id \in There \cup {cur.id}
        BY DEF There
      <4>1. k = n + 1 \/ k \in 1 .. n
        BY <2>2, <1>1
      <4> QED
        BY <4>1, <2>2, <1>1 DEF There
    <3>2. There \subseteq There'
      <4> SUFFICES ASSUME NEW k \in DOMAIN suspended
                   PROVE  suspended[k].id \in There'
        BY DEF There
      <4>1. k \in DOMAIN suspended' /\ suspended'[k] = suspended[k]
        BY <2>2, <1>1
      <4> QED
        BY <4>1 DEF There
    <3>3. cur.id \in There'
      <4>1. n + 1 \in DOMAIN suspended'
        BY <2>2, <1>1
      <4> QED
        BY <4>1, <2>2 DEF There
    <3> QED
      BY <3>1, <3>2, <3>3
  <2>5. ASSUME NEW k \in DOMAIN suspended', NEW m \in DOMAIN suspended', k # m
        PROVE  suspended'[k].id # suspended'[m].id
    <3>1. (k \in 1 .. n \/ k = n + 1) /\ (m \in 1 .. n \/ m = n + 1)
      BY <2>2, <1>1
    <3>2. \A j \in 1 .. n : suspended[j].id # cur.id
      BY <1>1, <1>2, <2>3 DEF OnePlace
    <3> QED
      BY <3>1, <3>2, <2>2, <2>5, <1>1, <1>2 DEF OnePlace
  <2>6. OnePlace'
    BY <2>1, <2>3, <2>4, <2>5, <1>2 DEF OnePlace
  <2> QED
    BY <2>1, <2>6, <1>2 DEF OpenInv
<1>6. ASSUME NEW i \in DOMAIN suspended, ResumeFunc(i) PROVE OpenInv'
  <2>1. /\ cur = NULL /\ cur' = suspended[i] /\ suspended' = RemoveSlot(suspended, i)
        /\ UNCHANGED <<begun, open>>
    BY <1>6 DEF ResumeFunc
  <2> DEFINE old(k) == IF k < i THEN k ELSE k + 1
  <2>2. /\ DOMAIN suspended' = 1 .. n - 1
        /\ \A k \in 1 .. n - 1 : old(k) \in 1 .. n /\ old(k) # i
                                 /\ suspended'[k] = suspended[old(k)]
        /\ \A k, m \in 1 .. n - 1 : k # m => old(k) # old(m)
    <3>1. i \in 1 .. n
      BY <1>1
    <3>2. suspended' = [k \in 1 .. n - 1 |-> IF k < i THEN suspended[k] ELSE suspended[k + 1]]
      BY <2>1 DEF RemoveSlot
    <3>3. \A k \in 1 .. n - 1 : old(k) \in 1 .. n /\ old(k) # i
      BY <3>1, <1>1
    <3>4. \A k, m \in 1 .. n - 1 : k # m => old(k) # old(m)
      BY <3>1, <1>1
    <3> QED
      BY <3>2, <3>3, <3>4
  <2>3. Here = {} /\ Here' = {suspended[i].id}
    <3>1. cur' # NULL
      BY <2>1, <1>1, NullAssumption
    <3> QED
      BY <2>1, <3>1 DEF Here
  <2>4. There = There' \cup {suspended[i].id}
    <3>1. There \subseteq There' \cup {suspended[i].id}
      <4> SUFFICES ASSUME NEW j \in DOMAIN suspended, j # i
                   PROVE  suspended[j].id \in There'
        BY DEF There
      <4> DEFINE k == IF j < i THEN j ELSE j - 1
      <4>1. k \in 1 .. n - 1 /\ old(k) = j
        BY <1>1
      <4> HIDE DEF k, old
      <4> QED
        BY <4>1, <2>2 DEF There
    <3>2. There' \subseteq There
      <4> SUFFICES ASSUME NEW k \in DOMAIN suspended'
                   PROVE  suspended'[k].id \in There
        BY DEF There
      <4> HIDE DEF old
      <4> QED
        BY <2>2, <1>1 DEF There
    <3>3. suspended[i].id \in There
      BY DEF There
    <3> QED
      BY <3>1, <3>2, <3>3
  <2> HIDE DEF old
  <2>5. ASSUME NEW k \in DOMAIN suspended', NEW m \in DOMAIN suspended', k # m
        PROVE  suspended'[k].id # suspended'[m].id
    BY <2>2, <2>5, <1>1, <1>2 DEF OnePlace
  <2>6. ASSUME NEW k \in DOMAIN suspended'
        PROVE  suspended'[k].id # suspended[i].id
    BY <2>2, <1>1, <1>2 DEF OnePlace
  <2>7. OnePlace'
    BY <2>1, <2>3, <2>4, <2>5, <2>6, <1>2 DEF OnePlace
  <2> QED
    BY <2>1, <2>7, <1>2 DEF OpenInv
<1> QED
  BY <1>3, <1>4, <1>5, <1>6

\* No call loses an open function or keeps it in two places.
LEMMA OpenStep ==
    ASSUME IInv, OpenInv, [Next]_vars
    PROVE  OpenInv'
<1>1. CASE \/ FuncEndWithoutCode \/ \E calls \in Calls : FuncEndFails(calls) \/ FuncEnd(calls)
  <2>1. cur # NULL /\ FinishFunctionState
    BY <1>1, FuncEndNamed DEF FuncEndWithoutCode, FuncEndFails
  <2> QED
    BY <2>1, OpenEnds
<1>2. CASE \/ \E n \in OtherNames : AddSymbol(n) \/ Global(n) \/ CompileModule(n)
           \/ LoadLibrary
           \/ \E n \in Names : LookupPending(n) \/ LookupReady(n)
           \/ JitBeginUpdate \/ JitEndUpdate \/ UNCHANGED vars
  <2>1. UNCHANGED funcs
    BY <1>2 DEF AddSymbol, Global, CompileModule, LoadLibrary, LookupPending, LookupReady,
                JitBeginUpdate, JitEndUpdate, vars
  <2> QED
    BY <2>1, OpenSame
<1> QED
  BY <1>1, <1>2, OpenMoves DEF Next

-----------------------------------------------------------------------------
(***************************************************************************)
(* The tables a resolution reads                                           *)
(***************************************************************************)

\* A lookup adds what the providers know and forgets nothing; a name that only
\* the session's functions define is found in the table or not at all.
LEMMA CacheKeeps ==
    ASSUME NEW v, ViewOK(v), NEW N, NEW n \in Names
    PROVE  /\ v.sym[n] # NULL => CacheLookups(v, N)[n] # NULL
           /\ n \in Private /\ v.lazy \subseteq OtherNames =>
                 LookupSymbol(v, n) = v.sym[n] /\ CacheLookups(v, N)[n] = v.sym[n]
<1>1. CacheLookups(v, N)[n] =
         IF n \in N /\ LookupSymbol(v, n) # NULL THEN LookupSymbol(v, n) ELSE v.sym[n]
  BY DEF CacheLookups
<1>2. n \in Private /\ v.lazy \subseteq OtherNames => LookupSymbol(v, n) = v.sym[n]
  BY DEF LookupSymbol, Provided, Private
<1> QED
  BY <1>1, <1>2

\* Adding a symbol binds that symbol.
LEMMA AddKeeps ==
    ASSUME NEW v, ViewOK(v), NEW m \in Names, NEW a \in Address, NEW n \in Names
    PROVE  /\ v.sym[n] # NULL => JitAddSymbol(v, m, a)[n] # NULL
           /\ n # m => JitAddSymbol(v, m, a)[n] = v.sym[n]
           /\ n \in Private => JitAddSymbol(v, n, a)[n] = a
<1>1. a # NULL
  BY NullAssumption
<1>2. DOMAIN v.sym = Names
  BY DEF ViewOK, Table
<1>3. \A k \in Names : JitAddSymbol(v, k, a) = v.sym \/ JitAddSymbol(v, k, a) = [v.sym EXCEPT ![k] = a]
  BY DEF JitAddSymbol
<1>4. n \in Private => JitAddSymbol(v, n, a) = [v.sym EXCEPT ![n] = a]
  BY DEF JitAddSymbol, Provided, Private
<1> QED
  BY <1>1, <1>2, <1>3, <1>4

\* The calls that go over the pending range.
Patching ==
    \/ \E n \in OtherNames : AddSymbol(n) \/ Global(n)
    \/ LoadLibrary
    \/ \E n \in Names : LookupPending(n) \/ LookupReady(n)

\* What the view of such a call may differ in, and the table it leaves.
PatchView(v) ==
    /\ ViewOK(v) /\ PatchPending(v) /\ UNCHANGED funcs
    /\ v.size = code_size /\ v.obj = objdef /\ v.lazy = lazy /\ v.libs = libs'
    /\ lazy' \subseteq lazy /\ (libs => libs') /\ libs' \in {libs, TRUE}
    /\ symbols' \in Table
    /\ \A n \in Names :
          /\ symbols[n] # NULL => v.sym[n] # NULL
          /\ v.sym[n] # NULL => symbols'[n] # NULL
    /\ lazy \subseteq OtherNames =>
          \A n \in Private : v.sym[n] = symbols[n] /\ symbols'[n] = symbols[n]

\* The table after the pass.
LEMMA PatchedKeeps ==
    ASSUME NEW v, ViewOK(v), NEW n \in Names
    PROVE  /\ v.sym[n] # NULL => PatchedSymbols(v)[n] # NULL
           /\ n \in Private /\ v.lazy \subseteq OtherNames => PatchedSymbols(v)[n] = v.sym[n]
BY CacheKeeps DEF PatchedSymbols

\* A pass whose view differs from the current one in the entry of one name.
LEMMA TryPatchView ==
    ASSUME IInv, NEW T \in Table, NEW m \in OtherNames,
           \A n \in Names : symbols[n] # NULL => T[n] # NULL,
           \A n \in Names : n # m => T[n] = symbols[n],
           TryPatchPending([View EXCEPT !.sym = T]), UNCHANGED <<funcs, lazy, libs>>
    PROVE  PatchView([View EXCEPT !.sym = T])
<1> DEFINE v == [View EXCEPT !.sym = T]
<1>1. /\ v.sym = T /\ v.size = code_size /\ v.obj = objdef /\ v.lazy = lazy /\ v.libs = libs
  BY DEF View
<1>2. ViewOK(v)
  BY ViewWithTable
<1>3. PatchPending(v) /\ symbols' = PatchedSymbols(v)
  BY DEF TryPatchPending
<1> HIDE DEF v
<1>4. symbols' \in Table
  BY <1>2, <1>3, PatchedType
<1>5. \A n \in Names : /\ symbols[n] # NULL => v.sym[n] # NULL
                       /\ v.sym[n] # NULL => symbols'[n] # NULL
  BY <1>1, <1>2, <1>3, PatchedKeeps
<1>6. lazy \subseteq OtherNames =>
         \A n \in Private : v.sym[n] = symbols[n] /\ symbols'[n] = symbols[n]
  <2> SUFFICES ASSUME lazy \subseteq OtherNames, NEW n \in Private
               PROVE  v.sym[n] = symbols[n] /\ symbols'[n] = symbols[n]
    OBVIOUS
  <2>1. n \in Names /\ n # m
    BY DEF Private
  <2> QED
    BY <2>1, <1>1, <1>2, <1>3, PatchedKeeps
<1>7. libs' = libs /\ lazy' = lazy /\ UNCHANGED funcs
  OBVIOUS
<1>8. PatchView(v)
  BY <1>1, <1>2, <1>3, <1>4, <1>5, <1>6, <1>7 DEF PatchView
<1> QED
  BY <1>8 DEF v

\* Each of these calls patches from a view that forgets nothing.
LEMMA PatchingCall ==
    ASSUME IInv, Patching
    PROVE  \E v : PatchView(v)
<1>1. ViewOK(View) /\ OtherNames \subseteq Names /\ symbols \in Table
  BY ViewType, ConstantsAssumption DEF IInv, LinkTypes
<1>2. /\ View.sym = symbols /\ View.size = code_size /\ View.obj = objdef
      /\ View.lazy = lazy /\ View.libs = libs
  BY DEF View
<1>3. ASSUME NEW n \in OtherNames, AddSymbol(n) PROVE \E v : PatchView(v)
  <2> DEFINE T == JitAddSymbol(View, n, UserAddr(n))
  <2>1. T \in Table /\ UserAddr(n) \in Address /\ n \in Names
    BY <1>1, AddressKinds, AddType
  <2>2. \A k \in Names : (symbols[k] # NULL => T[k] # NULL) /\ (k # n => T[k] = symbols[k])
    BY <2>1, <1>1, <1>2, AddKeeps
  <2>3. TryPatchPending([View EXCEPT !.sym = T]) /\ UNCHANGED <<funcs, lazy, libs>>
    BY <1>3 DEF AddSymbol
  <2> HIDE DEF T
  <2>4. PatchView([View EXCEPT !.sym = T])
    BY <2>1, <2>2, <2>3, TryPatchView
  <2> QED
    BY <2>4
<1>4. ASSUME NEW n \in OtherNames, Global(n) PROVE \E v : PatchView(v)
  <2> DEFINE J == JitAddSymbol(View, n, DataAddr(n))
             T == IF symbols[n] # NULL THEN symbols ELSE J
  <2>1. J \in Table /\ DataAddr(n) \in Address /\ n \in Names
    BY <1>1, AddressKinds, AddType
  <2>2. \A k \in Names : (symbols[k] # NULL => J[k] # NULL) /\ (k # n => J[k] = symbols[k])
    BY <2>1, <1>1, <1>2, AddKeeps
  <2>3. TryPatchPending([View EXCEPT !.sym = T]) /\ UNCHANGED <<funcs, lazy, libs>>
    BY <1>4 DEF Global
  <2> HIDE DEF J
  <2>4. T \in Table
    BY <2>1, <1>1
  <2>5. \A k \in Names : (symbols[k] # NULL => T[k] # NULL) /\ (k # n => T[k] = symbols[k])
    BY <2>2
  <2> HIDE DEF T
  <2>6. PatchView([View EXCEPT !.sym = T])
    BY <2>3, <2>4, <2>5, TryPatchView
  <2> QED
    BY <2>6
<1>5. ASSUME LoadLibrary PROVE \E v : PatchView(v)
  <2> DEFINE v == [View EXCEPT !.libs = TRUE]
  <2>1. /\ v.sym = symbols /\ v.size = code_size /\ v.obj = objdef /\ v.lazy = lazy
        /\ v.libs = TRUE
    BY DEF View
  <2>2. ViewOK(v)
    BY <2>1, <1>1, <1>2 DEF ViewOK
  <2>3. /\ PatchPending(v) /\ symbols' = PatchedSymbols(v) /\ UNCHANGED <<funcs, lazy>>
        /\ libs' = TRUE
    BY <1>5 DEF LoadLibrary, TryPatchPending
  <2> HIDE DEF v
  <2>4. symbols' \in Table
    BY <2>2, <2>3, PatchedType
  <2>5. \A n \in Names : /\ symbols[n] # NULL => v.sym[n] # NULL
                         /\ v.sym[n] # NULL => symbols'[n] # NULL
    BY <2>1, <2>2, <2>3, PatchedKeeps
  <2>6. lazy \subseteq OtherNames =>
           \A n \in Private : v.sym[n] = symbols[n] /\ symbols'[n] = symbols[n]
    BY <2>1, <2>2, <2>3, PatchedKeeps DEF Private
  <2>7. PatchView(v)
    BY <2>1, <2>2, <2>3, <2>4, <2>5, <2>6 DEF PatchView
  <2> QED
    BY <2>7
<1>6. ASSUME NEW n \in Names, LookupPending(n) PROVE \E v : PatchView(v)
  <2>1. PatchPending(View) /\ symbols' = PatchedSymbols(View) /\ UNCHANGED <<funcs, lazy, libs>>
    BY <1>6 DEF LookupPending, TryPatchPending
  <2>2. symbols' \in Table
    BY <2>1, <1>1, PatchedType
  <2>3. \A k \in Names : symbols[k] # NULL => symbols'[k] # NULL
    BY <2>1, <1>1, <1>2, PatchedKeeps
  <2>4. lazy \subseteq OtherNames => \A k \in Private : symbols'[k] = symbols[k]
    BY <2>1, <1>1, <1>2, PatchedKeeps DEF Private
  <2>5. PatchView(View)
    BY <2>1, <2>2, <2>3, <2>4, <1>1, <1>2 DEF PatchView
  <2> QED
    BY <2>5
<1>7. ASSUME NEW n \in Names, LookupReady(n) PROVE \E v : PatchView(v)
  <2> DEFINE P == PatchedSymbols(View)
             v1 == [View EXCEPT !.sym = P]
             found == LookupSymbol(v1, n)
             v2 == IF found = NULL /\ n \in lazy
                   THEN [v1 EXCEPT !.sym = JitAddSymbol(v1, n, ModAddr(n)), !.lazy = @ \ {n}]
                   ELSE [v1 EXCEPT !.sym = CacheLookups(v1, {n})]
  <2>1. PatchPending(View) /\ symbols' = v2.sym /\ lazy' = v2.lazy /\ UNCHANGED <<funcs, libs>>
    BY <1>7 DEF LookupReady
  <2>2. P \in Table
    BY <1>1, PatchedType
  <2>3. /\ \A k \in Names : symbols[k] # NULL => P[k] # NULL
        /\ lazy \subseteq OtherNames => \A k \in Private : P[k] = symbols[k]
    BY <1>1, <1>2, PatchedKeeps DEF Private
  <2>4. \/ symbols' = JitAddSymbol(v1, n, ModAddr(n)) /\ lazy' = lazy \ {n} /\ n \in lazy
        \/ symbols' = CacheLookups(v1, {n}) /\ lazy' = lazy
    BY <2>1 DEF View
  <2> HIDE DEF P
  <2>5. v1.sym = P /\ v1.lazy = lazy /\ ViewOK(v1)
    BY <2>2, ViewWithTable DEF View
  <2> HIDE DEF v1, v2, found
  <2>6. ModAddr(n) \in Address
    BY AddressKinds
  <2>7. symbols' \in Table
    BY <2>4, <2>5, <2>6, AddType, CacheType
  <2>8. \A k \in Names : P[k] # NULL => symbols'[k] # NULL
    BY <2>4, <2>5, <2>6, AddKeeps, CacheKeeps
  <2>9. ASSUME lazy \subseteq OtherNames, NEW k \in Private
        PROVE  symbols'[k] = P[k]
    <3>1. k \in Names /\ k \notin OtherNames
      BY DEF Private
    <3> QED
      BY <3>1, <2>4, <2>5, <2>6, <2>9, AddKeeps, CacheKeeps
  <2>10. lazy \subseteq OtherNames => \A k \in Private : symbols'[k] = symbols[k]
    BY <2>3, <2>9
  <2>11. \A k \in Names : symbols[k] # NULL => symbols'[k] # NULL
    BY <2>3, <2>8
  <2>12. lazy' \subseteq lazy
    BY <2>4
  <2>13. PatchView(View)
    BY <2>1, <2>7, <2>10, <2>11, <2>12, <1>1, <1>2 DEF PatchView
  <2> QED
    BY <2>13
<1> QED
  BY <1>3, <1>4, <1>5, <1>6, <1>7 DEF Patching

-----------------------------------------------------------------------------
(***************************************************************************)
(* Every call preserves the invariants                                     *)
(***************************************************************************)

\* The calls that leave links, tables and memory as they are.
Quiet ==
    \/ \E f \in FuncNames : FuncBegin(f)
    \/ Block \/ SuspendFunc
    \/ \E i \in DOMAIN suspended : ResumeFunc(i)
    \/ FuncEndWithoutCode
    \/ UNCHANGED vars

\* What such a call leaves alone.
LEMMA QuietMeans ==
    ASSUME Quiet
    PROVE  UNCHANGED <<links, table, memory>>
BY DEF Quiet, FuncBegin, Block, SuspendFunc, ResumeFunc, FuncEndWithoutCode, vars

\* The calls of the session, grouped by what they write.
LEMMA NextCases ==
    ASSUME [Next]_vars
    PROVE  \/ Quiet \/ Patching
           \/ \E calls \in Calls : FuncEndFails(calls)
           \/ \E calls \in Calls : FuncEnd(calls)
           \/ \E n \in OtherNames : CompileModule(n)
           \/ JitBeginUpdate \/ JitEndUpdate
BY DEF Next, Quiet, Patching

\* finish_direct_compile flushes what it wrote, or leaves it to the open window.
LEMMA FuncEndWindow ==
    ASSUME IInv, WindowInv, NEW calls \in Calls, FuncEnd(calls)
    PROVE  WindowInv'
<1> DEFINE size == code_size'
           A == Written(Rel(calls), I1(calls) \cup I2(calls))
           b == BeginUpdate(upd, code_size)
           d == [b EXCEPT !.dirty = TRUE]
           u == MarkPatched(d, A)
           st == stale \cup (Base .. (size - 1)) \cup A
<1>0. code_size' = size
  OBVIOUS
<1>1. /\ code_size \in 0 .. CodeCap /\ Base \in Nat /\ code_size <= Base
      /\ size \in 0 .. CodeCap /\ size <= CodeCap /\ Base < size
      /\ CodeCap \in Nat /\ size \in Nat /\ code_size \in Nat
  <2>1. Len(calls) \in Nat /\ Base \in Nat
    BY FuncEndBase, ConstantsAssumption
  <2> QED
    BY <2>1, FuncEndBase, ConstantsAssumption
<1>2. CloseUpdate(u, size, st)
  BY FuncEndNamed
<1>3. A \in SUBSET (0 .. size - 1)
  <2> SUFFICES ASSUME NEW i \in I1(calls) \cup I2(calls)
               PROVE  Rel(calls)[i].addr \in 0 .. size - 1
    BY DEF Written
  <2>1. i \in 1 .. Len(Rel(calls)) /\ Rel(calls)[i].addr < size
    BY FuncEndBound
  <2>2. Rel(calls)[i] \in Link
    BY <2>1, FuncEndRel, SeqIsFun
  <2>3. Rel(calls)[i].addr \in Nat
    BY <2>2 DEF Link
  <2> QED
    BY <2>1, <2>3, <1>1
<1> HIDE DEF A, size
<1>4. /\ b \in Window /\ b.active /\ b.begin <= code_size
      /\ \A a \in stale : b.dirty /\ a \in b.begin .. code_size - 1
  BY <1>1, BeginCorrect
<1> HIDE DEF b
<1>5. d \in Window /\ d.active /\ d.dirty /\ d.begin = b.begin
  BY <1>4 DEF Window
<1> HIDE DEF d
<1>6. A \in SUBSET (0 .. CodeCap - 1)
  BY <1>1, <1>3
<1>7. /\ u \in Window /\ u.active = d.active /\ u.dirty = (d.dirty \/ A # {})
      /\ u.begin <= d.begin /\ \A a \in A : u.begin <= a
  BY <1>5, <1>6, MarkCorrect
<1> HIDE DEF u
<1>8. u.active /\ u.dirty
  BY <1>5, <1>7
<1>9. b.begin \in Nat /\ u.begin \in Nat /\ u.begin <= b.begin
  BY <1>1, <1>4, <1>5, <1>7 DEF Window
<1>10. u.begin <= code_size /\ u.begin <= size
  BY <1>1, <1>4, <1>9
<1>11. ASSUME NEW a \in st PROVE a \in u.begin .. size - 1
  <2>1. CASE a \in stale
    <3>1. a \in b.begin .. code_size - 1
      BY <2>1, <1>4
    <3> QED
      BY <3>1, <1>1, <1>9
  <2>2. CASE a \in Base .. (size - 1)
    BY <2>2, <1>1, <1>9, <1>10
  <2>3. CASE a \in A
    <3>1. a \in 0 .. size - 1 /\ u.begin <= a
      BY <2>3, <1>3, <1>7
    <3> QED
      BY <3>1, <1>1, <1>9
  <2> QED
    BY <2>1, <2>2, <2>3
<1>12. \A a \in st : u.dirty /\ a \in u.begin .. size - 1
  BY <1>8, <1>11
<1> HIDE DEF st
<1> QED
  BY <1>0, <1>1, <1>2, <1>7, <1>8, <1>10, <1>12, CloseCorrect

\* The bookkeeping of the writable window survives every call.
LEMMA WindowStep ==
    ASSUME IInv, CodeInv, WindowInv, [Next]_vars
    PROVE  WindowInv'
<1>1. code_size \in 0 .. CodeCap
  BY DEF IInv, LinkTypes
<1>2. ASSUME UNCHANGED memory PROVE WindowInv'
  BY <1>2 DEF WindowInv, memory
<1>3. CASE Quiet
  BY <1>2, <1>3, QuietMeans
<1>4. CASE Patching
  <2>1. PICK v : PatchView(v)
    BY <1>4, PatchingCall
  <2>2. /\ code_size' = code_size
        /\ \E A \in SUBSET (0 .. code_size - 1) :
              CloseUpdate(MarkPatched(BeginUpdate(upd, code_size), A), code_size, stale \cup A)
    BY <2>1, PatchEffect DEF PatchView
  <2> QED
    BY <2>2, <1>1, PatchWindow
<1>5. CASE (\E calls \in Calls : FuncEndFails(calls)) \/ \E n \in OtherNames : CompileModule(n)
  BY <1>2, <1>5 DEF FuncEndFails, CompileModule
<1>6. CASE \E calls \in Calls : FuncEnd(calls)
  BY <1>6, FuncEndWindow
<1>7. CASE JitBeginUpdate
  <2>1. /\ ~upd.active /\ upd' = [active |-> TRUE, dirty |-> FALSE, begin |-> code_size]
        /\ stale' = stale /\ code_size' = code_size
    BY <1>7 DEF JitBeginUpdate, BeginUpdate
  <2>2. stale = {}
    BY <2>1 DEF WindowInv
  <2> QED
    BY <2>1, <2>2, <1>1 DEF WindowInv
<1>8. CASE JitEndUpdate
  <2>1. /\ upd' = [active |-> FALSE, dirty |-> FALSE, begin |-> code_size]
        /\ stale' = stale \ Flushed(upd, code_size) /\ code_size' = code_size
    BY <1>8 DEF JitEndUpdate
  <2>2. stale' = {}
    BY <2>1 DEF WindowInv, Flushed
  <2> QED
    BY <2>1, <2>2, <1>1 DEF WindowInv
<1> QED
  BY <1>3, <1>4, <1>5, <1>6, <1>7, <1>8, NextCases

\* The invariant says what BlobsMatchCode says.
LEMMA CodeMeans ==
    ASSUME IInv, CodeInv
    PROVE  BlobsMatchCode
<1>1. code_size \in Nat /\ code_size <= CodeCap /\ CodeCap \in Nat
  BY ConstantsAssumption DEF IInv, LinkTypes
<1>2. ASSUME Orphans = {}, NEW a \in 0 .. code_size - 1
      PROVE  code[a].got \subseteq (IF code[a].want = NULL THEN {} ELSE {code[a].want})
  <2>1. a \in Cells
    BY <1>1 DEF Cells
  <2>2. \A n \in code[a].got : n \in Names /\ n = code[a].want
    BY <2>1, <1>2 DEF CodeInv, GotOwn, Cell
  <2> QED
    BY <2>2, ConstantsAssumption
<1>3. \A k \in DOMAIN blobs : \A i \in DOMAIN blobs[k].relocs :
         code[blobs[k].base + i].want = blobs[k].relocs[i]
  BY DEF CodeInv, BlobCells
<1>4. \A k, m \in DOMAIN blobs : k < m => blobs[k].base + Len(blobs[k].relocs) < blobs[m].base
  BY DEF CodeInv, BlobOrder
<1> QED
  BY <1>2, <1>3, <1>4 DEF BlobsMatchCode

\* A step that leaves the code and the links alone.
LEMMA CodeSame ==
    ASSUME CodeInv, UNCHANGED <<relocs, blobs, code, code_size>>
    PROVE  CodeInv'
BY DEF CodeInv, PlacedInv, BlobCells, BlobOrder, GotOwn, Orphans

\* A blob lies inside the cells.
LEMMA BlobInside ==
    ASSUME IInv, CodeInv, NEW k \in DOMAIN blobs
    PROVE  /\ blobs[k] \in Blob /\ blobs[k].base \in Nat /\ Len(blobs[k].relocs) \in Nat
           /\ DOMAIN blobs[k].relocs = 1 .. Len(blobs[k].relocs)
           /\ \A i \in DOMAIN blobs[k].relocs :
                 /\ blobs[k].base + i \in Cells
                 /\ blobs[k].base + i < code_size
<1>1. code_size \in Nat /\ code_size <= CodeCap /\ CodeCap \in Nat
  BY ConstantsAssumption DEF IInv, LinkTypes
<1>2. blobs[k] \in Blob
  BY SeqIsFun DEF CodeInv
<1>3. blobs[k].base \in Nat /\ blobs[k].relocs \in Seq(Names)
  BY <1>1, <1>2 DEF Blob
<1>4. Len(blobs[k].relocs) \in Nat /\ DOMAIN blobs[k].relocs = 1 .. Len(blobs[k].relocs)
  BY <1>3
<1>5. blobs[k].base + Len(blobs[k].relocs) < code_size
  BY DEF CodeInv, BlobCells
<1>6. ASSUME NEW i \in DOMAIN blobs[k].relocs
      PROVE  blobs[k].base + i \in Cells /\ blobs[k].base + i < code_size
  BY <1>1, <1>3, <1>4, <1>5 DEF Cells
<1> QED
  BY <1>2, <1>3, <1>4, <1>6

\* A pass over the pending range.
LEMMA PatchCode ==
    ASSUME IInv, CodeInv, NEW v, PatchView(v)
    PROVE  CodeInv'
<1> DEFINE n == Len(relocs)
<1>1. /\ Len(relocs') = n /\ relocs' \in Seq(Link)
      /\ \A i \in 1 .. n :
            /\ relocs'[i].sym = relocs[i].sym /\ relocs'[i].addr = relocs[i].addr
            /\ relocs'[i].placed = relocs[i].placed
      /\ code' \in [Cells -> Cell]
      /\ \A a \in Cells :
            /\ code'[a].want = code[a].want
            /\ \A s \in code'[a].got :
                  \/ s \in code[a].got
                  \/ \E i \in 1 .. n : relocs[i].addr = a /\ relocs[i].sym = s
      /\ UNCHANGED <<blobs, code_size>>
  BY PatchEffect DEF PatchView
<1>2. /\ DOMAIN relocs = 1 .. n /\ DOMAIN relocs' = 1 .. n
      /\ \A i \in 1 .. n : relocs[i] \in Link
      /\ code_size \in Nat /\ code_size <= CodeCap /\ CodeCap \in Nat
  BY <1>1, SeqIsFun, ConstantsAssumption DEF IInv, LinkTypes
<1>3. ASSUME NEW i \in 1 .. n, relocs[i].placed
      PROVE  relocs[i].addr \in Cells /\ relocs[i].addr < code_size
             /\ code[relocs[i].addr].want = relocs[i].sym
  <2>1. relocs[i].addr < code_size /\ code[relocs[i].addr].want = relocs[i].sym
    BY <1>2, <1>3 DEF CodeInv, PlacedInv
  <2>2. relocs[i].addr \in Nat
    BY <1>2 DEF Link
  <2> QED
    BY <2>1, <2>2, <1>2 DEF Cells
<1>4. PlacedInv'
  <2> SUFFICES ASSUME NEW i \in 1 .. n
               PROVE  /\ relocs'[i].placed => /\ relocs'[i].addr < code_size'
                                              /\ code'[relocs'[i].addr].want = relocs'[i].sym
                      /\ ~relocs'[i].placed => relocs'[i].addr <= MaxCalls
    BY <1>2 DEF PlacedInv
  <2>1. CASE relocs[i].placed
    BY <2>1, <1>1, <1>3
  <2>2. CASE ~relocs[i].placed
    BY <2>2, <1>1, <1>2 DEF CodeInv, PlacedInv
  <2> QED
    BY <2>1, <2>2
<1>5. BlobCells'
  <2> SUFFICES ASSUME NEW k \in DOMAIN blobs
               PROVE  /\ blobs[k].base + Len(blobs[k].relocs) < code_size
                      /\ \A i \in DOMAIN blobs[k].relocs :
                            code'[blobs[k].base + i].want = blobs[k].relocs[i]
    BY <1>1 DEF BlobCells
  <2> QED
    BY <1>1, BlobInside DEF CodeInv, BlobCells
<1>6. BlobOrder'
  BY <1>1 DEF CodeInv, BlobOrder
<1>7. GotOwn'
  <2> SUFFICES ASSUME Orphans' = {}, NEW a \in Cells, NEW s \in code'[a].got
               PROVE  s = code'[a].want
    BY DEF GotOwn
  <2>1. \A i \in 1 .. n : relocs[i].placed
    BY <1>1, <1>2 DEF Orphans
  <2>2. Orphans = {}
    BY <2>1, <1>2 DEF Orphans
  <2>3. CASE s \in code[a].got
    BY <2>2, <2>3, <1>1 DEF CodeInv, GotOwn
  <2>4. CASE s \notin code[a].got
    <3>1. PICK i \in 1 .. n : relocs[i].addr = a /\ relocs[i].sym = s
      BY <2>4, <1>1
    <3> QED
      BY <3>1, <2>1, <1>1, <1>3
  <2> QED
    BY <2>3, <2>4
<1> QED
  BY <1>1, <1>4, <1>5, <1>6, <1>7 DEF CodeInv

\* A failed func_end leaves relocations that are not placed.
LEMMA FuncEndFailsCode ==
    ASSUME IInv, CodeInv, NEW calls \in Calls, FuncEndFails(calls)
    PROVE  CodeInv'
<1> DEFINE E == Emitted(calls)
           n == Len(relocs)
<1>1. /\ relocs' = relocs \o E /\ UNCHANGED <<blobs, code, code_size>>
  BY DEF FuncEndFails, memory
<1>2. /\ E \in Seq(Link) /\ Len(E) = Len(calls) /\ Len(calls) \in Nat
      /\ \A i \in 1 .. Len(calls) : ~E[i].placed
  BY EmittedCorrect
<1>3. Len(calls) <= MaxCalls /\ MaxCalls \in Nat
  <2>1. PICK k \in 0 .. MaxCalls : calls \in [1 .. k -> Names]
    BY DEF Calls
  <2>2. k \in Nat /\ MaxCalls \in Nat
    BY ConstantsAssumption
  <2> QED
    BY <2>1, <2>2, FunIsSeq
<1>4. \A i \in 1 .. Len(calls) : E[i].addr = i
  BY DEF Emitted
<1>5. relocs \in Seq(Link) /\ n \in Nat /\ DOMAIN relocs = 1 .. n
  BY SeqIsFun DEF IInv, LinkTypes
<1> HIDE DEF E
<1>6. /\ DOMAIN relocs' = 1 .. n + Len(calls)
      /\ \A i \in 1 .. n : relocs'[i] = relocs[i]
      /\ \A i \in 1 .. Len(calls) : relocs'[n + i] = E[i]
  <2>1. /\ relocs' \in Seq(Link) /\ Len(relocs') = n + Len(E)
        /\ \A i \in 1 .. n : relocs'[i] = relocs[i]
        /\ \A i \in 1 .. Len(E) : relocs'[n + i] = E[i]
    BY <1>1, <1>2, <1>5, ConcatCorrect
  <2>2. DOMAIN relocs' = 1 .. Len(relocs')
    BY <2>1, SeqIsFun
  <2> QED
    BY <2>1, <2>2, <1>2
<1>7. ASSUME NEW i \in DOMAIN relocs'
      PROVE  \/ i \in DOMAIN relocs /\ relocs'[i] = relocs[i]
             \/ ~relocs'[i].placed /\ relocs'[i].addr <= MaxCalls
  <2>1. CASE i \in 1 .. n
    BY <2>1, <1>5, <1>6
  <2>2. CASE i \notin 1 .. n
    <3> DEFINE j == i - n
    <3>1. j \in 1 .. Len(calls) /\ i = n + j
      BY <2>2, <1>2, <1>5, <1>6
    <3> HIDE DEF j
    <3>2. relocs'[i] = E[j] /\ ~E[j].placed /\ E[j].addr = j
      BY <3>1, <1>2, <1>4, <1>6
    <3>3. j <= MaxCalls
      BY <3>1, <1>2, <1>3
    <3> QED
      BY <3>2, <3>3
  <2> QED
    BY <2>1, <2>2
<1>8. PlacedInv'
  <2> SUFFICES ASSUME NEW i \in DOMAIN relocs'
               PROVE  /\ relocs'[i].placed => /\ relocs'[i].addr < code_size'
                                              /\ code'[relocs'[i].addr].want = relocs'[i].sym
                      /\ ~relocs'[i].placed => relocs'[i].addr <= MaxCalls
    BY DEF PlacedInv
  <2> QED
    BY <1>1, <1>7 DEF CodeInv, PlacedInv
<1>9. Orphans' = {} => Orphans = {}
  <2>1. \A i \in DOMAIN relocs : i \in DOMAIN relocs' /\ relocs'[i] = relocs[i]
    BY <1>2, <1>5, <1>6
  <2> QED
    BY <2>1 DEF Orphans
<1> QED
  BY <1>1, <1>8, <1>9 DEF CodeInv, BlobCells, BlobOrder, GotOwn

\* Placing a function: its relocations point at its own call sites and its blob
\* lists its calls.
LEMMA FuncEndPlaces ==
    ASSUME IInv, CodeInv, NEW calls \in Calls, FuncEnd(calls)
    PROVE  CodeInv'
<1> DEFINE n == Len(relocs)
           m == Len(calls)
           size == code_size'
           R == Rel(calls)
<1>0. size = code_size'
  OBVIOUS
<1>1. /\ n \in Nat /\ m \in Nat /\ relocs \in Seq(Link) /\ calls \in Seq(Names)
      /\ cur.name \in Names /\ active_start = n
      /\ Base \in Nat /\ code_size \in Nat /\ code_size <= Base
      /\ size = Base + m + 1 /\ size \in Nat /\ size <= CodeCap /\ CodeCap \in Nat
      /\ Base \in 0 .. CodeCap
  <2>1. m \in Nat /\ Base \in Nat /\ code_size \in Nat /\ CodeCap \in Nat
    BY FuncEndBase, ConstantsAssumption
  <2>2. size = Base + m + 1 /\ size \in 0 .. CodeCap
    BY FuncEndBase
  <2>3. size \in Nat /\ size <= CodeCap /\ Base \in 0 .. CodeCap
    <3> HIDE DEF size
    <3> QED
      BY <2>1, <2>2
  <2> QED
    BY <2>1, <2>2, <2>3, FuncEndBase
<1> HIDE DEF size
<1>2. /\ R \in Seq(Link) /\ Len(R) = n + m
      /\ \A i \in 1 .. n : R[i] = relocs[i]
      /\ \A k \in 1 .. m : R[n + k].sym = calls[k] /\ R[n + k].addr = Base + k /\ R[n + k].placed
  BY FuncEndRel
<1>3. /\ relocs' \in Seq(Link) /\ Len(relocs') = n + m
      /\ \A i \in 1 .. Len(R) : /\ relocs'[i].sym = R[i].sym /\ relocs'[i].addr = R[i].addr
                                /\ relocs'[i].placed = R[i].placed
  BY FuncEndRelocs
<1>4. blobs' = Append(blobs, [name |-> cur.name, base |-> Base,
                  relocs |-> [k \in 1 .. (Len(R) - active_start) |-> R[active_start + k].sym]])
  BY FuncEndNamed
<1> HIDE DEF R
<1>5. /\ DOMAIN relocs = 1 .. n /\ DOMAIN relocs' = 1 .. n + m
      /\ \A i \in 1 .. n : relocs[i] \in Link
  BY <1>1, <1>3, SeqIsFun
<1>6. \A i \in 1 .. n : i \in 1 .. n + m
  BY <1>1
<1>7. \A i \in 1 .. n : /\ relocs'[i].sym = relocs[i].sym /\ relocs'[i].addr = relocs[i].addr
                        /\ relocs'[i].placed = relocs[i].placed
  BY <1>2, <1>3, <1>6
<1>8. \A k \in 1 .. m : /\ n + k \in 1 .. n + m
                        /\ relocs'[n + k].sym = calls[k] /\ relocs'[n + k].addr = Base + k
                        /\ relocs'[n + k].placed
  <2>1. \A k \in 1 .. m : n + k \in 1 .. n + m
    BY <1>1
  <2> QED
    BY <2>1, <1>2, <1>3
<1>9. /\ code' \in [Cells -> Cell]
      /\ \A a \in Cells :
            a \notin Base .. (Base + m) =>
                /\ code'[a].want = code[a].want
                /\ \A s \in code'[a].got :
                      \/ s \in code[a].got
                      \/ \E i \in 1 .. Len(relocs') : relocs'[i].addr = a /\ relocs'[i].sym = s
      /\ \A a \in Cells :
            a \in Base .. (Base + m) =>
                /\ a # Base => code'[a].want = calls[a - Base]
                /\ \A s \in code'[a].got :
                      \E i \in 1 .. Len(relocs') : relocs'[i].addr = a /\ relocs'[i].sym = s
  BY FuncEndCode
<1>10. \A k \in 1 .. m : Base + k \in Cells /\ Base + k < size /\ code'[Base + k].want = calls[k]
  <2> SUFFICES ASSUME NEW k \in 1 .. m
               PROVE  Base + k \in Cells /\ Base + k < size /\ code'[Base + k].want = calls[k]
    OBVIOUS
  <2>1. Base + k \in Cells /\ Base + k < size /\ Base + k \in Base .. (Base + m) /\ Base + k # Base
    BY <1>1 DEF Cells
  <2>2. (Base + k) - Base = k
    BY <1>1
  <2> QED
    BY <2>1, <2>2, <1>9
<1>11. \A a \in Cells : a < code_size => code'[a].want = code[a].want
  <2> SUFFICES ASSUME NEW a \in Cells, a < code_size PROVE code'[a].want = code[a].want
    OBVIOUS
  <2>1. a \notin Base .. (Base + m)
    BY <1>1 DEF Cells
  <2> QED
    BY <2>1, <1>9
<1>12. ASSUME NEW i \in 1 .. n, relocs[i].placed
       PROVE  /\ relocs[i].addr \in Cells /\ relocs[i].addr < size
              /\ code'[relocs[i].addr].want = relocs[i].sym
  <2>1. relocs[i].addr < code_size /\ code[relocs[i].addr].want = relocs[i].sym
    BY <1>5, <1>12 DEF CodeInv, PlacedInv
  <2>2. relocs[i].addr \in Nat
    BY <1>5 DEF Link
  <2>3. relocs[i].addr \in Cells /\ relocs[i].addr < size
    BY <2>1, <2>2, <1>1 DEF Cells
  <2> QED
    BY <2>1, <2>3, <1>11
<1>13. ASSUME NEW i \in 1 .. n + m
       PROVE  i \in 1 .. n \/ \E k \in 1 .. m : i = n + k
  <2>1. CASE i \notin 1 .. n
    <3>1. i - n \in 1 .. m /\ i = n + (i - n)
      BY <2>1, <1>1
    <3> QED
      BY <3>1
  <2> QED
    BY <2>1
<1>14. ASSUME NEW i \in 1 .. n + m, relocs'[i].placed
       PROVE  /\ relocs'[i].addr \in Cells /\ relocs'[i].addr < size
              /\ code'[relocs'[i].addr].want = relocs'[i].sym
  <2>1. CASE i \in 1 .. n
    BY <2>1, <1>7, <1>12, <1>14
  <2>2. CASE \E k \in 1 .. m : i = n + k
    <3>1. PICK k \in 1 .. m : i = n + k
      BY <2>2
    <3> QED
      BY <3>1, <1>8, <1>10
  <2> QED
    BY <2>1, <2>2, <1>13
<1>15. PlacedInv'
  <2> SUFFICES ASSUME NEW i \in 1 .. n + m
               PROVE  /\ relocs'[i].placed => /\ relocs'[i].addr < code_size'
                                              /\ code'[relocs'[i].addr].want = relocs'[i].sym
                      /\ ~relocs'[i].placed => relocs'[i].addr <= MaxCalls
    BY <1>5 DEF PlacedInv
  <2>1. ASSUME ~relocs'[i].placed PROVE relocs'[i].addr <= MaxCalls
    <3>1. i \in 1 .. n
      BY <2>1, <1>8, <1>13
    <3> QED
      BY <3>1, <2>1, <1>5, <1>7 DEF CodeInv, PlacedInv
  <2> QED
    BY <2>1, <1>14, <1>0
<1>16. GotOwn'
  <2> SUFFICES ASSUME Orphans' = {}, NEW a \in Cells, NEW s \in code'[a].got
               PROVE  s = code'[a].want
    BY DEF GotOwn
  <2>1. \A i \in 1 .. n + m : relocs'[i].placed
    BY <1>5 DEF Orphans
  <2>2. Orphans = {}
    BY <2>1, <1>5, <1>6, <1>7 DEF Orphans
  <2>3. CASE \E i \in 1 .. n + m : relocs'[i].addr = a /\ relocs'[i].sym = s
    BY <2>1, <2>3, <1>14
  <2>4. CASE a \notin Base .. (Base + m) /\ s \in code[a].got
    BY <2>2, <2>4, <1>9 DEF CodeInv, GotOwn
  <2> QED
    BY <2>3, <2>4, <1>3, <1>9
<1> DEFINE calls2 == [k \in 1 .. m |-> calls[k]]
           new == [name |-> cur.name, base |-> Base, relocs |-> calls2]
           b == Len(blobs)
<1>17. blobs' = Append(blobs, new)
  <2>1. Len(R) - active_start = m
    BY <1>1, <1>2
  <2>2. \A k \in 1 .. m : R[active_start + k].sym = calls[k]
    BY <1>1, <1>2
  <2>3. [k \in 1 .. (Len(R) - active_start) |-> R[active_start + k].sym] = calls2
    BY <2>1, <2>2
  <2> QED
    BY <2>3, <1>4
<1>18. calls2 \in Seq(Names) /\ Len(calls2) = m /\ DOMAIN calls2 = 1 .. m
  <2>1. calls2 \in [1 .. m -> Names]
    BY <1>1, SeqIsFun
  <2> QED
    BY <2>1, <1>1, FunIsSeq
<1>18a. \A k \in 1 .. m : calls2[k] = calls[k]
  OBVIOUS
<1> HIDE DEF calls2
<1>19. new \in Blob /\ new.base = Base /\ new.relocs = calls2
  BY <1>1, <1>18 DEF Blob
<1> HIDE DEF new
<1>20. blobs \in Seq(Blob) /\ b \in Nat /\ DOMAIN blobs = 1 .. b
  BY SeqIsFun DEF CodeInv
<1>21. /\ blobs' \in Seq(Blob) /\ DOMAIN blobs' = 1 .. b + 1
       /\ \A k \in 1 .. b : blobs'[k] = blobs[k]
       /\ blobs'[b + 1] = new
  BY <1>17, <1>19, <1>20
<1>22. BlobCells'
  <2> SUFFICES ASSUME NEW k \in DOMAIN blobs'
               PROVE  /\ blobs'[k].base + Len(blobs'[k].relocs) < size
                      /\ \A i \in DOMAIN blobs'[k].relocs :
                            code'[blobs'[k].base + i].want = blobs'[k].relocs[i]
    BY <1>0 DEF BlobCells
  <2>1. CASE k \in 1 .. b
    <3>1. /\ blobs[k].base + Len(blobs[k].relocs) < code_size
          /\ blobs[k].base \in Nat /\ Len(blobs[k].relocs) \in Nat
          /\ \A i \in DOMAIN blobs[k].relocs :
                /\ code[blobs[k].base + i].want = blobs[k].relocs[i]
                /\ blobs[k].base + i \in Cells /\ blobs[k].base + i < code_size
      BY <2>1, <1>20, BlobInside DEF CodeInv, BlobCells
    <3>2. blobs[k].base + Len(blobs[k].relocs) < size
      BY <3>1, <1>1
    <3>3. \A i \in DOMAIN blobs[k].relocs : code'[blobs[k].base + i].want = blobs[k].relocs[i]
      BY <3>1, <1>11
    <3> QED
      BY <3>2, <3>3, <2>1, <1>21
  <2>2. CASE k = b + 1
    <3>1. new.base + Len(new.relocs) < size
      BY <1>1, <1>18, <1>19
    <3>2. \A i \in DOMAIN new.relocs : code'[new.base + i].want = new.relocs[i]
      BY <1>10, <1>18, <1>18a, <1>19
    <3> QED
      BY <3>1, <3>2, <2>2, <1>21
  <2> QED
    BY <2>1, <2>2, <1>20, <1>21
<1>23. BlobOrder'
  <2> SUFFICES ASSUME NEW k \in DOMAIN blobs', NEW l \in DOMAIN blobs', k < l
               PROVE  blobs'[k].base + Len(blobs'[k].relocs) < blobs'[l].base
    BY DEF BlobOrder
  <2>1. k \in 1 .. b /\ blobs'[k] = blobs[k]
    BY <1>20, <1>21
  <2>2. CASE l \in 1 .. b
    BY <2>1, <2>2, <1>20, <1>21 DEF CodeInv, BlobOrder
  <2>3. CASE l = b + 1
    <3>1. /\ blobs[k].base + Len(blobs[k].relocs) < code_size
          /\ blobs[k].base \in Nat /\ Len(blobs[k].relocs) \in Nat
      BY <2>1, <1>20, BlobInside DEF CodeInv, BlobCells
    <3>2. blobs'[l].base = Base
      BY <2>3, <1>19, <1>21
    <3> QED
      BY <3>1, <3>2, <2>1, <1>1
  <2> QED
    BY <2>2, <2>3, <1>20, <1>21
<1>24. Builtins <= size
  BY <1>1, ConstantsAssumption DEF CodeInv
<1> QED
  BY <1>0, <1>9, <1>15, <1>16, <1>21, <1>22, <1>23, <1>24 DEF CodeInv

\* The code, its blobs and its relocations stay in step.
LEMMA CodeStep ==
    ASSUME IInv, CodeInv, [Next]_vars
    PROVE  CodeInv'
<1>1. CASE Quiet \/ (\E n \in OtherNames : CompileModule(n)) \/ JitBeginUpdate \/ JitEndUpdate
  <2>1. UNCHANGED <<relocs, blobs, code, code_size>>
    BY <1>1, QuietMeans DEF links, memory, CompileModule, JitBeginUpdate, JitEndUpdate
  <2> QED
    BY <2>1, CodeSame
<1>2. CASE Patching
  BY <1>2, PatchingCall, PatchCode
<1> QED
  BY <1>1, <1>2, FuncEndFailsCode, FuncEndPlaces, NextCases

-----------------------------------------------------------------------------
\* Resolving a name of the session's functions.
LEMMA ResolvePrivate ==
    ASSUME NEW v, ViewOK(v), v.lazy \subseteq OtherNames, NEW n \in Private
    PROVE  Resolve(v, n) = IF v.obj[n] # NULL THEN CodeAddr(v.obj[n]) ELSE v.sym[n]
<1>1. LookupSymbol(v, n) = v.sym[n]
  BY CacheKeeps DEF Private
<1> QED
  BY <1>1 DEF Resolve

\* A step that leaves the definitions and the links alone.
LEMMA NamesSame ==
    ASSUME NamesInv, UNCHANGED <<lazy, defs, objdef, symbols, relocs>>
    PROVE  NamesInv'
BY DEF NamesInv, NameInv

\* A pass over the pending range binds a call of such a name to its code.
LEMMA PatchNames ==
    ASSUME IInv, CodeInv, NamesInv, NEW v, PatchView(v)
    PROVE  NamesInv'
<1> DEFINE l == Len(relocs)
<1>1. /\ Len(relocs') = l /\ relocs' \in Seq(Link)
      /\ \A i \in 1 .. l :
            /\ relocs'[i].sym = relocs[i].sym
            /\ relocs'[i].to # relocs[i].to =>
                  relocs'[i].to = Resolve(v, relocs[i].sym) /\ relocs'[i].to # NULL
      /\ objdef' = objdef /\ defs' = defs
  BY PatchEffect DEF PatchView
<1>2. DOMAIN relocs = 1 .. l /\ DOMAIN relocs' = 1 .. l
  BY <1>1, SeqIsFun DEF IInv, LinkTypes
<1>3. lazy \subseteq OtherNames /\ lazy' \subseteq OtherNames /\ defs \in [Names -> Nat]
  BY DEF NamesInv, PatchView
<1>4. ASSUME NEW n \in Private PROVE NameInv(n)'
  <2>1. v.sym[n] = symbols[n] /\ symbols'[n] = symbols[n] /\ v.obj = objdef
    BY <1>3 DEF PatchView
  <2>2. Resolve(v, n) = IF objdef[n] # NULL THEN CodeAddr(objdef[n]) ELSE symbols[n]
    BY <2>1, <1>3, ResolvePrivate DEF PatchView
  <2>3. NameInv(n)
    BY DEF NamesInv
  <2>4. \A i \in 1 .. l : relocs'[i].sym = n /\ relocs'[i].to # relocs[i].to =>
                             relocs'[i].to = Resolve(v, n) /\ relocs'[i].to # NULL
    BY <1>1
  <2>5. ASSUME defs[n] = 0
        PROVE  /\ objdef'[n] = NULL /\ symbols'[n] = NULL
               /\ \A i \in 1 .. l : relocs'[i].sym = n => relocs'[i].to = NULL
    BY <2>1, <2>2, <2>3, <2>4, <2>5, <1>1, <1>2 DEF NameInv
  <2>6. ASSUME defs[n] = 1
        PROVE  /\ symbols'[n] = CodeAddr(objdef'[n])
               /\ \A i \in 1 .. l : relocs'[i].sym = n => relocs'[i].to \in {NULL, symbols'[n]}
    BY <2>1, <2>2, <2>3, <2>4, <2>6, <1>1, <1>2 DEF NameInv
  <2>7. defs[n] # 0 => objdef'[n] # NULL
    BY <2>3, <1>1 DEF NameInv
  <2> QED
    BY <2>5, <2>6, <2>7, <1>1, <1>2 DEF NameInv
<1> QED
  BY <1>1, <1>3, <1>4 DEF NamesInv

\* The tables after finish_direct_compile.
LEMMA FuncEndTables ==
    ASSUME IInv, NEW calls \in Calls, FuncEnd(calls), NEW n \in Names
    PROVE  /\ objdef' = V1(calls).obj
           /\ objdef[n] # NULL => objdef'[n] = objdef[n]
           /\ objdef[n] = NULL => objdef'[n] = IF n = cur.name THEN Base ELSE NULL
           /\ symbols[n] # NULL => Sym2(calls)[n] # NULL
           /\ Sym2(calls)[n] # NULL => symbols'[n] # NULL
           /\ symbols' \in Table
           /\ n \in Private /\ lazy \subseteq OtherNames =>
                 /\ Sym2(calls)[n] = IF n = cur.name THEN CodeAddr(Base) ELSE symbols[n]
                 /\ symbols'[n] = Sym2(calls)[n]
<1> DEFINE w == [V1(calls) EXCEPT !.sym = Sym1(calls)]
<1>1. /\ cur.name \in Names /\ Base \in 0 .. CodeCap
  BY FuncEndBase, ConstantsAssumption
<1>2. /\ ViewOK(V1(calls)) /\ ViewOK(V2(calls))
      /\ V1(calls).obj = DefineObj(objdef, cur.name, Base)
      /\ V1(calls).sym = symbols /\ V1(calls).lazy = lazy
      /\ V2(calls).sym = Sym2(calls) /\ V2(calls).lazy = lazy
      /\ Sym1(calls) \in Table /\ Sym2(calls) \in Table
  BY FuncEndViews
<1>3. /\ objdef' = V1(calls).obj
      /\ symbols' = Sym2(calls) \/ \E N : symbols' = CacheLookups(V2(calls), N)
  BY FuncEndNamed
<1>4. objdef \in ObjTable
  BY DEF IInv, LinkTypes
<1>5. /\ objdef[n] # NULL => objdef'[n] = objdef[n]
      /\ objdef[n] = NULL => objdef'[n] = IF n = cur.name THEN Base ELSE NULL
  BY <1>1, <1>2, <1>3, <1>4 DEF DefineObj, ObjTable
<1>6. w.sym = Sym1(calls) /\ ViewOK(w)
  <2>1. w.sym = Sym1(calls) /\ w.obj = V1(calls).obj
    BY DEF V1, View
  <2> QED
    BY <2>1, <1>2 DEF ViewOK
<1>7. Sym2(calls) = JitAddSymbol(w, cur.name, CodeAddr(Base))
  BY DEF Sym2
<1> HIDE DEF w
<1>8. CodeAddr(Base) \in Address
  BY <1>1, AddressKinds
<1>9. /\ symbols[n] # NULL => Sym1(calls)[n] # NULL
      /\ n \in Private /\ lazy \subseteq OtherNames => Sym1(calls)[n] = symbols[n]
  BY <1>2, CacheKeeps DEF Sym1
<1>10. /\ Sym1(calls)[n] # NULL => Sym2(calls)[n] # NULL
       /\ n # cur.name => Sym2(calls)[n] = Sym1(calls)[n]
       /\ n = cur.name /\ n \in Private => Sym2(calls)[n] = CodeAddr(Base)
  BY <1>1, <1>6, <1>7, <1>8, AddKeeps
<1>11. /\ Sym2(calls)[n] # NULL => symbols'[n] # NULL
       /\ n \in Private /\ lazy \subseteq OtherNames => symbols'[n] = Sym2(calls)[n]
       /\ symbols' \in Table
  <2>1. CASE symbols' = Sym2(calls)
    BY <2>1, <1>2
  <2>2. ASSUME NEW N, symbols' = CacheLookups(V2(calls), N)
        PROVE  /\ Sym2(calls)[n] # NULL => symbols'[n] # NULL
               /\ n \in Private /\ lazy \subseteq OtherNames => symbols'[n] = Sym2(calls)[n]
               /\ symbols' \in Table
    BY <2>2, <1>2, CacheKeeps, CacheType
  <2> QED
    BY <2>1, <2>2, <1>3
<1> QED
  BY <1>3, <1>5, <1>9, <1>10, <1>11

\* A call bound to a function of the session has the address of its code.
LEMMA FuncEndNames ==
    ASSUME IInv, NamesInv, NEW calls \in Calls, FuncEnd(calls)
    PROVE  NamesInv'
<1> DEFINE l == Len(relocs)
           R == Rel(calls)
           f == cur.name
<1>1. /\ f \in Names /\ Base \in Nat /\ l \in Nat /\ Len(calls) \in Nat
      /\ relocs \in Seq(Link)
  BY FuncEndBase, ConstantsAssumption
<1>2. /\ lazy' = lazy /\ lazy \subseteq OtherNames /\ defs \in [Names -> Nat]
      /\ defs' = [defs EXCEPT ![f] = @ + 1]
  BY FuncEndNamed DEF NamesInv
<1>3. /\ Len(R) = l + Len(calls) /\ Len(relocs') = Len(R) /\ relocs' \in Seq(Link)
      /\ \A i \in 1 .. Len(R) :
            /\ relocs'[i].sym = R[i].sym
            /\ relocs'[i].to # R[i].to =>
                  /\ relocs'[i].to # NULL
                  /\ relocs'[i].to \in {Resolve(V1(calls), R[i].sym), Resolve(V2(calls), R[i].sym)}
  BY FuncEndRel, FuncEndRelocs
<1>4. \A i \in 1 .. Len(R) : R[i].to = NULL \/ (i \in DOMAIN relocs /\ R[i] = relocs[i])
  <2> SUFFICES ASSUME NEW i \in 1 .. Len(R)
               PROVE  R[i].to = NULL \/ (i \in DOMAIN relocs /\ R[i] = relocs[i])
    OBVIOUS
  <2>1. CASE i \in 1 .. l
    BY <2>1, <1>1, FuncEndRel, SeqIsFun
  <2>2. CASE i \notin 1 .. l
    <3>1. i - l \in 1 .. Len(calls) /\ i = l + (i - l)
      BY <2>2, <1>1, <1>3
    <3>2. \A k \in 1 .. Len(calls) : R[l + k].to = NULL
      BY FuncEndRel
    <3> QED
      BY <3>1, <3>2
  <2> QED
    BY <2>1, <2>2
<1>5. DOMAIN relocs' = 1 .. Len(R)
  BY <1>3, SeqIsFun
<1>6. /\ ViewOK(V1(calls)) /\ ViewOK(V2(calls)) /\ V1(calls).obj = objdef' /\ V2(calls).obj = objdef'
      /\ V1(calls).sym = symbols /\ V2(calls).sym = Sym2(calls)
      /\ V1(calls).lazy = lazy /\ V2(calls).lazy = lazy
  BY FuncEndViews, FuncEndNamed
<1> HIDE DEF R
<1>7. ASSUME NEW n \in Private PROVE NameInv(n)'
  <2>1. n \in Names /\ NameInv(n) /\ defs[n] \in Nat
    BY <1>2 DEF NamesInv, Private
  <2>2. /\ objdef[n] # NULL => objdef'[n] = objdef[n]
        /\ objdef[n] = NULL => objdef'[n] = IF n = f THEN Base ELSE NULL
        /\ Sym2(calls)[n] = IF n = f THEN CodeAddr(Base) ELSE symbols[n]
        /\ symbols'[n] = Sym2(calls)[n]
    BY <2>1, <1>2, FuncEndTables
  <2>3. /\ Resolve(V1(calls), n) = IF objdef'[n] # NULL THEN CodeAddr(objdef'[n]) ELSE symbols[n]
        /\ Resolve(V2(calls), n) = IF objdef'[n] # NULL THEN CodeAddr(objdef'[n]) ELSE symbols'[n]
    BY <2>2, <1>2, <1>6, ResolvePrivate
  <2>4. \A i \in 1 .. Len(R) : relocs'[i].sym = n =>
           \/ relocs'[i].to = NULL
           \/ i \in DOMAIN relocs /\ relocs[i].sym = n /\ relocs'[i].to = relocs[i].to
           \/ relocs'[i].to \in {Resolve(V1(calls), n), Resolve(V2(calls), n)}
    BY <1>3, <1>4
  <2>5. Base # NULL
    BY <1>1, NullAssumption
  <2>6. CASE n # f
    <3>1. defs'[n] = defs[n] /\ objdef'[n] = objdef[n] /\ symbols'[n] = symbols[n]
      BY <2>1, <2>2, <2>6, <1>2
    <3>2. ASSUME defs[n] = 0
          PROVE  /\ objdef'[n] = NULL /\ symbols'[n] = NULL
                 /\ \A i \in 1 .. Len(R) : relocs'[i].sym = n => relocs'[i].to = NULL
      BY <3>1, <3>2, <2>1, <2>3, <2>4 DEF NameInv
    <3>3. ASSUME defs[n] = 1
          PROVE  /\ symbols'[n] = CodeAddr(objdef'[n])
                 /\ \A i \in 1 .. Len(R) :
                       relocs'[i].sym = n => relocs'[i].to \in {NULL, symbols'[n]}
      BY <3>1, <3>3, <2>1, <2>3, <2>4 DEF NameInv
    <3> QED
      BY <3>1, <3>2, <3>3, <2>1, <1>5 DEF NameInv
  <2>7. CASE n = f
    <3>1. defs'[n] = defs[n] + 1 /\ symbols'[n] = CodeAddr(Base)
      BY <2>1, <2>2, <2>7, <1>2
    <3>2. objdef'[n] # NULL
      BY <2>2, <2>5, <2>7
    <3>3. ASSUME defs[n] = 0
          PROVE  /\ symbols'[n] = CodeAddr(objdef'[n])
                 /\ \A i \in 1 .. Len(R) :
                       relocs'[i].sym = n => relocs'[i].to \in {NULL, symbols'[n]}
      <4>1. objdef'[n] = Base /\ \A i \in DOMAIN relocs : relocs[i].sym = n => relocs[i].to = NULL
        BY <3>3, <2>1, <2>2, <2>7 DEF NameInv
      <4> QED
        BY <4>1, <3>1, <3>2, <2>3, <2>4
    <3>4. defs'[n] # 0 /\ (defs'[n] = 1 => defs[n] = 0)
      BY <3>1, <2>1
    <3> QED
      BY <3>2, <3>3, <3>4, <1>5 DEF NameInv
  <2> QED
    BY <2>6, <2>7
<1>8. defs' \in [Names -> Nat]
  BY <1>1, <1>2
<1> QED
  BY <1>2, <1>7, <1>8 DEF NamesInv

\* A failed func_end adds relocations without a target.
LEMMA FuncEndFailsLinks ==
    ASSUME IInv, NEW calls \in Calls, FuncEndFails(calls)
    PROVE  /\ \A i \in DOMAIN relocs' :
                 relocs'[i].to = NULL \/ (i \in DOMAIN relocs /\ relocs'[i] = relocs[i])
           /\ UNCHANGED <<lazy, libs, defs, objdef, symbols>>
<1> DEFINE E == Emitted(calls)
           l == Len(relocs)
<1>1. relocs' = relocs \o E /\ UNCHANGED <<lazy, libs, defs, objdef, symbols>>
  BY DEF FuncEndFails, table
<1>2. E \in Seq(Link) /\ Len(E) = Len(calls) /\ Len(calls) \in Nat
  BY EmittedCorrect
<1>3. \A i \in 1 .. Len(calls) : E[i].to = NULL
  BY DEF Emitted
<1>4. relocs \in Seq(Link) /\ l \in Nat /\ DOMAIN relocs = 1 .. l
  BY SeqIsFun DEF IInv, LinkTypes
<1> HIDE DEF E
<1>5. /\ relocs' \in Seq(Link) /\ Len(relocs') = l + Len(E)
      /\ \A i \in 1 .. l : relocs'[i] = relocs[i]
      /\ \A i \in 1 .. Len(E) : relocs'[l + i] = E[i]
  <2>1. relocs \in Seq(Link) /\ E \in Seq(Link)
    BY <1>2, <1>4
  <2>2. relocs \o E \in Seq(Link) /\ Len(relocs \o E) = l + Len(E)
    BY <2>1, ConcatCorrect
  <2>3. \A i \in 1 .. l : (relocs \o E)[i] = relocs[i]
    BY <2>1, ConcatCorrect
  <2>4. \A i \in 1 .. Len(E) : (relocs \o E)[l + i] = E[i]
    BY <2>1, ConcatCorrect
  <2> QED
    BY <2>2, <2>3, <2>4, <1>1
<1>6. DOMAIN relocs' = 1 .. l + Len(calls)
  BY <1>2, <1>5, SeqIsFun
<1>7. ASSUME NEW i \in DOMAIN relocs'
      PROVE  relocs'[i].to = NULL \/ (i \in DOMAIN relocs /\ relocs'[i] = relocs[i])
  <2>1. CASE i \in 1 .. l
    BY <2>1, <1>4, <1>5
  <2>2. CASE i \notin 1 .. l
    <3>1. i - l \in 1 .. Len(calls) /\ i = l + (i - l)
      BY <2>2, <1>2, <1>4, <1>6
    <3>2. \A k \in 1 .. Len(calls) : relocs'[l + k].to = NULL
      BY <1>2, <1>3, <1>5
    <3> QED
      BY <3>1, <3>2
  <2> QED
    BY <2>1, <2>2
<1> QED
  BY <1>1, <1>7

\* The names only the session's functions define keep their meaning.
LEMMA NamesStep ==
    ASSUME IInv, CodeInv, NamesInv, [Next]_vars
    PROVE  NamesInv'
<1>1. CASE Quiet \/ JitBeginUpdate \/ JitEndUpdate
  <2>1. UNCHANGED <<lazy, defs, objdef, symbols, relocs>>
    BY <1>1, QuietMeans DEF links, table, JitBeginUpdate, JitEndUpdate
  <2> QED
    BY <2>1, NamesSame
<1>2. CASE Patching
  BY <1>2, PatchingCall, PatchNames
<1>3. ASSUME NEW n \in OtherNames, CompileModule(n) PROVE NamesInv'
  <2>1. /\ UNCHANGED <<defs, objdef, relocs>> /\ lazy' \subseteq lazy \cup {n}
        /\ symbols' = symbols \/ symbols' = JitAddSymbol(View, n, ModAddr(n))
    BY <1>3 DEF CompileModule, links
  <2>2. n \in Names /\ ViewOK(View) /\ View.sym = symbols
    BY ConstantsAssumption, ViewType DEF View, IInv
  <2>3. \A k \in Private : symbols'[k] = symbols[k]
    <3> SUFFICES ASSUME NEW k \in Private PROVE symbols'[k] = symbols[k]
      OBVIOUS
    <3>1. k \in Names /\ k # n
      BY DEF Private
    <3>2. JitAddSymbol(View, n, ModAddr(n))[k] = symbols[k]
      BY <3>1, <2>2, AddressKinds, AddKeeps
    <3> QED
      BY <3>2, <2>1
  <2>4. \A k \in Private : NameInv(k)'
    BY <2>1, <2>3 DEF NamesInv, NameInv
  <2> QED
    BY <2>1, <2>4 DEF NamesInv
<1>4. ASSUME NEW calls \in Calls, FuncEndFails(calls) PROVE NamesInv'
  <2>1. /\ \A i \in DOMAIN relocs' :
              relocs'[i].to = NULL \/ (i \in DOMAIN relocs /\ relocs'[i] = relocs[i])
        /\ UNCHANGED <<lazy, defs, objdef, symbols>>
    BY <1>4, FuncEndFailsLinks
  <2>2. ASSUME NEW k \in Private PROVE NameInv(k)'
    BY <2>1 DEF NamesInv, NameInv
  <2> QED
    BY <2>1, <2>2 DEF NamesInv
<1> QED
  BY <1>1, <1>2, <1>3, <1>4, FuncEndNames, NextCases

-----------------------------------------------------------------------------
\* What resolves is known to the view.
LEMMA ResolveKnown ==
    ASSUME NEW v, NEW n \in Names, Resolve(v, n) # NULL
    PROVE  \/ v.obj[n] # NULL \/ v.sym[n] # NULL
           \/ n \in HostNames \/ (v.libs /\ n \in LibNames)
BY DEF Resolve, LookupSymbol, Provided

\* What is known resolves, unless its module waits to be compiled.
LEMMA KnownResolves ==
    ASSUME IInv, lazy = {}, NEW n \in Names, Known(n)
    PROVE  Resolve(View, n) # NULL
<1>1. /\ View.obj = objdef /\ View.sym = symbols /\ View.lazy = lazy /\ View.libs = libs
  BY DEF View
<1>2. HostAddr(n) # NULL
  BY AddressKinds, NullAssumption
<1>3. objdef[n] # NULL => CodeAddr(objdef[n]) # NULL
  <2>1. objdef[n] # NULL => objdef[n] \in 0 .. CodeCap
    BY DEF IInv, LinkTypes, ObjTable
  <2> QED
    BY <2>1, AddressKinds, NullAssumption
<1> QED
  BY <1>1, <1>2, <1>3 DEF Known, Resolve, LookupSymbol, Provided

\* A name that a call was bound to stays known.
LEMMA KnownStep ==
    ASSUME IInv, CodeInv, KnownInv, [Next]_vars
    PROVE  KnownInv'
<1> DEFINE l == Len(relocs)
<1>0. DOMAIN relocs = 1 .. l /\ OtherNames \subseteq Names
  BY SeqIsFun, ConstantsAssumption DEF IInv, LinkTypes
<1>1. CASE Quiet \/ JitBeginUpdate \/ JitEndUpdate
  <2>1. UNCHANGED <<lazy, libs, objdef, symbols, relocs>>
    BY <1>1, QuietMeans DEF links, table, JitBeginUpdate, JitEndUpdate
  <2>2. \A n \in Names : (Known(n)' <=> Known(n)) /\ (Target(n)' <=> Target(n))
    BY <2>1 DEF Known, Target
  <2> QED
    BY <2>1, <2>2 DEF KnownInv
<1>2. CASE Patching
  <2>1. PICK v : PatchView(v)
    BY <1>2, PatchingCall
  <2>2. /\ Len(relocs') = l /\ relocs' \in Seq(Link)
        /\ \A i \in 1 .. l :
              /\ relocs'[i].sym = relocs[i].sym
              /\ relocs'[i].to # relocs[i].to =>
                    relocs'[i].to = Resolve(v, relocs[i].sym) /\ relocs'[i].to # NULL
        /\ objdef' = objdef
    BY <2>1, PatchEffect DEF PatchView
  <2>3. DOMAIN relocs' = 1 .. l
    BY <2>2, SeqIsFun
  <2>4. /\ v.obj = objdef /\ v.libs = libs' /\ lazy' \subseteq lazy /\ (libs => libs')
        /\ libs' \in {libs, TRUE}
        /\ \A n \in Names : (symbols[n] # NULL => v.sym[n] # NULL)
                            /\ (v.sym[n] # NULL => symbols'[n] # NULL)
    BY <2>1 DEF PatchView
  <2>5. \A n \in Names : Known(n) => Known(n)'
    BY <2>2, <2>4 DEF Known
  <2>6. \A n \in Names : Resolve(v, n) # NULL => Known(n)'
    BY <2>2, <2>4, ResolveKnown DEF Known
  <2>7. ASSUME NEW n \in Names, Target(n)'
        PROVE  Known(n)'
    <3>1. PICK i \in 1 .. l : relocs'[i].sym = n /\ relocs'[i].to # NULL
      BY <2>3, <2>7 DEF Target
    <3>2. CASE relocs'[i].to = relocs[i].to
      <4>1. Target(n)
        BY <3>1, <3>2, <2>2, <1>0 DEF Target
      <4> QED
        BY <4>1, <2>5 DEF KnownInv
    <3>3. CASE relocs'[i].to # relocs[i].to
      BY <3>1, <3>3, <2>2, <2>6
    <3> QED
      BY <3>2, <3>3
  <2> QED
    BY <2>4, <2>7 DEF KnownInv
<1>3. ASSUME NEW n \in OtherNames, CompileModule(n) PROVE KnownInv'
  <2>1. /\ UNCHANGED <<libs, objdef, relocs>>
        /\ symbols' = symbols \/ symbols' = JitAddSymbol(View, n, ModAddr(n))
        /\ ~LazyJit => lazy' = lazy
    BY <1>3 DEF CompileModule, links
  <2>2. n \in Names /\ ViewOK(View) /\ View.sym = symbols
    BY <1>0, ViewType DEF View, IInv
  <2>3. \A k \in Names : symbols[k] # NULL => symbols'[k] # NULL
    BY <2>1, <2>2, AddressKinds, AddKeeps
  <2>4. \A k \in Names : Known(k) => Known(k)'
    BY <2>1, <2>3 DEF Known
  <2>5. \A k \in Names : Target(k)' <=> Target(k)
    BY <2>1 DEF Target
  <2> QED
    BY <2>1, <2>4, <2>5 DEF KnownInv
<1>4. ASSUME NEW calls \in Calls, FuncEndFails(calls) PROVE KnownInv'
  <2>1. /\ \A i \in DOMAIN relocs' :
              relocs'[i].to = NULL \/ (i \in DOMAIN relocs /\ relocs'[i] = relocs[i])
        /\ UNCHANGED <<lazy, libs, objdef, symbols>>
    BY <1>4, FuncEndFailsLinks
  <2>2. \A n \in Names : Target(n)' => Target(n)
    BY <2>1 DEF Target
  <2>3. \A n \in Names : Known(n)' <=> Known(n)
    BY <2>1 DEF Known
  <2> QED
    BY <2>1, <2>2, <2>3 DEF KnownInv
<1>5. ASSUME NEW calls \in Calls, FuncEnd(calls) PROVE KnownInv'
  <2> DEFINE R == Rel(calls)
  <2>1. /\ relocs' \in Seq(Link) /\ Len(relocs') = Len(R) /\ R \in Seq(Link)
        /\ \A i \in 1 .. Len(R) :
              /\ relocs'[i].sym = R[i].sym
              /\ relocs'[i].to # R[i].to =>
                    /\ relocs'[i].to # NULL
                    /\ relocs'[i].to \in {Resolve(V1(calls), R[i].sym),
                                          Resolve(V2(calls), R[i].sym)}
    BY <1>5, FuncEndRel, FuncEndRelocs
  <2>2. DOMAIN relocs' = 1 .. Len(R)
    BY <2>1, SeqIsFun
  <2>3. \A i \in 1 .. Len(R) : R[i].to = NULL \/ (i \in DOMAIN relocs /\ R[i] = relocs[i])
    <3> SUFFICES ASSUME NEW i \in 1 .. Len(R), i \notin 1 .. l
                 PROVE  R[i].to = NULL
      BY <1>0, <1>5, FuncEndRel
    <3>1. l \in Nat /\ Len(calls) \in Nat /\ Len(R) = l + Len(calls)
      BY <1>5, FuncEndBase, FuncEndRel
    <3>2. i - l \in 1 .. Len(calls) /\ i = l + (i - l)
      BY <3>1
    <3>3. \A k \in 1 .. Len(calls) : R[l + k].to = NULL
      BY <1>5, FuncEndRel
    <3> QED
      BY <3>2, <3>3
  <2>4. /\ V1(calls).obj = objdef' /\ V2(calls).obj = objdef'
        /\ V1(calls).sym = symbols /\ V2(calls).sym = Sym2(calls)
        /\ V1(calls).libs = libs /\ V2(calls).libs = libs
        /\ UNCHANGED <<lazy, libs>>
    BY <1>5, FuncEndViews, FuncEndNamed
  <2>5. \A n \in Names : /\ objdef[n] # NULL => objdef'[n] # NULL
                         /\ symbols[n] # NULL => symbols'[n] # NULL
                         /\ Sym2(calls)[n] # NULL => symbols'[n] # NULL
    BY <1>5, FuncEndTables
  <2> HIDE DEF R
  <2>6. \A n \in Names : Known(n) => Known(n)'
    BY <2>4, <2>5 DEF Known
  <2>7. \A n \in Names : Resolve(V1(calls), n) # NULL \/ Resolve(V2(calls), n) # NULL => Known(n)'
    BY <2>4, <2>5, ResolveKnown DEF Known
  <2>8. ASSUME NEW n \in Names, Target(n)'
        PROVE  Known(n)'
    <3>1. PICK i \in 1 .. Len(R) : relocs'[i].sym = n /\ relocs'[i].to # NULL
      BY <2>2, <2>8 DEF Target
    <3>2. CASE relocs'[i].to = R[i].to
      <4>1. Target(n)
        BY <3>1, <3>2, <2>1, <2>3 DEF Target
      <4> QED
        BY <4>1, <2>6 DEF KnownInv
    <3>3. CASE relocs'[i].to # R[i].to
      BY <3>1, <3>3, <2>1, <2>7
    <3> QED
      BY <3>2, <3>3
  <2> QED
    BY <2>4, <2>8 DEF KnownInv
<1> QED
  BY <1>1, <1>2, <1>3, <1>4, <1>5, NextCases

\* The table of relocations only grows.
LEMMA RangeStep ==
    ASSUME IInv, CodeInv, RangeInv, [Next]_vars
    PROVE  RangeInv'
<1>0. Len(relocs) \in Nat /\ active_start \in Nat /\ pending_start \in Nat /\ relocs \in Seq(Link)
  BY DEF IInv, LinkTypes
<1>1. CASE Quiet
  <2>1. relocs' = relocs /\ pending_start' = pending_start
    BY <1>1, QuietMeans DEF links
  <2>2. active_start' \in {active_start, Len(relocs)} /\ answered' \in BOOLEAN
    BY <1>1 DEF Quiet, FuncBegin, Block, SuspendFunc, ResumeFunc, FuncEndWithoutCode,
                FinishFunctionState, vars, funcs, RangeInv
  <2> QED
    BY <2>1, <2>2, <1>0 DEF RangeInv
<1>2. CASE Patching
  <2>1. PICK v : PatchView(v)
    BY <1>2, PatchingCall
  <2>2. Len(relocs') = Len(relocs) /\ active_start' = active_start
    BY <2>1, PatchEffect DEF PatchView, funcs
  <2>3. pending_start' \in {pending_start, 0}
    BY <2>1 DEF PatchView, PatchPending
  <2>4. answered' \in BOOLEAN
    BY <1>2 DEF Patching, AddSymbol, Global, LoadLibrary, LookupPending, LookupReady
  <2> QED
    BY <2>2, <2>3, <2>4, <1>0 DEF RangeInv
<1>3. CASE (\E n \in OtherNames : CompileModule(n)) \/ JitBeginUpdate \/ JitEndUpdate
  BY <1>3 DEF CompileModule, JitBeginUpdate, JitEndUpdate, funcs, links, RangeInv
<1>4. ASSUME NEW calls \in Calls, FuncEndFails(calls) PROVE RangeInv'
  <2>1. /\ relocs' = relocs \o Emitted(calls) /\ answered' = FALSE
        /\ UNCHANGED <<active_start, pending_start>>
    BY <1>4 DEF FuncEndFails, FinishFunctionState
  <2>2. Emitted(calls) \in Seq(Link) /\ Len(Emitted(calls)) \in Nat
    BY EmittedCorrect
  <2>3. Len(relocs') = Len(relocs) + Len(Emitted(calls))
    BY <2>1, <2>2, <1>0, ConcatCorrect
  <2>4. active_start' <= Len(relocs') /\ pending_start' <= Len(relocs')
    BY <2>1, <2>2, <2>3, <1>0 DEF RangeInv
  <2>5. answered' \in BOOLEAN
    BY <2>1
  <2> QED
    BY <2>4, <2>5 DEF RangeInv
<1>5. ASSUME NEW calls \in Calls, FuncEnd(calls) PROVE RangeInv'
  <2>1. Len(relocs') = Len(relocs) + Len(calls) /\ Len(calls) \in Nat
    BY <1>5, FuncEndRelocs, EmittedCorrect
  <2>2. active_start' = active_start /\ answered' = FALSE
    BY <1>5 DEF FuncEnd, FinishFunctionState
  <2>3. pending_start' \in {From(calls) - 1, 0}
    BY <1>5 DEF FuncEnd, From, All1, Rel, V1, Start, Base
  <2>4. From(calls) - 1 \in {active_start, pending_start}
    BY <1>0 DEF From, PendingStart, Start
  <2>5. active_start' <= Len(relocs') /\ pending_start' <= Len(relocs')
    BY <2>1, <2>2, <2>3, <2>4, <1>0 DEF RangeInv
  <2>6. answered' \in BOOLEAN
    BY <2>2
  <2> QED
    BY <2>5, <2>6 DEF RangeInv
<1> QED
  BY <1>1, <1>2, <1>3, <1>4, <1>5, NextCases

-----------------------------------------------------------------------------
(***************************************************************************)
(* The theorems                                                            *)
(***************************************************************************)
DInv == IInv /\ OpenInv /\ WindowInv /\ CodeInv /\ NamesInv /\ KnownInv /\ RangeInv

\* A new session satisfies the invariant.
LEMMA InitDInv == Init => DInv
<1> SUFFICES ASSUME Init PROVE DInv
  OBVIOUS
<1>1. IInv
  BY InitIInv
<1>2. OpenInv
  BY DEF Init, OpenInv, OnePlace, Here, There
<1>3. WindowInv
  BY ConstantsAssumption DEF Init, WindowInv
<1>4. CodeInv
  <2>1. code \in [Cells -> Cell]
    BY DEF Init, Cells, Cell
  <2>2. \A a \in Cells : code[a].got = {}
    BY DEF Init, Cells
  <2>3. /\ blobs = <<>> /\ relocs = <<>> /\ code_size = Builtins /\ Builtins \in Nat
    BY ConstantsAssumption DEF Init
  <2>4. blobs \in Seq(Blob) /\ DOMAIN blobs = {} /\ DOMAIN relocs = {}
    BY <2>3
  <2> QED
    BY <2>1, <2>2, <2>3, <2>4 DEF CodeInv, PlacedInv, BlobCells, BlobOrder, GotOwn
<1>5. NamesInv
  <2>1. /\ lazy = {} /\ DOMAIN relocs = {} /\ defs \in [Names -> Nat]
        /\ \A n \in Names : defs[n] = 0 /\ objdef[n] = NULL /\ symbols[n] = NULL
    BY DEF Init
  <2> QED
    BY <2>1 DEF NamesInv, NameInv, Private
<1>6. KnownInv
  <2>1. DOMAIN relocs = {} /\ lazy = {}
    BY DEF Init
  <2>2. libs \in BOOLEAN
    BY DEF Init
  <2> QED
    BY <2>1, <2>2 DEF KnownInv, Target
<1>7. RangeInv
  <2>1. active_start <= Len(relocs) /\ pending_start <= Len(relocs)
    BY DEF Init
  <2>2. answered \in BOOLEAN
    BY DEF Init
  <2> QED
    BY <2>1, <2>2 DEF RangeInv
<1> QED
  BY <1>1, <1>2, <1>3, <1>4, <1>5, <1>6, <1>7 DEF DInv

\* No step of the session leaves it.
LEMMA StepDInv == DInv /\ [Next]_vars => DInv'
BY StepIInv, OpenStep, WindowStep, CodeStep, NamesStep, KnownStep, RangeStep DEF DInv

\* Every call keeps the invariant.
LEMMA SessionInvariant == Spec => []DInv
BY InitDInv, StepDInv, PTL DEF Spec

\* The session, the tables and the code buffer keep their types: the indices
\* stay inside the relocation table and every offset inside the code.
THEOREM SessionTypes == Spec => []TypeOK
<1>1. ASSUME DInv PROVE TypeOK
  <2>1. /\ CodeCap \in Nat /\ MaxCalls \in Nat /\ MaxBegins \in Nat /\ Builtins \in Nat
        /\ begun \in 0 .. MaxBegins /\ code_size \in 0 .. CodeCap /\ Builtins <= code_size
    BY <1>1, ConstantsAssumption DEF DInv, IInv, LinkTypes, CodeInv
  <2>2. /\ Len(relocs) \in Nat /\ relocs \in Seq(Link) /\ DOMAIN relocs = 1 .. Len(relocs)
        /\ \A i \in 1 .. Len(relocs) : relocs[i] \in Link
    BY <1>1, SeqIsFun DEF DInv, IInv, LinkTypes
  <2>3. ASSUME NEW i \in 1 .. Len(relocs)
        PROVE  relocs[i] \in Reloc
    <3>1. relocs[i].addr \in Nat /\ (relocs[i].addr < code_size \/ relocs[i].addr <= MaxCalls)
      BY <2>2, <1>1 DEF Link, DInv, CodeInv, PlacedInv
    <3>2. relocs[i].addr \in 0 .. (CodeCap + MaxCalls)
      BY <3>1, <2>1
    <3> QED
      BY <3>2, <2>2 DEF Link, Reloc
  <2>4. relocs \in Seq(Reloc)
    <3>1. relocs \in [1 .. Len(relocs) -> Reloc]
      BY <2>2, <2>3
    <3> QED
      BY <3>1, <2>2, FunIsSeq
  <2>5. active_start \in 0 .. Len(relocs) /\ pending_start \in 0 .. Len(relocs)
    BY <2>2, <1>1 DEF DInv, IInv, LinkTypes, RangeInv
  <2>6. open \subseteq 1 .. MaxBegins
    BY <2>1, <1>1 DEF DInv, OpenInv
  <2>7. code_size \in Builtins .. CodeCap
    BY <2>1
  <2>8. stale \subseteq 0 .. CodeCap - 1
    <3>1. \A a \in stale : a \in upd.begin .. code_size - 1
      BY <1>1 DEF DInv, WindowInv
    <3>2. upd.begin \in Nat
      BY <2>1, <1>1 DEF DInv, WindowInv
    <3> QED
      BY <3>1, <3>2, <2>1
  <2>9. /\ cur \in Func \cup {NULL} /\ suspended \in Seq(Func) /\ objdef \in ObjTable
        /\ symbols \in Table /\ pending \in BOOLEAN
    BY <1>1 DEF DInv, IInv, LinkTypes
  <2>10. /\ code \in [Cells -> Cell] /\ blobs \in Seq(Blob)
    BY <1>1 DEF DInv, CodeInv
  <2>11. /\ lazy \subseteq Names /\ defs \in [Names -> Nat]
    BY <1>1, ConstantsAssumption DEF DInv, NamesInv
  <2>12. upd \in [active : BOOLEAN, dirty : BOOLEAN, begin : 0 .. CodeCap]
    BY <1>1 DEF DInv, WindowInv
  <2>13. libs \in BOOLEAN /\ answered \in BOOLEAN
    BY <1>1 DEF DInv, KnownInv, RangeInv
  <2> QED
    BY <2>1, <2>4, <2>5, <2>6, <2>7, <2>8, <2>9, <2>10, <2>11, <2>12, <2>13
       DEF TypeOK, ObjTable, Table, Cells, Cell, Blob
<1> QED
  BY <1>1, SessionInvariant, PTL

\* lr_session_suspend_func and lr_session_resume_func, with any number of
\* suspended functions, neither lose nor duplicate one.
THEOREM OpenFunctionsAreKept == Spec => []OpenFunctionsKept
<1>1. DInv => OpenFunctionsKept
  BY OnePlaceMeans DEF DInv
<1> QED
  BY <1>1, SessionInvariant, PTL

\* Outside an update window no byte that was written is missing from the
\* instruction cache: lr_jit_end_update flushes from the lowest patched offset.
THEOREM CodeIsFlushed == Spec => []NoStaleCode
<1>1. DInv => NoStaleCode
  BY DEF DInv, WindowInv, NoStaleCode
<1> QED
  BY <1>1, SessionInvariant, PTL

\* The blob of a function lists the calls of its own code, blobs do not overlap,
\* and a call site is written with its own symbol only.
THEOREM BlobsDescribeCode == Spec => []BlobsMatchCode
<1>1. DInv => BlobsMatchCode
  BY CodeMeans DEF DInv
<1> QED
  BY <1>1, SessionInvariant, PTL

\* A bound call of a function that was defined once goes where lookup sends the
\* caller of the session.
THEOREM CallsAgreeWithLookup == Spec => []CallsMatchLookup
<1>1. ASSUME DInv PROVE CallsMatchLookup
  <2> SUFFICES ASSUME NEW i \in DOMAIN relocs,
                      relocs[i].to # NULL, defs[relocs[i].sym] = 1,
                      relocs[i].sym \notin OtherNames \cup HostNames \cup LibNames
               PROVE  relocs[i].to = symbols[relocs[i].sym]
    BY DEF CallsMatchLookup
  <2>1. relocs[i] \in Link
    BY <1>1, SeqIsFun DEF DInv, IInv, LinkTypes
  <2>2. relocs[i].sym \in Private
    BY <2>1 DEF Link, Private
  <2>3. NameInv(relocs[i].sym)
    BY <2>2, <1>1 DEF DInv, NamesInv
  <2> QED
    BY <2>3 DEF NameInv
<1> QED
  BY <1>1, SessionInvariant, PTL

\* When modules are compiled eagerly and no func_end failed, lookup binds every
\* pending call as soon as each has a definition, whatever came in between.
THEOREM LookupBindsLate == ~LazyJit => (Spec => []LateBindingAtLookup)
<1> SUFFICES ASSUME ~LazyJit PROVE Spec => []LateBindingAtLookup
  OBVIOUS
<1>1. ASSUME DInv PROVE LateBindingAtLookup
  <2> SUFFICES ASSUME Orphans = {}, \A i \in Unbound : Defined(relocs[i].sym),
                      NEW i \in pending_start + 1 .. Len(relocs)
               PROVE  Bindable(relocs, View, i)
    BY DEF LateBindingAtLookup, PatchedAll
  <2>1. /\ pending_start \in Nat /\ relocs \in Seq(Link) /\ Len(relocs) \in Nat
    BY <1>1 DEF DInv, IInv, LinkTypes
  <2>2. i \in DOMAIN relocs /\ relocs[i] \in Link
    BY <2>1, SeqIsFun
  <2>3. relocs[i].placed /\ relocs[i].addr < code_size /\ relocs[i].sym \in Names
    BY <2>2, <1>1 DEF Orphans, DInv, CodeInv, PlacedInv, Link
  <2>4. lazy = {}
    BY <1>1 DEF DInv, KnownInv
  <2>5. Known(relocs[i].sym)
    <3>1. CASE relocs[i].to = NULL
      <4>1. Defined(relocs[i].sym)
        BY <3>1, <2>2, <2>3 DEF Unbound
      <4> QED
        BY <4>1, <2>4 DEF Defined, Known, Provided, View
    <3>2. CASE relocs[i].to # NULL
      BY <3>2, <2>2, <2>3, <1>1 DEF DInv, KnownInv, Target
    <3> QED
      BY <3>1, <3>2
  <2>6. Resolve(View, relocs[i].sym) # NULL
    BY <2>3, <2>4, <2>5, <1>1, KnownResolves DEF DInv
  <2>7. View.size = code_size
    BY DEF View
  <2> QED
    BY <2>3, <2>6, <2>7 DEF Bindable
<1> QED
  BY <1>1, SessionInvariant, PTL
=============================================================================
