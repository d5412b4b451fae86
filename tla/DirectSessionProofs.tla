------------------------ MODULE DirectSessionProofs ------------------------
(***************************************************************************)
(* Proofs for DirectSession: whatever the names, the capacities and the    *)
(* order of the calls, every placed call that is not bound is covered by   *)
(* the pending range, and lr_session_lookup returns an address only when   *)
(* no placed call is unbound.                                              *)
(*                                                                         *)
(* Neither property is inductive alone.  IInv adds that a function being   *)
(* built owns no relocation yet (active_start is the end of the table), so *)
(* that the range finish_direct_compile places and patches is exactly what *)
(* it emitted, and the types that make the tables functions and sequences. *)
(***************************************************************************)
EXTENDS DirectSession, TLAPS

Link == [sym : Names, addr : Nat, placed : BOOLEAN, to : Address \cup {NULL}]

Table == [Names -> Address \cup {NULL}]
ObjTable == [Names -> (0 .. CodeCap) \cup {NULL}]

\* The types the argument needs.
LinkTypes ==
    /\ cur \in Func \cup {NULL}
    /\ suspended \in Seq(Func)
    /\ begun \in 0 .. MaxBegins
    /\ active_start \in Nat
    /\ relocs \in Seq(Link)
    /\ objdef \in ObjTable
    /\ symbols \in Table
    /\ pending \in BOOLEAN
    /\ pending_start \in Nat
    /\ code_size \in 0 .. CodeCap

\* A function under construction has emitted nothing.
ActiveAtEnd == cur # NULL => active_start = Len(relocs)

\* The inductive invariant.
IInv == LinkTypes /\ ActiveAtEnd /\ UnboundIsPending /\ LookupBindsAll

ViewOK(v) == v.obj \in ObjTable /\ v.sym \in Table

-----------------------------------------------------------------------------
\* A function on 1 .. n is a sequence of length n.
LEMMA FunIsSeq ==
    ASSUME NEW S, NEW n \in Nat, NEW f \in [1 .. n -> S]
    PROVE  f \in Seq(S) /\ Len(f) = n /\ DOMAIN f = 1 .. n
OBVIOUS

\* What a sequence of length n is.
LEMMA SeqIsFun ==
    ASSUME NEW S, NEW s \in Seq(S)
    PROVE  /\ Len(s) \in Nat /\ DOMAIN s = 1 .. Len(s)
           /\ \A i \in 1 .. Len(s) : s[i] \in S
OBVIOUS

\* Addresses of every kind are addresses.
LEMMA AddressKinds ==
    ASSUME NEW n \in Names
    PROVE  /\ HostAddr(n) \in Address /\ UserAddr(n) \in Address
           /\ DataAddr(n) \in Address /\ ModAddr(n) \in Address
           /\ \A k \in 0 .. CodeCap : CodeAddr(k) \in Address
BY DEF Address

\* A lookup and a resolution give an address or NULL.
LEMMA ResolveType ==
    ASSUME NEW v, ViewOK(v), NEW n \in Names
    PROVE  /\ LookupSymbol(v, n) \in Address \cup {NULL}
           /\ Resolve(v, n) \in Address \cup {NULL}
<1>1. LookupSymbol(v, n) \in Address \cup {NULL}
  BY AddressKinds DEF LookupSymbol, ViewOK, Table
<1>2. v.obj[n] # NULL => v.obj[n] \in 0 .. CodeCap
  BY DEF ViewOK, ObjTable
<1> QED
  BY <1>1, <1>2, AddressKinds DEF Resolve

\* The table stays a table when lookups are cached or a symbol is added.
LEMMA CacheType ==
    ASSUME NEW v, ViewOK(v), NEW N
    PROVE  CacheLookups(v, N) \in Table
<1>1. \A n \in Names : LookupSymbol(v, n) \in Address \cup {NULL}
  BY ResolveType
<1>2. \A n \in Names : v.sym[n] \in Address \cup {NULL}
  BY DEF ViewOK, Table
<1> QED
  BY <1>1, <1>2 DEF CacheLookups, Table

\* The symbol table stays typed when a symbol is added.
LEMMA AddType ==
    ASSUME NEW v, ViewOK(v), NEW n \in Names, NEW a \in Address
    PROVE  JitAddSymbol(v, n, a) \in Table
BY DEF JitAddSymbol, ViewOK, Table

\* BindRelocs writes targets and nothing else.
LEMMA BindCorrect ==
    ASSUME NEW v, ViewOK(v), NEW rel \in Seq(Link), NEW I
    PROVE  /\ BindRelocs(rel, v, I) \in Seq(Link)
           /\ Len(BindRelocs(rel, v, I)) = Len(rel)
           /\ \A i \in 1 .. Len(rel) :
                 /\ BindRelocs(rel, v, I)[i].sym = rel[i].sym
                 /\ BindRelocs(rel, v, I)[i].addr = rel[i].addr
                 /\ BindRelocs(rel, v, I)[i].placed = rel[i].placed
                 /\ BindRelocs(rel, v, I)[i].to =
                       IF i \in I THEN Resolve(v, rel[i].sym) ELSE rel[i].to
<1> DEFINE n == Len(rel)
           B == BindRelocs(rel, v, I)
<1>1. n \in Nat /\ DOMAIN rel = 1 .. n /\ \A i \in 1 .. n : rel[i] \in Link
  BY SeqIsFun
<1>2. \A i \in 1 .. n :
        B[i] = IF i \in I THEN [rel[i] EXCEPT !.to = Resolve(v, rel[i].sym)] ELSE rel[i]
  BY <1>1 DEF BindRelocs
<1>3. \A i \in 1 .. n : Resolve(v, rel[i].sym) \in Address \cup {NULL}
  BY <1>1, ResolveType DEF Link
<1>4. \A i \in 1 .. n : B[i] \in Link
  BY <1>1, <1>2, <1>3 DEF Link
<1>5. B = [i \in 1 .. n |-> B[i]]
  BY <1>1 DEF BindRelocs
<1> HIDE DEF B
<1>6. B \in [1 .. n -> Link]
  BY <1>4, <1>5
<1>7. B \in Seq(Link) /\ Len(B) = n
  BY <1>1, <1>6, FunIsSeq
<1>8. \A i \in 1 .. n :
         /\ B[i].sym = rel[i].sym /\ B[i].addr = rel[i].addr /\ B[i].placed = rel[i].placed
         /\ B[i].to = IF i \in I THEN Resolve(v, rel[i].sym) ELSE rel[i].to
  BY <1>1, <1>2 DEF Link
<1> QED
  BY <1>7, <1>8 DEF B

\* The relocations a function emits.
LEMMA EmittedCorrect ==
    ASSUME NEW calls \in Calls
    PROVE  /\ Emitted(calls) \in Seq(Link)
           /\ Len(calls) \in Nat
           /\ Len(Emitted(calls)) = Len(calls)
           /\ \A i \in 1 .. Len(calls) : ~Emitted(calls)[i].placed
<1>1. PICK k \in 0 .. MaxCalls : calls \in [1 .. k -> Names]
  BY DEF Calls
<1>2. k \in Nat /\ Len(calls) = k
  BY <1>1, ConstantsAssumption, FunIsSeq
<1>3. Emitted(calls) \in [1 .. k -> Link]
  BY <1>1, <1>2 DEF Emitted, Link
<1>4. Emitted(calls) \in Seq(Link) /\ Len(Emitted(calls)) = k
  BY <1>2, <1>3, FunIsSeq
<1> QED
  BY <1>2, <1>4 DEF Emitted

\* Placing the relocations from lo on leaves the earlier ones alone.
LEMMA PlaceCorrect ==
    ASSUME NEW rel \in Seq(Link), NEW lo \in Nat, NEW base \in Nat
    PROVE  /\ PlaceRelocs(rel, lo, base) \in Seq(Link)
           /\ Len(PlaceRelocs(rel, lo, base)) = Len(rel)
           /\ \A i \in 1 .. Len(rel) :
                 /\ i < lo => PlaceRelocs(rel, lo, base)[i] = rel[i]
                 /\ PlaceRelocs(rel, lo, base)[i].to = rel[i].to
<1> DEFINE n == Len(rel)
           P == PlaceRelocs(rel, lo, base)
<1>1. n \in Nat /\ DOMAIN rel = 1 .. n /\ \A i \in 1 .. n : rel[i] \in Link
  BY SeqIsFun
<1>2. \A i \in 1 .. n :
        P[i] = IF i >= lo THEN [rel[i] EXCEPT !.addr = @ + base, !.placed = TRUE] ELSE rel[i]
  BY <1>1 DEF PlaceRelocs
<1>4. P = [i \in 1 .. n |-> P[i]]
  BY <1>1 DEF PlaceRelocs
<1> HIDE DEF P, n
<1>3. ASSUME NEW i \in 1 .. n
      PROVE  /\ P[i] \in Link /\ P[i].to = rel[i].to
             /\ i < lo => P[i] = rel[i]
  <2> DEFINE r == rel[i]
             q == [r EXCEPT !.addr = @ + base, !.placed = TRUE]
  <2>1. r \in Link /\ r.addr + base \in Nat
    BY <1>1 DEF Link
  <2>2. q \in Link /\ q.to = r.to
    BY <2>1 DEF Link
  <2>3. P[i] = IF i >= lo THEN q ELSE r
    BY <1>2
  <2>4. i \in Nat
    BY <1>1
  <2> HIDE DEF q, r
  <2>5. P[i] \in Link /\ P[i].to = r.to /\ (i < lo => P[i] = r)
    BY <2>1, <2>2, <2>3, <2>4
  <2> QED
    BY <2>5 DEF r
<1>6. P \in [1 .. n -> Link]
  BY <1>3, <1>4
<1>7. P \in Seq(Link) /\ Len(P) = n
  BY <1>1, <1>6, FunIsSeq
<1> QED
  BY <1>3, <1>7 DEF P, n
-----------------------------------------------------------------------------
\* BoundBy returns bindable relocations of the range, and all of them when the
\* whole range can be bound.
LEMMA BoundByCorrect ==
    ASSUME NEW rel, NEW v, NEW lo \in Nat, NEW hi \in Nat
    PROVE  /\ \A i \in BoundBy(rel, v, lo, hi) :
                 i \in lo .. hi /\ Resolve(v, rel[i].sym) # NULL
           /\ PatchedAll(rel, v, lo, hi) => BoundBy(rel, v, lo, hi) = lo .. hi
<1>1. \A i \in BoundBy(rel, v, lo, hi) :
         i \in lo .. hi /\ Resolve(v, rel[i].sym) # NULL
  BY DEF BoundBy, Bindable
<1>2. ASSUME PatchedAll(rel, v, lo, hi)
      PROVE  BoundBy(rel, v, lo, hi) = lo .. hi
  <2>1. \A i \in lo .. hi : \A k \in lo .. i : k \in lo .. hi
    OBVIOUS
  <2> QED
    BY <1>2, <2>1 DEF BoundBy, PatchedAll
<1> QED
  BY <1>1, <1>2

\* The current view is well typed.
LEMMA ViewType ==
    ASSUME LinkTypes
    PROVE  ViewOK(View)
BY DEF LinkTypes, ViewOK, View

\* A pass over the pending range keeps UnboundIsPending; if the whole range can
\* be bound, or nothing was pending, it leaves nothing unbound.
LEMMA PatchStep ==
    ASSUME IInv, NEW v, ViewOK(v), PatchPending(v)
    PROVE  /\ relocs' \in Seq(Link) /\ Len(relocs') = Len(relocs)
           /\ pending' \in BOOLEAN /\ pending_start' \in Nat
           /\ objdef' = objdef /\ code_size' = code_size
           /\ UnboundIsPending'
           /\ ~pending \/ PatchedAll(relocs, v, pending_start + 1, Len(relocs))
                 => Unbound' = {}
<1> DEFINE lo == pending_start + 1
           hi == Len(relocs)
           I == IF pending THEN BoundBy(relocs, v, lo, hi) ELSE {}
           all == PatchedAll(relocs, v, lo, hi)
           left == pending /\ ~all
<1>1. /\ relocs \in Seq(Link) /\ hi \in Nat /\ lo \in Nat /\ pending_start \in Nat
      /\ pending \in BOOLEAN
      /\ DOMAIN relocs = 1 .. hi
  BY SeqIsFun DEF IInv, LinkTypes
<1>2. /\ relocs' = BindRelocs(relocs, v, I)
      /\ pending' = left
      /\ pending_start' = IF left THEN pending_start ELSE 0
      /\ objdef' = objdef /\ code_size' = code_size
  BY DEF PatchPending
<1>3. /\ relocs' \in Seq(Link) /\ Len(relocs') = hi /\ DOMAIN relocs' = 1 .. hi
      /\ \A i \in 1 .. hi :
            /\ relocs'[i].placed = relocs[i].placed
            /\ relocs'[i].to = IF i \in I THEN Resolve(v, relocs[i].sym) ELSE relocs[i].to
  <2> HIDE DEF I
  <2>1. /\ relocs' \in Seq(Link) /\ Len(relocs') = hi
        /\ \A i \in 1 .. hi :
            /\ relocs'[i].placed = relocs[i].placed
            /\ relocs'[i].to = IF i \in I THEN Resolve(v, relocs[i].sym) ELSE relocs[i].to
    BY <1>1, <1>2, BindCorrect
  <2> QED
    BY <2>1, SeqIsFun
<1>4. /\ \A i \in I : i \in lo .. hi /\ Resolve(v, relocs[i].sym) # NULL
      /\ pending /\ all => I = lo .. hi
  BY <1>1, BoundByCorrect
<1>5. \A i \in Unbound : pending /\ i > pending_start
  BY DEF IInv, UnboundIsPending
<1> HIDE DEF I, all, lo, hi
<1>6. \A i \in Unbound' : i \in Unbound /\ i \notin I /\ i \in 1 .. hi
  BY <1>1, <1>3, <1>4 DEF Unbound
<1>7. \A i \in Unbound' : left /\ i > pending_start
  <2> SUFFICES ASSUME NEW i \in Unbound'
               PROVE  left /\ i > pending_start
    OBVIOUS
  <2>1. pending /\ i > pending_start /\ i \in 1 .. hi /\ i \notin I
    BY <1>5, <1>6
  <2>2. i \in lo .. hi
    BY <2>1, <1>1 DEF lo
  <2>3. ~all
    BY <2>1, <2>2, <1>4
  <2> QED
    BY <2>1, <2>3
<1>8. UnboundIsPending'
  BY <1>2, <1>7 DEF UnboundIsPending
<1>9. pending' \in BOOLEAN /\ pending_start' \in Nat
  BY <1>1, <1>2
<1>10. ~pending \/ all => Unbound' = {}
  BY <1>7
<1> QED
  BY <1>2, <1>3, <1>8, <1>9, <1>10 DEF all, lo, hi

\* A new session satisfies the invariant.
LEMMA InitIInv == Init => IInv
<1> SUFFICES ASSUME Init PROVE IInv
  OBVIOUS
<1>1. LinkTypes
  <2>1. /\ cur \in Func \cup {NULL} /\ suspended \in Seq(Func)
        /\ begun \in 0 .. MaxBegins /\ active_start \in Nat /\ relocs \in Seq(Link)
    BY ConstantsAssumption DEF Init
  <2>2. /\ pending \in BOOLEAN /\ pending_start \in Nat
    BY DEF Init
  <2>3. code_size \in 0 .. CodeCap
    BY ConstantsAssumption DEF Init
  <2>4. objdef \in ObjTable /\ symbols \in Table
    BY DEF Init, ObjTable, Table
  <2> QED
    BY <2>1, <2>2, <2>3, <2>4 DEF LinkTypes
<1>2. Unbound = {}
  BY DEF Init, Unbound
<1> QED
  BY <1>1, <1>2 DEF Init, IInv, ActiveAtEnd, UnboundIsPending, LookupBindsAll

\* Placing a function: its calls are bound or pending, and what was pending
\* before stays covered.
LEMMA FuncEndStep ==
    ASSUME IInv, NEW calls \in Calls, FuncEnd(calls)
    PROVE  IInv'
<1> DEFINE f    == cur.name
           base == AlignUp(code_size)
           size == base + FuncLen(calls)
           lo   == active_start + 1
           rel  == PlaceRelocs(relocs \o Emitted(calls), lo, base)
           hi   == Len(rel)
           v1   == [View EXCEPT !.obj = DefineObj(objdef, f, base), !.size = size]
           I1   == BoundBy(rel, v1, lo, hi)
           all1 == PatchedAll(rel, v1, lo, hi)
           pend == pending \/ ~all1
           from == PendingStart(lo, all1) + 1
           sym1 == CacheLookups(v1, LookedUp(rel, v1, lo, hi))
           sym2 == JitAddSymbol([v1 EXCEPT !.sym = sym1], f, CodeAddr(base))
           v2   == [v1 EXCEPT !.sym = sym2]
           I2   == IF pend THEN BoundBy(rel, v2, from, hi) ELSE {}
           all2 == PatchedAll(rel, v2, from, hi)
           left == pend /\ ~all2
<1>1. /\ cur' = NULL /\ answered' = FALSE
      /\ suspended' = suspended /\ begun' = begun /\ active_start' = active_start
      /\ code_size' = size /\ objdef' = v1.obj
      /\ pending' = left /\ pending_start' = IF left THEN from - 1 ELSE 0
      /\ symbols' = IF pend THEN CacheLookups(v2, LookedUp(rel, v2, from, hi)) ELSE sym2
      /\ relocs' = BindRelocs(BindRelocs(rel, v1, I1), v2, I2)
      /\ base + FuncLen(calls) <= CodeCap
  BY DEF FuncEnd, FinishFunctionState, FitsCode
<1>2. /\ cur \in Func /\ f \in Names
      /\ active_start \in Nat /\ relocs \in Seq(Link) /\ objdef \in ObjTable
      /\ symbols \in Table /\ pending \in BOOLEAN /\ pending_start \in Nat
      /\ code_size \in 0 .. CodeCap /\ Len(relocs) \in Nat
      /\ active_start = Len(relocs) /\ lo \in Nat
  <2>1. cur # NULL
    BY DEF FuncEnd
  <2> QED
    BY <2>1 DEF IInv, LinkTypes, ActiveAtEnd, Func
<1>3. /\ Emitted(calls) \in Seq(Link) /\ Len(calls) \in Nat
      /\ Len(Emitted(calls)) = Len(calls)
  BY EmittedCorrect
<1>4. base \in Nat /\ size \in 0 .. CodeCap /\ base \in 0 .. CodeCap
  <2>1. base \in Nat
    BY <1>2, ConstantsAssumption DEF AlignUp
  <2> HIDE DEF base
  <2> QED
    BY <2>1, <1>1, <1>3, ConstantsAssumption DEF FuncLen
<1> HIDE DEF f, base
<1>5. /\ rel \in Seq(Link) /\ hi = Len(relocs) + Len(calls) /\ hi \in Nat
      /\ \A i \in 1 .. hi : i < lo => rel[i] = relocs[i]
  <2> DEFINE cat == relocs \o Emitted(calls)
  <2>1. /\ cat \in Seq(Link) /\ Len(cat) = Len(relocs) + Len(calls)
        /\ \A i \in 1 .. Len(relocs) : cat[i] = relocs[i]
    BY <1>2, <1>3
  <2>2. rel = PlaceRelocs(cat, lo, base)
    OBVIOUS
  <2>3. lo \in Nat /\ base \in Nat /\ lo = Len(relocs) + 1
    BY <1>2, <1>4
  <2> HIDE DEF cat, lo, rel
  <2>4. /\ PlaceRelocs(cat, lo, base) \in Seq(Link)
        /\ Len(PlaceRelocs(cat, lo, base)) = Len(cat)
        /\ \A i \in 1 .. Len(cat) : i < lo => PlaceRelocs(cat, lo, base)[i] = cat[i]
    BY <2>1, <2>3, PlaceCorrect
  <2>5. rel \in Seq(Link) /\ hi = Len(relocs) + Len(calls) /\ hi = Len(cat)
    BY <2>1, <2>2, <2>4
  <2>6. ASSUME NEW i \in 1 .. hi, i < lo
        PROVE  rel[i] = relocs[i]
    <3>1. rel[i] = cat[i]
      BY <2>2, <2>4, <2>5, <2>6
    <3>2. i \in 1 .. Len(relocs)
      BY <2>3, <2>5, <2>6, <1>2, <1>3
    <3> QED
      BY <3>1, <3>2, <2>1
  <2> QED
    BY <2>5, <2>6, <1>2, <1>3
<1>6. ViewOK(v1) /\ v1.obj \in ObjTable /\ v1.sym = symbols
  <2>1. DefineObj(objdef, f, base) \in ObjTable
    BY <1>2, <1>4 DEF DefineObj, ObjTable
  <2>2. v1.obj = DefineObj(objdef, f, base) /\ v1.sym = symbols
    BY DEF View
  <2> QED
    BY <2>1, <2>2, <1>2 DEF ViewOK
<1> HIDE DEF rel, v1
<1>7. sym1 \in Table
  BY <1>6, CacheType
<1>8. sym2 \in Table
  <2> DEFINE w == [v1 EXCEPT !.sym = sym1]
  <2>1. w.sym = sym1 /\ w.obj = v1.obj
    BY DEF v1, View
  <2>2. ViewOK(w)
    BY <2>1, <1>6, <1>7 DEF ViewOK
  <2>3. CodeAddr(base) \in Address
    BY <1>2, <1>4, AddressKinds
  <2> HIDE DEF w
  <2>4. JitAddSymbol(w, f, CodeAddr(base)) \in Table
    BY <2>2, <2>3, <1>2, AddType
  <2> QED
    BY <2>4 DEF w
<1> HIDE DEF sym1, sym2
<1>9. ViewOK(v2)
  <2>1. v2.sym = sym2 /\ v2.obj = v1.obj
    BY DEF v1, View
  <2> QED
    BY <2>1, <1>6, <1>8 DEF ViewOK
<1>10. symbols' \in Table
  <2>1. CacheLookups(v2, LookedUp(rel, v2, from, hi)) \in Table
    BY <1>9, CacheType
  <2> QED
    BY <2>1, <1>1, <1>8
<1> HIDE DEF v2
<1>11. from \in Nat /\ from - 1 \in Nat
  BY <1>2 DEF PendingStart
<1>12. /\ \A i \in I1 : i \in lo .. hi /\ Resolve(v1, rel[i].sym) # NULL
       /\ all1 => I1 = lo .. hi
       /\ \A i \in I2 : i \in from .. hi /\ Resolve(v2, rel[i].sym) # NULL
       /\ pend /\ all2 => I2 = from .. hi
  <2> HIDE DEF lo, hi, from
  <2>1. /\ \A i \in I1 : i \in lo .. hi /\ Resolve(v1, rel[i].sym) # NULL
        /\ all1 => I1 = lo .. hi
    BY <1>2, <1>5, BoundByCorrect
  <2>2. /\ \A i \in BoundBy(rel, v2, from, hi) :
              i \in from .. hi /\ Resolve(v2, rel[i].sym) # NULL
        /\ all2 => BoundBy(rel, v2, from, hi) = from .. hi
    BY <1>5, <1>11, BoundByCorrect
  <2>3. CASE pend
    BY <2>1, <2>2, <2>3
  <2>4. CASE ~pend
    BY <2>1, <2>4
  <2> QED
    BY <2>3, <2>4
<1>13. /\ relocs' \in Seq(Link) /\ Len(relocs') = hi
       /\ \A i \in 1 .. hi : relocs'[i].to = IF i \in I2 THEN Resolve(v2, rel[i].sym)
                                ELSE IF i \in I1 THEN Resolve(v1, rel[i].sym)
                                ELSE rel[i].to
       /\ \A i \in 1 .. hi : relocs'[i].placed = rel[i].placed
  <2> HIDE DEF I1, I2
  <2> DEFINE B == BindRelocs(rel, v1, I1)
  <2>1. /\ B \in Seq(Link) /\ Len(B) = hi
        /\ \A i \in 1 .. hi : /\ B[i].sym = rel[i].sym /\ B[i].placed = rel[i].placed
                              /\ B[i].to = IF i \in I1 THEN Resolve(v1, rel[i].sym)
                                           ELSE rel[i].to
    BY <1>5, <1>6, BindCorrect
  <2> HIDE DEF B
  <2>2. /\ BindRelocs(B, v2, I2) \in Seq(Link) /\ Len(BindRelocs(B, v2, I2)) = Len(B)
        /\ \A i \in 1 .. Len(B) :
              /\ BindRelocs(B, v2, I2)[i].placed = B[i].placed
              /\ BindRelocs(B, v2, I2)[i].to = IF i \in I2 THEN Resolve(v2, B[i].sym)
                                               ELSE B[i].to
    BY <2>1, <1>9, BindCorrect
  <2>3. relocs' = BindRelocs(B, v2, I2)
    BY <1>1 DEF B
  <2> QED
    BY <2>1, <2>2, <2>3
<1> HIDE DEF I1, I2, all1, all2, hi, lo
<1>14. \A i \in Unbound' : left /\ i > from - 1
  <2> SUFFICES ASSUME NEW i \in Unbound'
               PROVE  left /\ i > from - 1
    OBVIOUS
  <2>1. i \in 1 .. hi /\ i \notin I1 /\ i \notin I2 /\ rel[i].to = NULL /\ rel[i].placed
    BY <1>5, <1>12, <1>13 DEF Unbound
  <2>2. pend /\ i \in from .. hi
    <3>1. CASE i < lo
      <4>1. i \in Unbound
        BY <3>1, <2>1, <1>2, <1>5 DEF Unbound, lo
      <4>2. pending /\ i > pending_start
        BY <4>1 DEF IInv, UnboundIsPending
      <4>3. from <= pending_start + 1
        BY <1>2, <4>2 DEF PendingStart, lo
      <4> QED
        BY <4>2, <4>3, <2>1, <1>2, <1>5, <1>11
    <3>2. CASE ~(i < lo)
      <4>1. i \in lo .. hi
        BY <3>2, <2>1, <1>2, <1>5
      <4>2. ~all1
        BY <4>1, <2>1, <1>12
      <4>3. from <= lo
        BY <1>2, <4>2 DEF PendingStart, lo
      <4> QED
        BY <4>1, <4>2, <4>3, <1>2, <1>5, <1>11
    <3> QED
      BY <3>1, <3>2
  <2>3. ~all2
    BY <2>1, <2>2, <1>12
  <2> QED
    BY <2>2, <2>3, <1>11, <1>5
<1>15. UnboundIsPending'
  BY <1>1, <1>14 DEF UnboundIsPending
<1>16. LinkTypes'
  <2>1. pending' \in BOOLEAN /\ pending_start' \in Nat
    BY <1>1, <1>11
  <2>2. cur' \in Func \cup {NULL} /\ suspended' \in Seq(Func) /\ begun' \in 0 .. MaxBegins
    BY <1>1 DEF IInv, LinkTypes
  <2> QED
    BY <2>1, <2>2, <1>1, <1>2, <1>4, <1>6, <1>10, <1>13 DEF LinkTypes
<1> QED
  BY <1>1, <1>15, <1>16 DEF IInv, ActiveAtEnd, LookupBindsAll

\* A failed func_end leaves unplaced relocations: none of them is a call site.
LEMMA FuncEndFailsStep ==
    ASSUME IInv, NEW calls \in Calls, FuncEndFails(calls)
    PROVE  IInv'
<1> DEFINE E == Emitted(calls)
<1>1. /\ E \in Seq(Link) /\ Len(E) \in Nat /\ \A i \in 1 .. Len(E) : ~E[i].placed
  BY EmittedCorrect
<1>2. /\ cur' = NULL /\ answered' = FALSE /\ relocs' = relocs \o E
      /\ UNCHANGED <<suspended, begun, active_start, objdef, symbols, pending,
                     pending_start, code_size>>
  BY DEF FuncEndFails, FinishFunctionState, table, memory
<1>3. relocs \in Seq(Link) /\ Len(relocs) \in Nat
  BY DEF IInv, LinkTypes
<1> HIDE DEF E
<1>4. /\ relocs' \in Seq(Link) /\ Len(relocs') = Len(relocs) + Len(E)
      /\ \A i \in 1 .. Len(relocs) : relocs'[i] = relocs[i]
      /\ \A i \in 1 .. Len(E) : relocs'[Len(relocs) + i] = E[i]
  BY <1>1, <1>2, <1>3
<1>5. ASSUME NEW i \in Unbound'
      PROVE  i \in Unbound
  <2>1. i \in 1 .. Len(relocs') /\ relocs'[i].placed /\ relocs'[i].to = NULL
    BY <1>4, SeqIsFun DEF Unbound
  <2>2. CASE i \in 1 .. Len(relocs)
    BY <2>1, <2>2, <1>3, <1>4 DEF Unbound
  <2>3. CASE i \notin 1 .. Len(relocs)
    <3>1. i - Len(relocs) \in 1 .. Len(E) /\ i = Len(relocs) + (i - Len(relocs))
      BY <2>1, <2>3, <1>1, <1>3, <1>4
    <3>2. ~relocs'[i].placed
      BY <3>1, <1>1, <1>4
    <3> QED
      BY <3>2, <2>1
  <2> QED
    BY <2>2, <2>3
<1>6. UnboundIsPending'
  BY <1>2, <1>5 DEF IInv, UnboundIsPending
<1>7. LinkTypes'
  BY <1>2, <1>4 DEF IInv, LinkTypes
<1> QED
  BY <1>2, <1>6, <1>7 DEF IInv, ActiveAtEnd, LookupBindsAll

\* A step that touches neither the relocations nor the pending range.
LEMMA OtherStep ==
    ASSUME IInv, LinkTypes', ActiveAtEnd', answered' = FALSE,
           UNCHANGED <<relocs, pending, pending_start>>
    PROVE  IInv'
<1>1. Unbound' = Unbound
  BY DEF Unbound
<1> QED
  BY <1>1 DEF IInv, UnboundIsPending, LookupBindsAll

\* The session's calls on functions, modules and update windows.
LEMMA SessionSteps ==
    ASSUME IInv
    PROVE  /\ \A f \in FuncNames : FuncBegin(f) => IInv'
           /\ Block => IInv'
           /\ SuspendFunc => IInv'
           /\ \A i \in DOMAIN suspended : ResumeFunc(i) => IInv'
           /\ FuncEndWithoutCode => IInv'
           /\ \A n \in OtherNames : CompileModule(n) => IInv'
           /\ JitBeginUpdate => IInv'
           /\ JitEndUpdate => IInv'
<1> USE DEF IInv, LinkTypes, ActiveAtEnd, links, table, memory, funcs
<1>1. Len(relocs) \in Nat /\ FuncNames \subseteq Names /\ OtherNames \subseteq Names
  BY SeqIsFun, ConstantsAssumption
<1>2. ASSUME NEW f \in FuncNames, FuncBegin(f) PROVE IInv'
  <2>1. cur' \in Func /\ begun' \in 0 .. MaxBegins
    BY <1>1, <1>2, ConstantsAssumption DEF FuncBegin, Func
  <2> QED
    BY <2>1, <1>1, <1>2, OtherStep DEF FuncBegin
<1>3. ASSUME Block PROVE IInv'
  <2>1. cur' \in Func
    BY <1>3 DEF Block, Func
  <2> QED
    BY <2>1, <1>3, OtherStep DEF Block
<1>4. ASSUME SuspendFunc PROVE IInv'
  <2>1. suspended' \in Seq(Func)
    BY <1>4 DEF SuspendFunc
  <2> QED
    BY <2>1, <1>4, OtherStep DEF SuspendFunc
<1>5. ASSUME NEW i \in DOMAIN suspended, ResumeFunc(i) PROVE IInv'
  <2>1. /\ Len(suspended) \in Nat /\ i \in 1 .. Len(suspended)
        /\ \A k \in 1 .. Len(suspended) : suspended[k] \in Func
    BY SeqIsFun
  <2>2. Len(suspended) - 1 \in Nat
    BY <2>1
  <2>3. RemoveSlot(suspended, i) \in [1 .. Len(suspended) - 1 -> Func]
    BY <2>1 DEF RemoveSlot
  <2>4. suspended' \in Seq(Func)
    BY <2>2, <2>3, <1>5, FunIsSeq DEF ResumeFunc
  <2>5. cur' \in Func
    BY <2>1, <1>5 DEF ResumeFunc
  <2> QED
    BY <2>4, <2>5, <1>1, <1>5, OtherStep DEF ResumeFunc
<1>6. ASSUME FuncEndWithoutCode PROVE IInv'
  BY <1>6, OtherStep DEF FuncEndWithoutCode, FinishFunctionState
<1>7. ASSUME NEW n \in OtherNames, CompileModule(n) PROVE IInv'
  <2>1. JitAddSymbol(View, n, ModAddr(n)) \in Table
    BY <1>1, ViewType, AddressKinds, AddType
  <2>2. symbols' \in Table
    BY <2>1, <1>7 DEF CompileModule
  <2> QED
    BY <2>2, <1>7, OtherStep DEF CompileModule
<1>8. ASSUME JitBeginUpdate PROVE IInv'
  BY <1>8, OtherStep DEF JitBeginUpdate
<1>9. ASSUME JitEndUpdate PROVE IInv'
  BY <1>9, OtherStep DEF JitEndUpdate
<1> QED
  BY <1>2, <1>3, <1>4, <1>5, <1>6, <1>7, <1>8, <1>9

\* The table after a pass over what is pending is a table.
LEMMA PatchedType ==
    ASSUME NEW v, ViewOK(v)
    PROVE  PatchedSymbols(v) \in Table
BY CacheType DEF PatchedSymbols, ViewOK

\* A call that patches what is pending and returns no address.
LEMMA TryPatchStep ==
    ASSUME IInv, NEW v, ViewOK(v), PatchPending(v), symbols' \in Table, UNCHANGED funcs,
           answered' = FALSE \/ ~pending \/ PatchedAll(relocs, v, pending_start + 1, Len(relocs))
    PROVE  IInv'
<1>1. /\ relocs' \in Seq(Link) /\ Len(relocs') = Len(relocs)
      /\ pending' \in BOOLEAN /\ pending_start' \in Nat
      /\ objdef' = objdef /\ code_size' = code_size
      /\ UnboundIsPending'
      /\ answered' = FALSE \/ Unbound' = {}
  BY PatchStep
<1>2. LinkTypes'
  BY <1>1 DEF IInv, LinkTypes, funcs
<1>3. ActiveAtEnd'
  BY <1>1 DEF IInv, ActiveAtEnd, funcs
<1> QED
  BY <1>1, <1>2, <1>3 DEF IInv, LookupBindsAll

\* Replacing the table of a view by a table leaves a view.
LEMMA ViewWithTable ==
    ASSUME IInv, NEW T \in Table
    PROVE  ViewOK([View EXCEPT !.sym = T])
BY DEF View, ViewOK, IInv, LinkTypes

\* The calls that retry the pending relocations.
LEMMA PatchingSteps ==
    ASSUME IInv
    PROVE  /\ \A n \in OtherNames : AddSymbol(n) => IInv'
           /\ LoadLibrary => IInv'
           /\ \A n \in OtherNames : Global(n) => IInv'
           /\ \A n \in Names : LookupPending(n) => IInv'
           /\ \A n \in Names : LookupReady(n) => IInv'
<1>1. ViewOK(View) /\ OtherNames \subseteq Names /\ symbols \in Table
  BY ViewType, ConstantsAssumption DEF IInv, LinkTypes
<1>2. ASSUME NEW n \in OtherNames, AddSymbol(n) PROVE IInv'
  <2> DEFINE v == [View EXCEPT !.sym = JitAddSymbol(View, n, UserAddr(n))]
  <2>1. ViewOK(v)
    BY <1>1, AddressKinds, AddType, ViewWithTable
  <2>2. PatchPending(v) /\ symbols' = PatchedSymbols(v) /\ answered' = FALSE /\ UNCHANGED funcs
    BY <1>2 DEF AddSymbol, TryPatchPending
  <2> HIDE DEF v
  <2> QED
    BY <2>1, <2>2, PatchedType, TryPatchStep
<1>3. ASSUME LoadLibrary PROVE IInv'
  <2> DEFINE v == [View EXCEPT !.libs = TRUE]
  <2>1. ViewOK(v)
    BY <1>1 DEF View, ViewOK
  <2>2. PatchPending(v) /\ symbols' = PatchedSymbols(v) /\ answered' = FALSE /\ UNCHANGED funcs
    BY <1>3 DEF LoadLibrary, TryPatchPending
  <2> HIDE DEF v
  <2> QED
    BY <2>1, <2>2, PatchedType, TryPatchStep
<1>4. ASSUME NEW n \in OtherNames, Global(n) PROVE IInv'
  <2> DEFINE T == IF symbols[n] # NULL THEN symbols ELSE JitAddSymbol(View, n, DataAddr(n))
             v == [View EXCEPT !.sym = T]
  <2>1. T \in Table
    BY <1>1, AddressKinds, AddType
  <2>2. PatchPending(v) /\ symbols' = PatchedSymbols(v) /\ answered' = FALSE /\ UNCHANGED funcs
    BY <1>4 DEF Global, TryPatchPending
  <2> HIDE DEF T
  <2>3. ViewOK(v)
    BY <2>1, ViewWithTable
  <2> HIDE DEF v
  <2> QED
    BY <2>2, <2>3, PatchedType, TryPatchStep
<1>5. ASSUME NEW n \in Names, LookupPending(n) PROVE IInv'
  <2>1. PatchPending(View) /\ symbols' = PatchedSymbols(View) /\ answered' = FALSE /\ UNCHANGED funcs
    BY <1>5 DEF LookupPending, TryPatchPending
  <2> QED
    BY <2>1, <1>1, PatchedType, TryPatchStep
<1>6. ASSUME NEW n \in Names, LookupReady(n) PROVE IInv'
  <2> DEFINE v1 == [View EXCEPT !.sym = PatchedSymbols(View)]
             found == LookupSymbol(v1, n)
             v2 == IF found = NULL /\ n \in lazy
                   THEN [v1 EXCEPT !.sym = JitAddSymbol(v1, n, ModAddr(n)), !.lazy = @ \ {n}]
                   ELSE [v1 EXCEPT !.sym = CacheLookups(v1, {n})]
  <2>1. /\ PatchPending(View) /\ symbols' = v2.sym /\ UNCHANGED funcs
        /\ ~pending \/ PatchedAll(relocs, View, pending_start + 1, Len(relocs))
    BY <1>6 DEF LookupReady
  <2>2. ViewOK(v1)
    BY <1>1, PatchedType, ViewWithTable
  <2>3. JitAddSymbol(v1, n, ModAddr(n)) \in Table /\ CacheLookups(v1, {n}) \in Table
    <3> HIDE DEF v1
    <3> QED
      BY <2>2, AddressKinds, AddType, CacheType
  <2>4. v2.sym = IF found = NULL /\ n \in lazy THEN JitAddSymbol(v1, n, ModAddr(n))
                 ELSE CacheLookups(v1, {n})
    BY DEF View
  <2>5. symbols' \in Table
    <3> HIDE DEF v1, v2, found
    <3> QED
      BY <2>1, <2>3, <2>4
  <2> HIDE DEF v1, v2, found
  <2> QED
    BY <2>1, <2>5, <1>1, TryPatchStep
<1> QED
  BY <1>2, <1>3, <1>4, <1>5, <1>6

\* Every step of a session keeps it.
LEMMA StepIInv == IInv /\ [Next]_vars => IInv'
<1> SUFFICES ASSUME IInv, [Next]_vars PROVE IInv'
  OBVIOUS
<1>1. CASE Next
  BY <1>1, SessionSteps, PatchingSteps, FuncEndStep, FuncEndFailsStep DEF Next
<1>2. CASE UNCHANGED vars
  BY <1>2 DEF vars, funcs, links, table, memory, IInv, LinkTypes, ActiveAtEnd,
              UnboundIsPending, LookupBindsAll, Unbound
<1> QED
  BY <1>1, <1>2

\* finish_direct_compile and every later call keep each placed, unbound call
\* inside the pending range, so try_patch_pending_direct_relocs retries it.
THEOREM PendingCoversUnbound == Spec => []UnboundIsPending
<1>1. IInv => UnboundIsPending
  BY DEF IInv
<1> QED
  BY <1>1, InitIInv, StepIInv, PTL DEF Spec

\* lr_session_lookup never returns an address while a placed call is unbound.
THEOREM LookupIsSafe == Spec => []LookupBindsAll
<1>1. IInv => LookupBindsAll
  BY DEF IInv
<1> QED
  BY <1>1, InitIInv, StepIInv, PTL DEF Spec
=============================================================================
