------------------------ MODULE JitAgreementProofs ------------------------
(***************************************************************************)
(* Proofs about JitModules: all bound calls of a name with one owner go    *)
(* where the symbol table says the name is (CallsAgreeWithTable).          *)
(*                                                                         *)
(* AInv adds to JInv the agreement in the middle of a call (AgreeInv),     *)
(* when calls may already go to code the table does not have.  For a name  *)
(* a module owns, both the table and the calls may only have one address,  *)
(* its Home: where its code was placed as long as it is being compiled,    *)
(* and what the table says otherwise.  A name no module defines keeps the  *)
(* first address it gets; the client may replace none, because the address *)
(* of a provider is preserved (UserVals).  ModeInv keeps lazy entries and  *)
(* eager stages apart, DefInv says when lr_jit_get_defined_function may    *)
(* bind a name to the address of its alias.                                *)
(***************************************************************************)
EXTENDS JitModulesProofs

\* A module that was added defines s.
Defined(s) == \E m \in added : s \in Defines(m)

\* The stage of lr_jit_add_module a stack S is in, as far as it says where the
\* functions of the module are.
NoStage == [k |-> "end", mod |-> NULL, pc |-> 0]
Stage(S) ==
    IF S = <<>> \/ S[1].k \notin {"register", "decls", "patch", "publish"} THEN NoStage
    ELSE [k |-> S[1].k, mod |-> S[1].mod, pc |-> IF S[1].k = "publish" THEN S[1].pc ELSE 0]

\* In the stage g the function s is placed and perhaps not published; s is not
\* placed yet.
Eagerly(g, s) == g.k \in {"patch", "publish"} /\ s \in Defines(g.mod)
Early(g, s) == g.k \in {"register", "decls"} /\ s \in Defines(g.mod)

\* Where the function s of a module is, if anywhere, given a table v and code C:
\* the table has the address only once it is published.
Position(m, s) == CHOOSE k \in DOMAIN ModFuncs[m] : ModFuncs[m][k].name = s
EagerAddr(C, g, s) == CodeAddr(Len(C) - Len(ModFuncs[g.mod]) + Position(g.mod, s))
Home(v, C, g, s) ==
    IF v.lazy[s].st = "compiling" THEN v.lazy[s].addr
    ELSE IF Eagerly(g, s) THEN EagerAddr(C, g, s)
    ELSE v.sym[s]

\* The bound calls of x in C go to a.
CallsGo(C, x, a) ==
    \A i \in DOMAIN C : \A c \in DOMAIN C[i].to :
        C[i].calls[c] = x /\ C[i].to[c] # NULL => C[i].to[c] = a

\* Calls and the table agree that s is at h, under both spellings.
Settled(v, C, s, h) ==
    /\ v.sym[s] \in {NULL, h} /\ v.sym[Alias(s)] \in {NULL, h}
    /\ CallsGo(C, s, h) /\ CallsGo(C, Alias(s), v.sym[Alias(s)])

\* Nobody has an address of a function before it is compiled, and it is in the
\* table once it is published.
Staged(v, g, s, h) ==
    /\ v.lazy[s].st = "pending" \/ Early(g, s) => v.sym[s] = NULL
    /\ Early(g, s) /\ g.k = "register" => v.lazy[s].st = "none"
    /\ Eagerly(g, s) /\ g.k = "publish" /\ Position(g.mod, s) < g.pc => v.sym[s] = h

\* A module owns s.
Owned(v, C, g, s) ==
    Settled(v, C, s, Home(v, C, g, s)) /\ Staged(v, g, s, Home(v, C, g, s))

\* The addresses a name may have that the client binds.
UserVals(v, u) ==
    {NULL, UserAddr(u)} \cup (IF u \in HostNames THEN {HostAddr(u)} ELSE {})
    \cup (IF v.libs /\ u \in LibNames THEN {LibAddr(u)} ELSE {})

\* No module defines n: the first address it gets stays.
Outside(v, C, n) ==
    /\ CallsGo(C, n, v.sym[n])
    /\ n \in UserNames =>
          v.sym[n] \in UserVals(v, n) /\ v.sym[Alias(n)] \in UserVals(v, n)
    /\ Offers(n) = {} => v.sym[n] = NULL

Agree(v, C, g, n) ==
    OneOwner(n) =>
        /\ Defined(n) => Owned(v, C, g, n)
        /\ ~Defined(n) /\ ~Defined(Alias(n)) => Outside(v, C, n)

AgreeInv == ~failed => \A n \in Names : Agree(tab, code, Stage(stack), n)

\* Lazy entries exist in lazy mode, eager compilations in eager mode.
ModeInv ==
    /\ ~tab.mode => \A n \in Names : tab.lazy[n].st = "none"
    /\ tab.mode => Stage(stack).k \notin {"patch", "publish"}

\* lr_jit_get_defined_function tries the alias of a name that has no address,
\* and materializes only what a module defines.
DefInv ==
    stack # <<>> /\ stack[1].k = "def" /\ stack[1].pc # 1 =>
        \/ Defined(Alias(stack[1].name))
        \/ Len(stack) = 1 /\ (failed \/ tab.sym[stack[1].name] = NULL)

\* A call that returns a failure is remembered.
FailInv == rc = "fail" => failed

AInv == JInv /\ ModeInv /\ FailInv /\ DefInv /\ AgreeInv

-----------------------------------------------------------------------------
(***************************************************************************)
(* Owners                                                                  *)
(***************************************************************************)

\* Who offers a name.
LEMMA OffersMeans ==
    ASSUME NEW n \in Names, NEW s \in {n, Alias(n)}
    PROVE  /\ \A m \in added : s \in Defines(m) => <<"module", m, s>> \in Offers(n)
           /\ s \in UserNames => <<"user", UserNames, s>> \in Offers(n)
           /\ s \in HostNames => <<"host", HostNames, s>> \in Offers(n)
           /\ s \in LibNames => <<"lib", LibNames, s>> \in Offers(n)
<1> DEFINE Q == {<<"user", UserNames>>, <<"host", HostNames>>, <<"lib", LibNames>>}
           M(t) == {<<"module", m, t>> : m \in {k \in added : t \in Defines(k)}}
           P(t) == {<<p[1], p[2], t>> : p \in {q \in Q : t \in q[2]}}
<1>1. Offers(n) = UNION {M(t) \cup P(t) : t \in {n, Alias(n)}}
  BY DEF Offers
<1>2. M(s) \cup P(s) \subseteq Offers(n)
  BY <1>1
<1>3. \A m \in added : s \in Defines(m) => <<"module", m, s>> \in M(s)
  OBVIOUS
<1>4. \A p \in Q : s \in p[2] => <<p[1], p[2], s>> \in P(s)
  OBVIOUS
<1>5. \A a, U : <<a, U>>[1] = a /\ <<a, U>>[2] = U
  OBVIOUS
<1>6. \A a, U : <<a, U>> \in Q /\ s \in U => <<a, U, s>> \in P(s)
  BY <1>4, <1>5
<1> HIDE DEF M, P
<1> QED
  BY <1>2, <1>3, <1>6

\* Both spellings have the same owners.
LEMMA OffersSymmetric ==
    ASSUME NEW n \in Names
    PROVE  Offers(Alias(n)) = Offers(n)
<1>1. {Alias(n), Alias(Alias(n))} = {n, Alias(n)}
  BY AliasCorrect
<1> QED
  BY <1>1 DEF Offers

\* Of a name that a module defines and that has one owner there is no other
\* source, under either spelling.
LEMMA SoleOwner ==
    ASSUME NEW n \in Names, OneOwner(n), NEW m \in added, n \in Defines(m)
    PROVE  /\ \A p \in Offers(n) : p = <<"module", m, n>>
           /\ ~Defined(Alias(n))
           /\ \A s \in {n, Alias(n)} :
                 s \notin UserNames /\ s \notin HostNames /\ s \notin LibNames
<1> DEFINE o == <<"module", m, n>>
<1>1. o \in Offers(n)
  BY OffersMeans
<1>2. \A p \in Offers(n) : p = o
  <2>1. o[1] = "module"
    OBVIOUS
  <2>2. \A x : {x, "module"} \notin {{"user", "host"}, {"user", "lib"}}
    OBVIOUS
  <2> HIDE DEF o
  <2> QED
    BY <1>1, <2>1, <2>2 DEF OneOwner
<1>3. ~Defined(Alias(n))
  <2> SUFFICES ASSUME NEW k \in added, Alias(n) \in Defines(k)
               PROVE  FALSE
    BY DEF Defined
  <2>1. <<"module", k, Alias(n)>> = o
    BY <1>2, OffersMeans
  <2> QED
    BY <2>1, AliasCorrect
<1>4. ASSUME NEW s \in {n, Alias(n)}
      PROVE  s \notin UserNames /\ s \notin HostNames /\ s \notin LibNames
  <2>1. \A a, U : a # "module" => <<a, U, s>> # o
    OBVIOUS
  <2> HIDE DEF o
  <2> QED
    BY <2>1, <1>2, OffersMeans
<1> QED
  BY <1>2, <1>3, <1>4

\* A provider answers for an exported spelling.
LEMMA Unprovided ==
    ASSUME NEW v, NEW n \in Names,
           \A s \in {n, Alias(n)} : s \notin HostNames /\ s \notin LibNames
    PROVE  /\ FromProcess(n) = NULL /\ FromLibs(v, n) = NULL
           /\ FromProcess(Alias(n)) = NULL /\ FromLibs(v, Alias(n)) = NULL
           /\ Provided(v, n) = NULL /\ Provided(v, Alias(n)) = NULL
<1>1. \A s \in {n, Alias(n)} :
         Alias(s) \in {n, Alias(n)} /\ Exported(HostNames, s) = NULL /\ Exported(LibNames, s) = NULL
  BY AliasCorrect DEF Exported
<1> QED
  BY <1>1 DEF FromProcess, FromLibs, Provided

\* A name nobody offers.
LEMMA NoOwner ==
    ASSUME NEW n \in Names, Offers(n) = {}
    PROVE  /\ ~Defined(n) /\ ~Defined(Alias(n)) /\ OneOwner(n) /\ OneOwner(Alias(n))
           /\ Offers(Alias(n)) = {}
           /\ \A s \in {n, Alias(n)} :
                 s \notin UserNames /\ s \notin HostNames /\ s \notin LibNames
<1>1. \A s \in {n, Alias(n)} : /\ s \notin UserNames /\ s \notin HostNames /\ s \notin LibNames
                               /\ ~Defined(s)
  BY OffersMeans DEF Defined
<1>2. Offers(Alias(n)) = {}
  BY OffersSymmetric
<1> QED
  BY <1>1, <1>2 DEF OneOwner

\* A name that the client binds and that has one owner, or the client and one
\* provider.
LEMMA UserOwner ==
    ASSUME NEW n \in Names, OneOwner(n), n \in UserNames
    PROVE  /\ ~Defined(n) /\ ~Defined(Alias(n))
           /\ Alias(n) \notin UserNames /\ Alias(n) \notin HostNames /\ Alias(n) \notin LibNames
           /\ ~(n \in HostNames /\ n \in LibNames)
<1>1. Alias(n) # n
  BY AliasCorrect
<1> DEFINE u == <<"user", UserNames, n>>
<1>2. u \in Offers(n)
  BY OffersMeans
<1>3. \A p \in Offers(n) : p = u \/ (p[3] = n /\ {"user", p[1]} \in {{"user", "host"}, {"user", "lib"}})
  BY <1>2 DEF OneOwner
<1>4. ~Defined(n) /\ ~Defined(Alias(n))
  <2> SUFFICES ASSUME NEW s \in {n, Alias(n)}, NEW m \in added, s \in Defines(m)
               PROVE  FALSE
    BY DEF Defined
  <2>1. <<"module", m, s>> \in Offers(n)
    BY OffersMeans
  <2>2. <<"module", m, s>>[1] = "module" /\ u[1] = "user"
    OBVIOUS
  <2>3. {"user", "module"} \notin {{"user", "host"}, {"user", "lib"}}
    OBVIOUS
  <2> QED
    BY <2>1, <2>2, <2>3, <1>3
<1>5. Alias(n) \notin UserNames /\ Alias(n) \notin HostNames /\ Alias(n) \notin LibNames
  <2>1. \A a, U : <<a, U, Alias(n)>>[3] = Alias(n)
    OBVIOUS
  <2>2. u[3] = n
    OBVIOUS
  <2> HIDE DEF u
  <2>3. \A a, U : <<a, U, Alias(n)>> \notin Offers(n)
    BY <2>1, <2>2, <1>1, <1>3
  <2> QED
    BY <2>3, OffersMeans
<1>6. ~(n \in HostNames /\ n \in LibNames)
  <2> SUFFICES ASSUME n \in HostNames, n \in LibNames
               PROVE  FALSE
    OBVIOUS
  <2> DEFINE p == <<"host", HostNames, n>>
             q == <<"lib", LibNames, n>>
  <2>1. p \in Offers(n) /\ q \in Offers(n)
    BY OffersMeans
  <2>2. p[1] = "host" /\ q[1] = "lib" /\ p # q
    OBVIOUS
  <2>3. {"host", "lib"} \notin {{"user", "host"}, {"user", "lib"}}
    OBVIOUS
  <2> QED
    BY <2>1, <2>2, <2>3 DEF OneOwner
<1> QED
  BY <1>4, <1>5, <1>6

-----------------------------------------------------------------------------
(***************************************************************************)
(* Lookups                                                                 *)
(***************************************************************************)

\* What the JIT itself knows of a name.
Known(v, n) ==
    IF v.lazy[n].st = "compiling" THEN v.lazy[n].addr
    ELSE IF v.lazy[n].st = "pending" THEN NULL
    ELSE v.sym[n]

\* An exact lookup of a name nobody provides.
LEMMA ExactUnprovided ==
    ASSUME NEW v \in Tab, NEW x \in Names, Provided(v, x) = NULL
    PROVE  /\ ExactAddr(v, x) = Known(v, x)
           /\ ExactView(v, x) \in Tab /\ ExactView(v, x).sym = v.sym
           /\ ExactView(v, x).lazy = v.lazy /\ ExactView(v, x).libs = v.libs
<1>1. ExactAddr(v, x) = Known(v, x)
  BY DEF ExactAddr, Known
<1>2. ExactView(v, x) = v \/ ExactView(v, x) = [v EXCEPT !.miss = @ \cup {x}]
  BY DEF ExactView
<1>3. ExactView(v, x).sym = v.sym
  BY <1>2 DEF Tab
<1> QED
  BY <1>1, <1>3, ExactViewCorrect

\* A lookup of it: the name, then its other spelling.
LEMMA LookUnprovided ==
    ASSUME NEW v \in Tab, NEW x \in Names, Provided(v, x) = NULL, Provided(v, Alias(x)) = NULL
    PROVE  /\ LookupAddr(v, x) = IF Known(v, x) # NULL THEN Known(v, x) ELSE Known(v, Alias(x))
           /\ \A y \in Names : y # x => LookupView(v, x).sym[y] = v.sym[y]
           /\ \/ LookupView(v, x).sym[x] = v.sym[x]
              \/ LookupAddr(v, x) # NULL /\ LookupView(v, x).sym[x] = LookupAddr(v, x)
           /\ Known(v, x) = NULL /\ v.sym[x] = NULL =>
                 LookupView(v, x).sym[x] = LookupAddr(v, x)
<1> DEFINE o == Alias(x)
           u == ExactView(v, x)
           w == ExactView(u, o)
           a == ExactAddr(u, o)
<1>1. o \in Names
  BY AliasCorrect
<1>2. /\ ExactAddr(v, x) = Known(v, x) /\ u \in Tab /\ u.sym = v.sym
      /\ u.lazy = v.lazy /\ u.libs = v.libs
  BY ExactUnprovided
<1>3. Provided(u, o) = NULL /\ Known(u, o) = Known(v, o)
  BY <1>2 DEF Provided, FromLibs, Known
<1> HIDE DEF u
<1>4. a = Known(v, o) /\ w \in Tab /\ w.sym = v.sym
  BY <1>1, <1>2, <1>3, ExactUnprovided
<1>5. /\ LookupAddr(v, x) = IF Known(v, x) # NULL THEN Known(v, x) ELSE a
      /\ LookupView(v, x) = IF Known(v, x) # NULL THEN u
                            ELSE IF a # NULL THEN Bind(w, x, a) ELSE w
  BY <1>2 DEF LookupAddr, LookupView, u
<1>6. a \in Address \cup {NULL}
  BY <1>1, <1>2, ExactAddrCorrect
<1> HIDE DEF o, w, a
<1>7. CASE Known(v, x) # NULL \/ a = NULL
  BY <1>2, <1>4, <1>5, <1>7 DEF o
<1>8. CASE Known(v, x) = NULL /\ a # NULL
  <2>1. /\ LookupView(v, x) = Bind(w, x, a) /\ LookupAddr(v, x) = a /\ a \in Address
    BY <1>5, <1>6, <1>8
  <2>2. /\ \A y \in Names : y # x => Bind(w, x, a).sym[y] = w.sym[y]
        /\ Bind(w, x, a).sym[x] = a \/ (Bind(w, x, a) = w /\ w.sym[x] # NULL)
    BY <2>1, <1>4, BindCorrect
  <2> QED
    BY <2>1, <2>2, <1>4, <1>8 DEF o
<1> QED
  BY <1>7, <1>8

\* A lookup touches the two spellings of its name.
LEMMA LookElsewhere ==
    ASSUME NEW v \in Tab, NEW x \in Names, NEW y \in Names, y # x, y # Alias(x)
    PROVE  LookupView(v, x).sym[y] = v.sym[y]
<1> DEFINE o == Alias(x)
           u == ExactView(v, x)
           w == ExactView(u, o)
           a == ExactAddr(u, o)
<1>1. o \in Names
  BY AliasCorrect
<1>2. u \in Tab /\ u.sym[y] = v.sym[y]
  BY ExactViewCorrect
<1> HIDE DEF u
<1>3. w \in Tab /\ w.sym[y] = v.sym[y] /\ a \in Address \cup {NULL}
  BY <1>1, <1>2, ExactViewCorrect, ExactAddrCorrect
<1> HIDE DEF w, a
<1>4. a # NULL => Bind(w, x, a).sym[y] = v.sym[y]
  BY <1>3, BindCorrect
<1> QED
  BY <1>2, <1>3, <1>4 DEF LookupView, u, w, a

\* A lookup of the two spellings of a function at h, or of another name: the
\* table learns nothing but h.
LEMMA LookOwned ==
    ASSUME NEW v \in Tab, NEW n \in Names, NEW x \in Names, NEW h,
           Provided(v, n) = NULL, Provided(v, Alias(n)) = NULL,
           v.lazy[Alias(n)].st = "none",
           v.sym[n] \in {NULL, h}, v.sym[Alias(n)] \in {NULL, h},
           v.lazy[n].st = "compiling" => v.lazy[n].addr = h
    PROVE  LET w == LookupView(v, x)
           IN  /\ w.sym[n] \in {v.sym[n], h}
               /\ \/ w.sym[Alias(n)] = v.sym[Alias(n)]
                  \/ v.sym[Alias(n)] = NULL /\ w.sym[Alias(n)] = h
               /\ x = n => LookupAddr(v, x) \in {NULL, h}
               /\ x = Alias(n) => LookupAddr(v, x) = w.sym[Alias(n)]
<1> DEFINE o == Alias(n)
           w == LookupView(v, x)
<1>1. o \in Names /\ Alias(o) = n /\ o # n
  BY AliasCorrect
<1>2. Known(v, n) \in {NULL, h} /\ Known(v, o) = v.sym[o]
  BY DEF Known
<1>3. CASE x = n
  <2>1. /\ LookupAddr(v, n) = IF Known(v, n) # NULL THEN Known(v, n) ELSE Known(v, o)
        /\ w.sym[o] = v.sym[o]
        /\ w.sym[n] = v.sym[n] \/ (LookupAddr(v, n) # NULL /\ w.sym[n] = LookupAddr(v, n))
    BY <1>1, <1>3, LookUnprovided
  <2> QED
    BY <2>1, <1>1, <1>2, <1>3
<1>4. CASE x = o
  <2>1. /\ LookupAddr(v, o) = IF Known(v, o) # NULL THEN Known(v, o) ELSE Known(v, n)
        /\ w.sym[n] = v.sym[n]
        /\ w.sym[o] = v.sym[o] \/ (LookupAddr(v, o) # NULL /\ w.sym[o] = LookupAddr(v, o))
        /\ Known(v, o) = NULL /\ v.sym[o] = NULL => w.sym[o] = LookupAddr(v, o)
    BY <1>1, <1>4, LookUnprovided
  <2>2. LookupAddr(v, o) = w.sym[o]
    BY <2>1, <1>2
  <2> QED
    BY <2>1, <2>2, <1>1, <1>2, <1>4
<1>5. CASE x # n /\ x # o
  <2>1. n # Alias(x) /\ o # Alias(x)
    BY <1>1, <1>5, AliasCorrect
  <2>2. w.sym[n] = v.sym[n] /\ w.sym[o] = v.sym[o]
    BY <2>1, <1>1, <1>5, LookElsewhere
  <2> QED
    BY <2>2, <1>5
<1> QED
  BY <1>3, <1>4, <1>5

\* An exact lookup of a name that is no function of a module.
LEMMA ExactOutside ==
    ASSUME NEW v \in Tab, NEW x \in Names, v.lazy[x].st = "none"
    PROVE  /\ ExactAddr(v, x) # NULL => ExactView(v, x).sym[x] = ExactAddr(v, x)
           /\ v.sym[x] # NULL => ExactAddr(v, x) = v.sym[x] /\ ExactView(v, x) = v
           /\ v.sym[x] = NULL => /\ ExactAddr(v, x) \in {NULL, Provided(v, x)}
                                 /\ ExactView(v, x).sym[x] = ExactAddr(v, x)
<1>1. CASE v.sym[x] # NULL
  BY <1>1 DEF ExactAddr, ExactView
<1>2. CASE v.sym[x] = NULL
  <2>1. Provided(v, x) \in Address \cup {NULL}
    BY ProvidedCorrect
  <2>2. CASE x \in v.miss
    BY <2>2, <1>2 DEF ExactAddr, ExactView
  <2>3. CASE x \notin v.miss /\ Provided(v, x) # NULL
    <3>1. ExactAddr(v, x) = Provided(v, x) /\ ExactView(v, x) = Bind(v, x, Provided(v, x))
      BY <2>3, <1>2 DEF ExactAddr, ExactView
    <3>2. Bind(v, x, Provided(v, x)).sym[x] = Provided(v, x)
      BY <2>1, <2>3, <1>2, BindCorrect
    <3> QED
      BY <3>1, <3>2, <1>2
  <2>4. CASE x \notin v.miss /\ Provided(v, x) = NULL
    <3>1. ExactAddr(v, x) = NULL /\ ExactView(v, x).sym[x] = v.sym[x]
      BY <2>4, <1>2, ExactViewCorrect DEF ExactAddr
    <3> QED
      BY <3>1, <1>2
  <2> QED
    BY <2>2, <2>3, <2>4
<1> QED
  BY <1>1, <1>2

\* A lookup of a name that no module defines under either spelling.
LEMMA LookOutside ==
    ASSUME NEW v \in Tab, NEW x \in Names,
           v.lazy[x].st = "none", v.lazy[Alias(x)].st = "none"
    PROVE  LET w == LookupView(v, x)
           IN  /\ LookupAddr(v, x) = w.sym[x]
               /\ v.sym[x] # NULL => w.sym[x] = v.sym[x] /\ w.sym[Alias(x)] = v.sym[Alias(x)]
               /\ w.sym[x] \in {v.sym[x], v.sym[Alias(x)], Provided(v, x), Provided(v, Alias(x)), NULL}
               /\ w.sym[Alias(x)] \in {v.sym[Alias(x)], Provided(v, Alias(x)), NULL}
               /\ v.sym[Alias(x)] # NULL => w.sym[Alias(x)] = v.sym[Alias(x)]
<1> DEFINE o == Alias(x)
           u == ExactView(v, x)
           a == ExactAddr(u, o)
           z == ExactView(u, o)
           w == LookupView(v, x)
<1>1. o \in Names /\ o # x
  BY AliasCorrect
<1>2. /\ ExactAddr(v, x) # NULL => u.sym[x] = ExactAddr(v, x)
      /\ v.sym[x] # NULL => ExactAddr(v, x) = v.sym[x] /\ u = v
      /\ v.sym[x] = NULL => ExactAddr(v, x) \in {NULL, Provided(v, x)} /\ u.sym[x] = ExactAddr(v, x)
  BY ExactOutside
<1>3. u \in Tab /\ u.lazy = v.lazy /\ u.libs = v.libs /\ u.sym[o] = v.sym[o]
  BY <1>1, ExactViewCorrect
<1>4. Provided(u, o) = Provided(v, o)
  BY <1>3 DEF Provided, FromLibs
<1> HIDE DEF u
<1>5. /\ a # NULL => z.sym[o] = a
      /\ v.sym[o] # NULL => a = v.sym[o] /\ z = u
      /\ v.sym[o] = NULL => a \in {NULL, Provided(v, o)} /\ z.sym[o] = a
  BY <1>1, <1>3, <1>4, ExactOutside
<1>6. z \in Tab /\ z.sym[x] = u.sym[x] /\ a \in Address \cup {NULL}
  BY <1>1, <1>3, ExactViewCorrect, ExactAddrCorrect
<1>7. /\ LookupAddr(v, x) = IF ExactAddr(v, x) # NULL THEN ExactAddr(v, x) ELSE a
      /\ w = IF ExactAddr(v, x) # NULL THEN u ELSE IF a # NULL THEN Bind(z, x, a) ELSE z
  BY DEF LookupAddr, LookupView, u
<1> HIDE DEF o, a, z, w
<1>8. CASE ExactAddr(v, x) # NULL
  BY <1>2, <1>3, <1>7, <1>8 DEF o, w
<1>9. CASE ExactAddr(v, x) = NULL
  <2>1. v.sym[x] = NULL /\ u.sym[x] = NULL
    BY <1>2, <1>9
  <2>2. CASE a # NULL
    <3>1. w = Bind(z, x, a) /\ LookupAddr(v, x) = a /\ a \in Address /\ z.sym[x] = NULL
      BY <2>1, <2>2, <1>6, <1>7, <1>9
    <3>2. Bind(z, x, a).sym[x] = a /\ Bind(z, x, a).sym[o] = z.sym[o]
      BY <3>1, <1>1, <1>6, BindCorrect
    <3> QED
      BY <3>1, <3>2, <2>1, <2>2, <1>3, <1>5 DEF o, w
  <2>3. CASE a = NULL
    BY <2>1, <2>3, <1>3, <1>5, <1>6, <1>7, <1>9 DEF o, w
  <2> QED
    BY <2>2, <2>3
<1> QED
  BY <1>8, <1>9

-----------------------------------------------------------------------------
(***************************************************************************)
(* Lookups and bound calls keep the agreement                              *)
(***************************************************************************)

\* The code D is C with more unbound functions, and perhaps a call of y that
\* goes to a.
Extends(C, D, y, a) ==
    \A i \in DOMAIN D : \A c \in DOMAIN D[i].to :
        D[i].to[c] # NULL =>
            \/ /\ i \in DOMAIN C /\ c \in DOMAIN C[i].to
               /\ C[i].calls[c] = D[i].calls[c] /\ C[i].to[c] = D[i].to[c]
            \/ D[i].calls[c] = y /\ D[i].to[c] = a

\* Code that stays.
LEMMA ExtendsSame ==
    ASSUME NEW C, NEW y, NEW a
    PROVE  Extends(C, C, y, a)
BY DEF Extends

\* Where the calls of z go then.
LEMMA CallsGoStep ==
    ASSUME NEW C, NEW D, NEW y, NEW a, Extends(C, D, y, a), NEW z, NEW b, NEW d,
           CallsGo(C, z, b), b \in {NULL, d}, z = y /\ a # NULL => a = d
    PROVE  CallsGo(D, z, d)
BY DEF Extends, CallsGo

\* In these stages nothing is being materialized.
LEMMA StageMeans ==
    ASSUME JInv, NEW g, g = Stage(stack), NEW n \in Names
    PROVE  /\ g.k \in {"decls", "patch", "publish"} => tab.lazy[n].st # "compiling"
           /\ g.k \in {"register", "decls", "patch", "publish"} =>
                 /\ stack # <<>> /\ stack[1].k = g.k /\ stack[1].mod = g.mod
                 /\ g.mod \in added /\ g.mod \in Modules
           /\ Eagerly(g, n) \/ Early(g, n) => Defined(n)
<1>1. TypeInv /\ ShapeInv /\ LazyInv
  BY DEF JInv
<1>2. ASSUME g.k \in {"register", "decls", "patch", "publish"}
      PROVE  /\ stack # <<>> /\ stack[1].k = g.k /\ stack[1].mod = g.mod
             /\ g.mod \in added /\ g.mod \in Modules
             /\ g.k # "register" => Len(stack) = 1
  <2>1. stack # <<>> /\ stack[1].k = g.k /\ stack[1].mod = g.mod
    BY <1>2 DEF Stage, NoStage
  <2>2. 1 \in DOMAIN stack
    BY <2>1, <1>1, StackCorrect DEF TypeInv
  <2>3. FrameOK(1, stack[1], Len(stack), added)
    BY <2>2, <1>1 DEF ShapeInv
  <2> QED
    BY <2>1, <2>3, <1>1, <1>2 DEF FrameOK, TypeInv
<1>3. ASSUME g.k \in {"decls", "patch", "publish"}
      PROVE  tab.lazy[n].st # "compiling"
  <2>1. Top = stack[1]
    BY <1>2, <1>3 DEF Top
  <2> QED
    BY <2>1, <1>1, <1>2, <1>3, NothingCompiling
<1> QED
  BY <1>2, <1>3 DEF Eagerly, Early, Defined

\* What is known of a function whose name has one owner.
LEMMA OwnedMeans ==
    ASSUME JInv, ModeInv, NEW n \in Names, OneOwner(n), Defined(n),
           NEW v \in Tab, v.lazy = tab.lazy, NEW g, g = Stage(stack), NEW C, NEW h,
           h = Home(v, C, g, n), Staged(v, g, n, h)
    PROVE  /\ Provided(v, n) = NULL /\ Provided(v, Alias(n)) = NULL
           /\ FromProcess(n) = NULL /\ FromLibs(v, n) = NULL
           /\ n \notin UserNames /\ Alias(n) \notin UserNames
           /\ ~Defined(Alias(n)) /\ v.lazy[Alias(n)].st = "none"
           /\ v.lazy[n].st = "compiling" => v.lazy[n].addr = h
           /\ v.lazy[n].st = "pending" \/ Early(g, n) => h = NULL
           /\ v.lazy[n].st # "compiling" /\ ~Eagerly(g, n) => h = v.sym[n]
<1>1. PICK m \in added : n \in Defines(m)
  BY DEF Defined
<1>2. /\ ~Defined(Alias(n))
      /\ \A s \in {n, Alias(n)} : s \notin UserNames /\ s \notin HostNames /\ s \notin LibNames
  BY <1>1, SoleOwner
<1>3. /\ Provided(v, n) = NULL /\ Provided(v, Alias(n)) = NULL
      /\ FromProcess(n) = NULL /\ FromLibs(v, n) = NULL
  BY <1>2, Unprovided
<1>4. v.lazy[Alias(n)].st = "none"
  BY <1>2, AliasCorrect DEF JInv, LazyInv, Defined
<1>5. v.lazy[n].st # "compiling" /\ ~Eagerly(g, n) => h = v.sym[n]
  BY DEF Home
<1>6. v.lazy[n].st = "compiling" => v.lazy[n].addr = h
  BY DEF Home
<1>7. ASSUME v.lazy[n].st = "pending" PROVE h = NULL
  <2>1. tab.lazy[n].st = "pending"
    BY <1>7
  <2>2. tab.mode
    BY <2>1 DEF ModeInv
  <2>3. ~Eagerly(g, n)
    BY <2>2 DEF ModeInv, Eagerly
  <2> QED
    BY <2>3, <1>5, <1>7 DEF Staged
<1>8. ASSUME Early(g, n) PROVE h = NULL
  <2>1. v.lazy[n].st # "compiling"
    BY <1>8, StageMeans DEF Early, Staged
  <2>2. ~Eagerly(g, n)
    BY <1>8 DEF Early, Eagerly
  <2> QED
    BY <2>1, <2>2, <1>5, <1>8 DEF Staged
<1> QED
  BY <1>2, <1>3, <1>4, <1>5, <1>6, <1>7, <1>8

\* A function stays where it is when the table w has learnt nothing but its
\* address h.
LEMMA OwnedStays ==
    ASSUME JInv, ModeInv, NEW n \in Names, OneOwner(n), Defined(n), NEW g, g = Stage(stack),
           Owned(tab, code, g, n), NEW h, h = Home(tab, code, g, n),
           NEW w \in Tab, w.lazy = tab.lazy, NEW D,
           Len(D) = Len(code) \/ g.k \notin {"patch", "publish"},
           w.sym[n] \in {tab.sym[n], h},
           \/ w.sym[Alias(n)] = tab.sym[Alias(n)]
           \/ tab.sym[Alias(n)] = NULL /\ w.sym[Alias(n)] = h,
           CallsGo(D, n, h), CallsGo(D, Alias(n), w.sym[Alias(n)])
    PROVE  Owned(w, D, g, n)
<1>1. tab \in Tab
  BY DEF JInv, TypeInv
<1>2. /\ tab.lazy[n].st = "compiling" => tab.lazy[n].addr = h
      /\ tab.lazy[n].st = "pending" \/ Early(g, n) => h = NULL
      /\ tab.lazy[n].st # "compiling" /\ ~Eagerly(g, n) => h = tab.sym[n]
  BY <1>1, OwnedMeans DEF Owned
<1>3. Home(w, D, g, n) = h
  <2>1. CASE tab.lazy[n].st = "compiling"
    BY <2>1, <1>2 DEF Home
  <2>2. CASE tab.lazy[n].st # "compiling" /\ Eagerly(g, n)
    BY <2>2 DEF Home, EagerAddr, Eagerly
  <2>3. CASE tab.lazy[n].st # "compiling" /\ ~Eagerly(g, n)
    BY <2>3, <1>2 DEF Home
  <2> QED
    BY <2>1, <2>2, <2>3
<1>4. Settled(w, D, n, h)
  BY DEF Settled, Owned
<1>5. Staged(w, g, n, h)
  BY <1>2 DEF Staged, Owned
<1> QED
  BY <1>3, <1>4, <1>5 DEF Owned

\* The providers' addresses of a name only one spelling of which is exported.
LEMMA UserProvided ==
    ASSUME NEW v, NEW n \in Names, Alias(n) \notin HostNames, Alias(n) \notin LibNames,
           NEW s \in {n, Alias(n)}
    PROVE  Provided(v, s) \in UserVals(v, n)
<1>1. /\ Exported(HostNames, s) = NULL \/ (n \in HostNames /\ Exported(HostNames, s) = n)
      /\ Exported(LibNames, s) = NULL \/ (n \in LibNames /\ Exported(LibNames, s) = n)
  BY AliasCorrect DEF Exported
<1>2. FromProcess(s) = NULL \/ (n \in HostNames /\ FromProcess(s) = HostAddr(n))
  BY <1>1 DEF FromProcess
<1>3. FromLibs(v, s) = NULL \/ (v.libs /\ n \in LibNames /\ FromLibs(v, s) = LibAddr(n))
  BY <1>1 DEF FromLibs
<1> QED
  BY <1>2, <1>3 DEF Provided, UserVals

\* A lookup of x, or none, and perhaps a call of x that is bound to what it
\* found, or to where x is.
LEMMA AgreeLook ==
    ASSUME JInv, ModeInv, NEW g, g = Stage(stack),
           \A n \in Names : Agree(tab, code, g, n),
           NEW x \in Names, NEW w, w = tab \/ w = LookupView(tab, x),
           NEW D, NEW a, Extends(code, D, x, a),
           Len(D) = Len(code) \/ g.k \notin {"patch", "publish"},
           \/ a = NULL
           \/ w = LookupView(tab, x) /\ a = LookupAddr(tab, x)
           \/ Defined(x) /\ a = Home(tab, code, g, x)
    PROVE  \A n \in Names : Agree(w, D, g, n)
<1>1. /\ tab \in Tab /\ w \in Tab /\ w.lazy = tab.lazy /\ w.libs = tab.libs
  BY LookupViewCorrect DEF JInv, TypeInv, Looked
<1> SUFFICES ASSUME NEW n \in Names, OneOwner(n)
             PROVE  /\ Defined(n) => Owned(w, D, g, n)
                    /\ ~Defined(n) /\ ~Defined(Alias(n)) => Outside(w, D, n)
  BY DEF Agree
<1> DEFINE o == Alias(n)
<1>2. o \in Names /\ Alias(o) = n /\ o # n
  BY AliasCorrect
<1>3. ASSUME Defined(n), NEW h, h = Home(tab, code, g, n)
      PROVE  Owned(w, D, g, n)
  <2>1. Owned(tab, code, g, n) /\ Settled(tab, code, n, h) /\ Staged(tab, g, n, h)
    BY <1>3 DEF Agree, Owned
  <2>2. /\ Provided(tab, n) = NULL /\ Provided(tab, o) = NULL
        /\ tab.lazy[o].st = "none" /\ ~Defined(o)
        /\ tab.lazy[n].st = "compiling" => tab.lazy[n].addr = h
    BY <2>1, <1>1, <1>3, OwnedMeans
  <2>3. tab.sym[n] \in {NULL, h} /\ tab.sym[o] \in {NULL, h}
    BY <2>1 DEF Settled
  <2> DEFINE z == LookupView(tab, x)
  <2>4. /\ z.sym[n] \in {tab.sym[n], h}
        /\ z.sym[o] = tab.sym[o] \/ (tab.sym[o] = NULL /\ z.sym[o] = h)
        /\ x = n => LookupAddr(tab, x) \in {NULL, h}
        /\ x = o => LookupAddr(tab, x) = z.sym[o]
    BY <2>2, <2>3, <1>1, LookOwned
  <2>5. /\ w.sym[n] \in {tab.sym[n], h}
        /\ w.sym[o] = tab.sym[o] \/ (tab.sym[o] = NULL /\ w.sym[o] = h)
    BY <2>4
  <2>6. /\ x = n /\ a # NULL => a = h
        /\ x = o /\ a # NULL => a = w.sym[o]
    BY <2>2, <2>4, <1>3
  <2>7. CallsGo(code, n, h) /\ CallsGo(code, o, tab.sym[o])
    BY <2>1 DEF Settled
  <2>8. CallsGo(D, n, h)
    BY <2>6, <2>7, CallsGoStep
  <2>9. CallsGo(D, o, w.sym[o])
    <3>1. tab.sym[o] \in {NULL, w.sym[o]}
      BY <2>5
    <3> QED
      BY <3>1, <2>6, <2>7, CallsGoStep
  <2> QED
    BY <2>1, <2>5, <2>8, <2>9, <1>1, <1>3, OwnedStays
<1>4. ASSUME ~Defined(n), ~Defined(o)
      PROVE  Outside(w, D, n)
  <2>1. Outside(tab, code, n)
    BY <1>4 DEF Agree
  <2>2. tab.lazy[n].st = "none" /\ tab.lazy[o].st = "none"
    BY <1>2, <1>4 DEF JInv, LazyInv, Defined
  <2> DEFINE z == LookupView(tab, x)
             P == {NULL, Provided(tab, n), Provided(tab, o)}
  <2>3. /\ z.sym[n] \in P \cup {tab.sym[n], tab.sym[o]}
        /\ z.sym[o] \in P \cup {tab.sym[n], tab.sym[o]}
        /\ tab.sym[n] # NULL => z.sym[n] = tab.sym[n]
        /\ x = n => LookupAddr(tab, x) = z.sym[n]
    <3>1. CASE x = n
      BY <3>1, <2>2, <1>1, <1>2, LookOutside
    <3>2. CASE x = o
      <4>1. /\ LookupAddr(tab, o) = z.sym[o]
            /\ z.sym[o] \in {tab.sym[o], tab.sym[n], Provided(tab, o), Provided(tab, n), NULL}
            /\ z.sym[n] \in {tab.sym[n], Provided(tab, n), NULL}
            /\ tab.sym[n] # NULL => z.sym[n] = tab.sym[n]
        BY <3>2, <2>2, <1>1, <1>2, LookOutside
      <4> QED
        BY <4>1, <3>2, <1>2
    <3>3. CASE x # n /\ x # o
      <4>1. n # Alias(x) /\ o # Alias(x)
        BY <1>2, <3>3, AliasCorrect
      <4> QED
        BY <4>1, <3>3, <1>1, <1>2, LookElsewhere
    <3> QED
      BY <3>1, <3>2, <3>3
  <2>4. /\ w.sym[n] \in P \cup {tab.sym[n], tab.sym[o]}
        /\ w.sym[o] \in P \cup {tab.sym[n], tab.sym[o]}
        /\ tab.sym[n] # NULL => w.sym[n] = tab.sym[n]
        /\ x = n /\ a # NULL => a = w.sym[n]
    BY <2>3, <1>4
  <2> HIDE DEF P
  <2>5. CallsGo(D, n, w.sym[n])
    <3>1. tab.sym[n] \in {NULL, w.sym[n]}
      BY <2>4
    <3> QED
      BY <3>1, <2>1, <2>4, CallsGoStep DEF Outside
  <2>6. ASSUME n \in UserNames
        PROVE  w.sym[n] \in UserVals(w, n) /\ w.sym[o] \in UserVals(w, n)
    <3>1. o \notin HostNames /\ o \notin LibNames
      BY <2>6, UserOwner
    <3>4. \A s \in {n, o} : Provided(tab, s) \in UserVals(tab, n)
      BY <3>1, UserProvided
    <3>5. P \subseteq UserVals(tab, n)
      BY <3>4 DEF P, UserVals
    <3>6. tab.sym[n] \in UserVals(tab, n) /\ tab.sym[o] \in UserVals(tab, n)
      BY <2>1, <2>6 DEF Outside
    <3>7. UserVals(w, n) = UserVals(tab, n)
      BY <1>1 DEF UserVals
    <3> QED
      BY <3>5, <3>6, <3>7, <2>4
  <2>7. ASSUME Offers(n) = {}
        PROVE  w.sym[n] = NULL
    <3>1. /\ OneOwner(o) /\ Offers(o) = {}
          /\ \A s \in {n, o} : s \notin HostNames /\ s \notin LibNames
      BY <2>7, NoOwner
    <3>2. Provided(tab, n) = NULL /\ Provided(tab, o) = NULL
      BY <3>1, Unprovided
    <3>3. tab.sym[n] = NULL
      BY <2>1, <2>7 DEF Outside
    <3>4. tab.sym[o] = NULL
      BY <3>1, <1>2, <1>4 DEF Agree, Outside
    <3> QED
      BY <3>2, <3>3, <3>4, <2>4 DEF P
  <2> QED
    BY <2>5, <2>6, <2>7 DEF Outside
<1> QED
  BY <1>3, <1>4

-----------------------------------------------------------------------------
(***************************************************************************)
(* Steps that look names up, or do nothing to the table                    *)
(***************************************************************************)

\* The owners change when a module is added.
LEMMA SameOwners ==
    ASSUME added' = added, NEW n \in Names
    PROVE  /\ OneOwner(n)' <=> OneOwner(n)
           /\ Defined(n)' <=> Defined(n)
           /\ Offers(n)' = Offers(n)
<1>1. Offers(n)' = Offers(n)
  BY DEF Offers
<1> QED
  BY <1>1 DEF OneOwner, Defined

\* So an agreement of the next table and code is one of the next state.
LEMMA AgreeNext ==
    ASSUME added' = added, ~failed' => \A n \in Names : Agree(tab', code', Stage(stack'), n)
    PROVE  AgreeInv'
<1> SUFFICES ASSUME ~failed', NEW n \in Names
             PROVE  Agree(tab, code, Stage(stack), n)'
  BY DEF AgreeInv
<1>1. Agree(tab', code', Stage(stack'), n)
  OBVIOUS
<1>2. /\ OneOwner(n)' <=> OneOwner(n)
      /\ (Defined(n)' <=> Defined(n)) /\ (Defined(Alias(n))' <=> Defined(Alias(n)))
      /\ Offers(n)' = Offers(n)
  BY SameOwners, AliasCorrect
<1>3. Outside(tab', code', n) => Outside(tab, code, n)'
  BY <1>2 DEF Outside
<1>4. Owned(tab', code', Stage(stack'), n) => Owned(tab, code, Stage(stack), n)'
  OBVIOUS
<1> QED
  BY <1>1, <1>2, <1>3, <1>4 DEF Agree

\* The base of the stack stays, or no lr_jit_get_defined_function is there.
LEMMA DefStays ==
    ASSUME TypeInv, DefInv, added' = added,
           \/ stack' = <<>> \/ stack'[1].k # "def" \/ stack'[1].pc = 1
           \/ stack # <<>> /\ Len(stack) # 1 /\ stack'[1] = stack[1]
    PROVE  DefInv'
<1> SUFFICES ASSUME stack' # <<>>, stack'[1].k = "def", stack'[1].pc # 1
             PROVE  Defined(Alias(stack[1].name))'
  BY DEF DefInv
<1>1. stack # <<>> /\ Len(stack) # 1 /\ stack'[1] = stack[1]
  OBVIOUS
<1>2. Defined(Alias(stack[1].name))
  BY <1>1 DEF DefInv
<1> QED
  BY <1>1, <1>2 DEF Defined

\* Another top frame in the same stage.
LEMMA RetopKeeps ==
    ASSUME JInv, DefInv, stack # <<>>, NEW f \in FrameType, Retop(f), added' = added,
           Top.k # "def", Top.k # "publish",
           \/ f.k = Top.k /\ f.mod = Top.mod
           \/ Top.k \in {"glob", "mat"} /\ f.k \in {"glob", "mat"}
    PROVE  Stage(stack') = Stage(stack) /\ DefInv'
<1>1. TypeInv /\ ShapeInv
  BY DEF JInv
<1>2. /\ Len(stack) \in Nat \ {0} /\ Top = stack[Len(stack)]
      /\ FrameOK(Len(stack), Top, Len(stack), added)
  BY <1>1, StackCorrect, TopMeans DEF TypeInv, Top
<1>3. stack' \in Seq(FrameType) /\ Len(stack') = Len(stack) /\ stack'[Len(stack)] = f
  BY DEF Retop
<1>4. stack' # <<>>
  BY <1>2, <1>3
<1>5. CASE Len(stack) = 1
  <2>1. stack[1] = Top /\ stack'[1] = f /\ f.k = Top.k /\ f.mod = Top.mod
    BY <1>2, <1>3, <1>5 DEF FrameOK, BaseKinds
  <2>2. DefInv'
    BY <2>1, <1>1, DefStays
  <2> QED
    BY <2>1, <2>2, <1>4 DEF Stage
<1>6. CASE Len(stack) # 1
  <2>1. stack'[1] = stack[1]
    BY <1>2, <1>6 DEF Retop
  <2>2. DefInv'
    BY <2>1, <1>1, <1>6, DefStays
  <2> QED
    BY <2>1, <2>2, <1>4 DEF Stage
<1> QED
  BY <1>5, <1>6

\* A frame that is no stage of lr_jit_add_module returns.
LEMMA PopKeeps ==
    ASSUME JInv, DefInv, stack # <<>>, stack' = Below, added' = added,
           Top.k \notin {"register", "decls", "patch", "publish"}
    PROVE  Stage(stack') = Stage(stack) /\ DefInv'
<1>1. TypeInv
  BY DEF JInv
<1>2. /\ Len(stack) \in Nat \ {0} /\ Top = stack[Len(stack)]
      /\ Below \in Seq(FrameType) /\ Len(Below) = Len(stack) - 1
      /\ \A d \in 1 .. Len(stack) - 1 : Below[d] = stack[d]
  BY <1>1, StackCorrect DEF TypeInv, Top
<1>3. CASE Len(stack) = 1
  <2>1. Below = <<>>
    BY <1>2, <1>3, EmptySeq
  <2>2. DefInv'
    BY <2>1, <1>1, DefStays
  <2> QED
    BY <2>1, <2>2, <1>2, <1>3 DEF Stage
<1>4. CASE Len(stack) # 1
  <2>1. stack'[1] = stack[1] /\ stack' # <<>>
    BY <1>2, <1>4
  <2>2. DefInv'
    BY <2>1, <1>1, <1>4, DefStays
  <2> QED
    BY <2>1, <2>2 DEF Stage
<1> QED
  BY <1>3, <1>4

\* A step that looks x up, or nothing, and may bind a call of x.
LEMMA LookKeeps ==
    ASSUME AInv, Stage(stack') = Stage(stack), added' = added, ~failed' => ~failed,
           NEW x \in Names, tab' = tab \/ tab' = LookupView(tab, x),
           NEW a, Extends(code, code', x, a),
           Len(code') = Len(code) \/ Stage(stack).k \notin {"patch", "publish"},
           \/ a = NULL
           \/ tab' = LookupView(tab, x) /\ a = LookupAddr(tab, x)
           \/ Defined(x) /\ a = Home(tab, code, Stage(stack), x)
    PROVE  ModeInv' /\ AgreeInv'
<1>1. JInv /\ ModeInv
  BY DEF AInv
<1>2. tab'.lazy = tab.lazy /\ tab'.mode = tab.mode
  BY <1>1, LookupViewCorrect DEF JInv, TypeInv, Looked
<1>3. ModeInv'
  BY <1>1, <1>2 DEF ModeInv
<1>4. ASSUME ~failed
      PROVE  \A n \in Names : Agree(tab', code', Stage(stack'), n)
  <2>1. \A n \in Names : Agree(tab, code, Stage(stack), n)
    BY <1>4 DEF AInv, AgreeInv
  <2> QED
    BY <2>1, <1>1, AgreeLook
<1> QED
  BY <1>3, <1>4, AgreeNext

\* A step that binds no call.
LEMMA QuietKeeps ==
    ASSUME AInv, Stage(stack') = Stage(stack), UNCHANGED <<code, added, failed>>,
           tab' = tab \/ \E x \in Names : tab' = LookupView(tab, x)
    PROVE  ModeInv' /\ AgreeInv'
<1>1. CASE tab' # tab
  <2>1. PICK x \in Names : tab' = LookupView(tab, x)
    BY <1>1
  <2>2. Extends(code, code', x, NULL)
    BY ExtendsSame
  <2> QED
    BY <2>1, <2>2, LookKeeps
<1>2. CASE tab' = tab
  <2>1. ModeInv'
    BY <1>2 DEF AInv, ModeInv
  <2>2. AgreeInv'
    BY <1>2, AgreeNext DEF AInv, AgreeInv
  <2> QED
    BY <2>1, <2>2
<1> QED
  BY <1>1, <1>2

\* The next round of a loop, with a lookup or without.
LEMMA AdvanceKeeps ==
    ASSUME AInv, stack # <<>>, Top.k \in {"glob", "decls"}, Advance,
           UNCHANGED <<code, added, failed>>,
           tab' = tab \/ \E x \in Names : tab' = LookupView(tab, x)
    PROVE  ModeInv' /\ DefInv' /\ AgreeInv'
<1> DEFINE f == [Top EXCEPT !.pc = @ + 1]
<1>1. JInv /\ DefInv /\ TypeInv /\ ShapeInv
  BY DEF AInv, JInv
<1>2. f \in FrameType /\ f.k = Top.k /\ f.mod = Top.mod
  BY <1>1, AdvanceCorrect
<1>3. stack' = Append(Below, f)
  BY DEF Advance
<1> HIDE DEF f
<1>4. Retop(f)
  BY <1>1, <1>2, <1>3, RetopMeans
<1>5. Stage(stack') = Stage(stack) /\ DefInv'
  BY <1>1, <1>2, <1>4, RetopKeeps
<1> QED
  BY <1>5, QuietKeeps

\* A frame returns, with a lookup or without.
LEMMA ReturnKeeps ==
    ASSUME AInv, stack # <<>>, Top.k \in {"glob", "end", "get", "def"}, stack' = Below,
           UNCHANGED <<code, added, failed>>,
           tab' = tab \/ \E x \in Names : tab' = LookupView(tab, x)
    PROVE  ModeInv' /\ DefInv' /\ AgreeInv'
<1>1. Stage(stack') = Stage(stack) /\ DefInv'
  BY PopKeeps DEF AInv
<1> QED
  BY <1>1, QuietKeeps

\* The pass over the globals, the declarations, and returning calls.
LEMMA LoopsKeep ==
    ASSUME AInv, GlobWrite \/ GlobSkip \/ GlobDone \/ ResolveDecl \/ AddModuleReturns \/ GetReturns
    PROVE  ModeInv' /\ DefInv' /\ AgreeInv'
<1>1. JInv /\ TypeInv /\ ShapeInv
  BY DEF AInv, JInv
<1>2. CASE GlobWrite
  <2>1. stack # <<>> /\ Top.k = "glob" /\ Top.pc <= Len(ModRefs[Top.mod])
    BY <1>2 DEF GlobWrite, GlobMore, At, Idle
  <2>2. Top.mod \in Modules /\ Top.pc \in 1 .. Len(ModRefs[Top.mod])
    BY <1>1, <2>1, TopMeans, JitAssumption DEF FrameOK
  <2>3. GlobRef \in Names
    BY <2>2, ModuleNames DEF GlobRef
  <2>4. tab' = tab \/ tab' = LookupView(tab, GlobRef)
    BY <1>2 DEF GlobWrite
  <2> QED
    BY <2>1, <2>3, <2>4, <1>2, AdvanceKeeps DEF GlobWrite
<1>3. CASE GlobSkip
  BY <1>3, AdvanceKeeps DEF GlobSkip, GlobMore, At, Idle
<1>4. CASE GlobDone
  BY <1>4, ReturnKeeps DEF GlobDone, At, Idle
<1>5. CASE ResolveDecl
  <2>1. stack # <<>> /\ Top.k = "decls" /\ Top.pc <= Len(ModDecls[Top.mod])
    BY <1>5 DEF ResolveDecl, At, Idle
  <2>2. Top.mod \in Modules /\ Top.pc \in 1 .. Len(ModDecls[Top.mod])
    BY <1>1, <2>1, TopMeans, JitAssumption DEF FrameOK
  <2>3. ModDecls[Top.mod][Top.pc] \in Names
    BY <2>2, ModuleNames
  <2> QED
    BY <2>1, <2>3, <1>5, AdvanceKeeps DEF ResolveDecl
<1>6. CASE AddModuleReturns
  BY <1>6, ReturnKeeps DEF AddModuleReturns, At, Idle
<1>7. CASE GetReturns
  <2>1. stack # <<>> /\ Top.k = "get" /\ stack' = Below /\ UNCHANGED <<code, added, failed>>
    BY <1>7 DEF GetReturns, At, Idle
  <2>2. Top.name \in Names
    BY <1>1, <2>1, TopMeans
  <2>3. tab' = tab \/ tab' = LookupView(tab, Top.name)
    BY <1>7 DEF GetReturns
  <2> QED
    BY <2>1, <2>2, <2>3, ReturnKeeps
<1> QED
  BY <1>2, <1>3, <1>4, <1>5, <1>6, <1>7

\* The mode, when no eager compilation begins and no lazy entry appears.
LEMMA ModeStays ==
    ASSUME ModeInv, tab'.mode = tab.mode,
           ~tab.mode => \A n \in Names : tab.lazy[n].st = "none" => tab'.lazy[n].st = "none",
           Stage(stack') = Stage(stack) \/ Stage(stack').k \notin {"patch", "publish"}
    PROVE  ModeInv'
BY DEF ModeInv

\* lr_jit_get_symbol when it compiles nothing, and lr_jit_get_defined_function
\* before it finds the name.
LEMMA GetKeeps ==
    ASSUME AInv, (\E n \in GetNames : GetSymbol(n) \/ GetDefined(n)) \/ DefNext
    PROVE  ModeInv' /\ DefInv' /\ AgreeInv'
<1>1. JInv /\ TypeInv /\ ShapeInv /\ DefInv /\ FailInv
  BY DEF AInv, JInv
<1>2. ASSUME NEW n \in GetNames, GetSymbol(n)
      PROVE  ModeInv' /\ DefInv' /\ AgreeInv'
  <2>1. /\ stack = <<>> /\ stack' = stack /\ UNCHANGED <<code, added, failed>>
        /\ tab' = LookupView(tab, n) /\ n \in Names
    BY <1>2, JitAssumption DEF GetSymbol, Idle
  <2>2. DefInv'
    BY <2>1, <1>1, DefStays
  <2> QED
    BY <2>1, <2>2, QuietKeeps
<1>3. ASSUME NEW n, NEW try, stack' = <<DefFrame(n, try)>> \/ stack' = <<>>,
             stack = <<>> \/ stack[1].k = "def"
      PROVE  Stage(stack') = Stage(stack)
  <2>1. stack' # <<>> => stack'[1].k = "def"
    BY <1>3 DEF DefFrame, Frame
  <2> QED
    BY <2>1, <1>3 DEF Stage
<1>4. ASSUME NEW n \in GetNames, GetDefined(n)
      PROVE  ModeInv' /\ DefInv' /\ AgreeInv'
  <2>1. /\ stack = <<>> /\ stack' = <<DefFrame(n, 1)>>
        /\ UNCHANGED <<tab, code, added, failed>>
    BY <1>4 DEF GetDefined, Idle
  <2>2. stack'[1].pc = 1
    BY <2>1 DEF DefFrame, Frame
  <2>3. DefInv'
    BY <2>1, <2>2, <1>1, DefStays
  <2> QED
    BY <2>1, <2>3, <1>3, QuietKeeps
<1>5. CASE DefNext
  <2>1. /\ stack # <<>> /\ Top.k = "def" /\ UNCHANGED <<tab, code, added, failed>>
        /\ stack' = <<DefFrame(Top.name, 2)>> \/ stack' = <<>>
    BY <1>5 DEF DefNext, At, Idle
  <2>2. Len(stack) = 1 /\ stack[1] = Top
    BY <1>1, <2>1, SingleFrame
  <2>3. Stage(stack') = Stage(stack)
    BY <2>1, <2>2, <1>3
  <2>4. DefInv'
    <3>1. CASE stack' = <<>>
      BY <3>1, <2>1, <1>1, DefStays
    <3>2. CASE stack' # <<>>
      <4>1. /\ Top.pc = 1 /\ stack' = <<DefFrame(Top.name, 2)>>
            /\ rc = "fail" \/ tab.sym[Top.name] = NULL
        BY <3>2, <1>5 DEF DefNext, DefName, sym
      <4>2. failed \/ tab.sym[Top.name] = NULL
        BY <4>1, <1>1 DEF FailInv
      <4>3. Len(stack') = 1 /\ stack'[1].name = Top.name
        BY <4>1 DEF DefFrame, Frame
      <4> QED
        BY <4>2, <4>3, <2>1 DEF DefInv
    <3> QED
      BY <3>1, <3>2
  <2> QED
    BY <2>1, <2>3, <2>4, QuietKeeps
<1> QED
  BY <1>2, <1>4, <1>5

\* One call is bound.
LEMMA BindsExtends ==
    ASSUME TypeInv, NEW i \in DOMAIN code, NEW c \in DOMAIN code[i].to, NEW a \in Address,
           Binds(i, c, a)
    PROVE  Extends(code, code', code[i].calls[c], a) /\ Len(code') = Len(code)
<1>1. /\ Len(code') = Len(code) /\ DOMAIN code' = DOMAIN code
      /\ \A j \in DOMAIN code : j # i => code'[j] = code[j]
      /\ code'[i].calls = code[i].calls /\ DOMAIN code'[i].to = DOMAIN code[i].to
      /\ \A d \in DOMAIN code[i].to : d # c => code'[i].to[d] = code[i].to[d]
  BY BindsCorrect
<1>2. code'[i].to[c] = a
  <2>1. code \in Seq(Code) /\ i \in 1 .. Len(code)
    BY DEF TypeInv
  <2>2. code[i] \in Code
    BY <2>1, ElementOfSeq
  <2>3. code[i].to \in Seq(Address \cup {NULL})
    BY <2>2 DEF Code
  <2> QED
    BY <2>1, <2>2, <2>3 DEF Binds, Code
<1> QED
  BY <1>1, <1>2 DEF Extends

\* The patching loop of a function binds a call.
LEMMA MatPatchKeeps ==
    ASSUME AInv, MatPatch
    PROVE  ModeInv' /\ DefInv' /\ AgreeInv'
<1> DEFINE f == [Top EXCEPT !.pc = @ + 1]
<1>1. JInv /\ DefInv /\ TypeInv /\ ShapeInv /\ LazyInv /\ MatInv
  BY DEF AInv, JInv
<1>2. MatMore /\ Advance /\ UNCHANGED <<added, failed>>
  BY DEF MatPatch
<1>3. /\ stack # <<>> /\ Top.k = "mat" /\ Top.pc \in DOMAIN code[Top.idx].to /\ MatCall \in Names
  BY <1>1, <1>2, MatCallCorrect
<1>4. Top.idx \in DOMAIN code /\ Top.name \in Names /\ tab.lazy[Top.name].st = "compiling"
  BY <1>1, <1>3, MatTop
<1>5. tab.lazy[Top.name].addr = CodeAddr(Top.idx)
  BY <1>1, <1>3, StackCorrect DEF MatInv, Top, TypeInv
<1>6. f \in FrameType /\ f.k = Top.k /\ f.mod = Top.mod
  BY <1>1, <1>3, AdvanceCorrect
<1>7. stack' = Append(Below, f)
  BY <1>2 DEF Advance
<1> HIDE DEF f
<1>8. Retop(f)
  BY <1>1, <1>3, <1>6, <1>7, RetopMeans
<1>9. Stage(stack') = Stage(stack) /\ DefInv'
  BY <1>1, <1>2, <1>3, <1>6, <1>8, RetopKeeps
<1>10. ASSUME NEW x \in Names, x = MatCall, NEW a \in Address, a = TargetAddr(MatOwn, MatCall),
              tab' = TargetView(MatOwn, MatCall)
       PROVE  ModeInv' /\ AgreeInv'
  <2>1. Binds(Top.idx, Top.pc, a)
    BY <1>10 DEF MatPatch, Binds
  <2>2. Extends(code, code', x, a) /\ Len(code') = Len(code)
    BY <2>1, <1>1, <1>3, <1>4, <1>10, BindsExtends DEF MatCall
  <2>3. CASE x = Top.name
    <3>1. DOMAIN MatOwn = {Top.name} /\ MatOwn[Top.name] = CodeAddr(Top.idx)
      BY DEF MatOwn
    <3>2. a = CodeAddr(Top.idx) /\ tab' = tab
      BY <3>1, <2>3, <1>10 DEF TargetAddr, TargetView
    <3>3. Defined(x)
      BY <2>3, <1>1, <1>4 DEF LazyInv, Defined
    <3>4. a = Home(tab, code, Stage(stack), x)
      BY <3>2, <2>3, <1>4, <1>5 DEF Home
    <3> QED
      BY <3>2, <3>3, <3>4, <2>2, <1>2, <1>9, LookKeeps
  <2>4. CASE x # Top.name
    <3>1. DOMAIN MatOwn = {Top.name}
      BY DEF MatOwn
    <3>2. a = LookupAddr(tab, x) /\ tab' = LookupView(tab, x)
      BY <3>1, <2>4, <1>10 DEF TargetAddr, TargetView
    <3> QED
      BY <3>2, <2>2, <1>2, <1>9, LookKeeps
  <2> QED
    BY <2>3, <2>4
<1>11. TargetAddr(MatOwn, MatCall) \in Address
  BY <1>1, <1>2, MatCallCorrect DEF MatPatch
<1> QED
  BY <1>3, <1>9, <1>10, <1>11 DEF MatPatch

-----------------------------------------------------------------------------
(***************************************************************************)
(* The stages of lr_jit_add_module                                         *)
(***************************************************************************)

\* A step keeps the agreement if it does for the functions of modules, and for
\* the names that no module defines.
LEMMA AgreeStep ==
    ASSUME AInv, added' = added, ~failed' => ~failed,
           \A n \in Names : ~failed /\ OneOwner(n) /\ Defined(n) /\ Owned(tab, code, Stage(stack), n)
                               => Owned(tab', code', Stage(stack'), n),
           \A n \in Names : ~failed /\ OneOwner(n) /\ ~Defined(n) /\ ~Defined(Alias(n))
                               => (Outside(tab, code, n) => Outside(tab', code', n))
    PROVE  AgreeInv'
<1>1. ASSUME ~failed', NEW n \in Names
      PROVE  Agree(tab', code', Stage(stack'), n)
  <2>1. Agree(tab, code, Stage(stack), n)
    BY <1>1 DEF AInv, AgreeInv
  <2> QED
    BY <2>1, <1>1 DEF Agree
<1> QED
  BY <1>1, AgreeNext

\* Nothing happens to a name that no module defines.
LEMMA OutsideStays ==
    ASSUME NEW v, NEW w, NEW C, NEW D, NEW n \in Names, Outside(v, C, n), Extends(C, D, n, NULL),
           w.sym[n] = v.sym[n], w.sym[Alias(n)] = v.sym[Alias(n)], w.libs = v.libs
    PROVE  Outside(w, D, n)
<1>1. CallsGo(D, n, w.sym[n])
  BY CallsGoStep DEF Outside
<1> QED
  BY <1>1 DEF Outside, UserVals

\* Where a function is in its module.
LEMMA PositionCorrect ==
    ASSUME NEW m \in Modules, NEW s \in Defines(m)
    PROVE  /\ Position(m, s) \in 1 .. Len(ModFuncs[m]) /\ Len(ModFuncs[m]) \in Nat
           /\ \A k \in DOMAIN ModFuncs[m] : ModFuncs[m][k].name = s <=> k = Position(m, s)
<1>1. \E k \in DOMAIN ModFuncs[m] : ModFuncs[m][k].name = s
  BY DEF Defines
<1>2. Position(m, s) \in DOMAIN ModFuncs[m] /\ ModFuncs[m][Position(m, s)].name = s
  BY <1>1 DEF Position
<1>3. \A k, l \in DOMAIN ModFuncs[m] : ModFuncs[m][k].name = ModFuncs[m][l].name => k = l
  BY JitAssumption
<1> QED
  BY <1>2, <1>3, ModuleFuncs

\* The stage a single frame is in.
LEMMA StageSingle ==
    ASSUME NEW S, S # <<>>, S[1].k \in {"register", "decls", "patch", "publish"}
    PROVE  /\ Stage(S).k = S[1].k /\ Stage(S).mod = S[1].mod
           /\ S[1].k = "publish" => Stage(S).pc = S[1].pc
BY DEF Stage

\* The next stage f.
LEMMA NextStage ==
    ASSUME AInv, stack # <<>>, Top.k \in {"register", "decls", "patch", "publish"}, added' = added,
           NEW f \in FrameType, stack' = Append(Below, f),
           f.k \in {"register", "decls", "patch", "publish"}
    PROVE  /\ Stage(stack).k = Top.k /\ Stage(stack).mod = Top.mod
           /\ Top.k = "publish" => Stage(stack).pc = Top.pc
           /\ Stage(stack').k = f.k /\ Stage(stack').mod = f.mod
           /\ f.k = "publish" => Stage(stack').pc = f.pc
           /\ DefInv'
<1>1. JInv /\ TypeInv /\ DefInv
  BY DEF AInv, JInv
<1>2. Len(stack) = 1 /\ stack[1] = Top
  BY <1>1, SingleFrame
<1>3. Retop(f)
  BY <1>1, RetopMeans
<1>4. stack'[1] = f /\ stack' # <<>>
  BY <1>2, <1>3, SingleRetop
<1>5. DefInv'
  BY <1>1, <1>4, DefStays
<1> QED
  BY <1>2, <1>4, <1>5, StageSingle

\* lr_jit_add_module goes on to its last pass over the globals.
LEMMA LastStage ==
    ASSUME AInv, RegisteredLazy \/ Published
    PROVE  /\ stack # <<>> /\ Top.k \in {"decls", "publish"} /\ stack[1] = Top
           /\ UNCHANGED <<tab, code, added, failed>>
           /\ Stage(stack).k = Top.k /\ Stage(stack).mod = Top.mod
           /\ Top.k = "publish" => Stage(stack).pc = Top.pc
           /\ Stage(stack') = NoStage /\ DefInv'
<1>1. JInv /\ TypeInv /\ ShapeInv /\ DefInv
  BY DEF AInv, JInv
<1>2. /\ stack # <<>> /\ Top.k \in {"decls", "publish"} /\ UNCHANGED <<tab, code, added, failed>>
      /\ stack' = Append(Append(Below, AddFrame("end", Top.mod, 0, 0)), GlobFrame(Top.mod))
  BY DEF RegisteredLazy, Published, At, Idle
<1>3. Len(stack) = 1 /\ stack[1] = Top
  BY <1>1, <1>2, SingleFrame
<1> DEFINE f == AddFrame("end", Top.mod, 0, 0)
           e == GlobFrame(Top.mod)
<1>4. Top.mod \in Modules
  BY <1>1, <1>2, TopMeans
<1>5. f \in FrameType /\ e \in FrameType /\ f.k = "end"
  BY <1>4 DEF FrameType, AddFrame, GlobFrame, Frame, BaseKinds
<1> HIDE DEF f, e
<1>6. Append(Below, f) \in Seq(FrameType) /\ Len(Append(Below, f)) = 1 /\ Append(Below, f)[1] = f
  BY <1>1, <1>2, <1>3, <1>5, TopCorrect DEF TypeInv
<1>7. stack'[1] = f /\ stack' # <<>>
  <2> DEFINE s == Append(Below, f)
  <2>1. s \in Seq(FrameType) /\ Len(s) = 1 /\ s[1] = f /\ stack' = Append(s, e)
    BY <1>2, <1>6 DEF f, e
  <2> HIDE DEF s
  <2>2. /\ Len(Append(s, e)) = Len(s) + 1
        /\ \A d \in 1 .. Len(s) : Append(s, e)[d] = s[d]
    BY <2>1, <1>5, PushCorrect
  <2>3. Len(Append(s, e)) # 0 /\ Append(s, e)[1] = f
    BY <2>1, <2>2
  <2> QED
    BY <2>1, <2>3
<1>8. Stage(stack') = NoStage
  BY <1>5, <1>7 DEF Stage
<1>9. DefInv'
  BY <1>1, <1>2, <1>5, <1>7, DefStays
<1> QED
  BY <1>2, <1>3, <1>8, <1>9, StageSingle

\* All functions are in the table, or registered.
LEMMA LastKeeps ==
    ASSUME AInv, RegisteredLazy \/ Published
    PROVE  ModeInv' /\ DefInv' /\ AgreeInv'
<1>1. JInv /\ ModeInv /\ TypeInv /\ ShapeInv
  BY DEF AInv, JInv
<1>2. /\ stack # <<>> /\ Top.k \in {"decls", "publish"} /\ stack[1] = Top
      /\ UNCHANGED <<tab, code, added, failed>>
      /\ Stage(stack).k = Top.k /\ Stage(stack).mod = Top.mod
      /\ Top.k = "publish" => Stage(stack).pc = Top.pc
      /\ Stage(stack') = NoStage /\ DefInv'
  BY LastStage
<1>3. NoStage.k = "end"
  BY DEF NoStage
<1>4. ModeInv'
  BY <1>1, <1>2, <1>3, ModeStays
<1>5. ASSUME NEW n \in Names, Owned(tab, code, Stage(stack), n)
      PROVE  Owned(tab, code, NoStage, n)
  <2> DEFINE g == Stage(stack)
             h == Home(tab, code, g, n)
  <2>1. Settled(tab, code, n, h) /\ Staged(tab, g, n, h)
    BY <1>5 DEF Owned
  <2>2. tab.lazy[n].st # "compiling"
    BY <1>1, <1>2, StageMeans
  <2>3. Home(tab, code, NoStage, n) = tab.sym[n]
    BY <2>2, <1>3 DEF Home, Eagerly
  <2>4. tab.sym[n] = h
    <3>1. CASE ~Eagerly(g, n)
      BY <3>1, <2>2 DEF Home
    <3>2. CASE Eagerly(g, n)
      <4>1. Top.k = "publish" /\ n \in Defines(Top.mod)
        BY <3>2, <1>2 DEF Eagerly
      <4>2. Top.pc \in Nat /\ Top.mod \in Modules /\ Top.pc > Len(ModFuncs[Top.mod])
        BY <4>1, <1>1, <1>2, TopMeans DEF RegisteredLazy, Published, At
      <4>3. Position(Top.mod, n) < Top.pc
        BY <4>1, <4>2, PositionCorrect
      <4> QED
        BY <4>1, <4>3, <3>2, <2>1, <1>2 DEF Staged
    <3> QED
      BY <3>1, <3>2
  <2> HIDE DEF h
  <2>5. Staged(tab, NoStage, n, h)
    BY <2>1, <1>3 DEF Staged, Early, Eagerly
  <2> QED
    BY <2>1, <2>3, <2>4, <2>5 DEF Owned
<1>6. AgreeInv'
  <2>1. /\ \A n \in Names : Owned(tab, code, Stage(stack), n) => Owned(tab', code', Stage(stack'), n)
        /\ \A n \in Names : Outside(tab, code, n) => Outside(tab', code', n)
    BY <1>2, <1>5
  <2>2. added' = added /\ (~failed' => ~failed)
    BY <1>2
  <2> QED
    BY <2>1, <2>2, AgreeStep
<1> QED
  BY <1>2, <1>4, <1>6

\* The functions get their lazy entries.
LEMMA RegisterKeeps ==
    ASSUME AInv, Register
    PROVE  ModeInv' /\ DefInv' /\ AgreeInv'
<1> DEFINE f == AddFrame("decls", Top.mod, 0, 1)
           D == Defines(Top.mod)
<1>1. JInv /\ ModeInv /\ TypeInv /\ ShapeInv
  BY DEF AInv, JInv
<1>2. /\ stack # <<>> /\ Top.k = "register" /\ UNCHANGED <<code, added, failed>>
      /\ stack' = Append(Below, f)
  BY DEF Register, At, Idle
<1>3. Top.mod \in Modules
  BY <1>1, <1>2, TopMeans
<1>4. f \in FrameType /\ f.k = "decls" /\ f.mod = Top.mod
  BY <1>3 DEF FrameType, AddFrame, Frame, BaseKinds
<1> HIDE DEF f
<1>5. /\ Stage(stack).k = "register" /\ Stage(stack).mod = Top.mod
      /\ Stage(stack').k = "decls" /\ Stage(stack').mod = Top.mod /\ DefInv'
  BY <1>2, <1>4, NextStage
<1>6. /\ tab'.sym = tab.sym /\ tab'.libs = tab.libs /\ tab'.mode = tab.mode
      /\ \A n \in Names : \/ tab'.lazy[n] = tab.lazy[n]
                          \/ tab.mode /\ n \in D /\ tab'.lazy[n].st = "pending"
  <2> DEFINE pending == [st |-> "pending", mod |-> Top.mod, addr |-> NULL]
             L == IF tab.mode THEN [n \in Names |-> IF n \in D THEN pending ELSE tab.lazy[n]]
                  ELSE tab.lazy
             M == tab.miss \cup {n \in D : tab.sym[n] = NULL}
  <2>1. tab' = [tab EXCEPT !.miss = M, !.lazy = L]
    BY DEF Register, sym
  <2>2. pending.st = "pending"
    OBVIOUS
  <2> HIDE DEF pending, D
  <2>3. \A n \in Names : L[n] = tab.lazy[n] \/ (tab.mode /\ n \in D /\ L[n].st = "pending")
    BY <2>2
  <2> HIDE DEF L, M
  <2>4. /\ tab'.sym = tab.sym /\ tab'.libs = tab.libs /\ tab'.mode = tab.mode /\ tab'.lazy = L
    BY <2>1, <1>1 DEF TypeInv, Tab
  <2> QED
    BY <2>3, <2>4
<1>7. ModeInv'
  BY <1>1, <1>5, <1>6, ModeStays
<1>8. ASSUME NEW n \in Names, Owned(tab, code, Stage(stack), n)
      PROVE  Owned(tab', code, Stage(stack'), n)
  <2> DEFINE h == Home(tab, code, Stage(stack), n)
  <2>1. Settled(tab, code, n, h) /\ Staged(tab, Stage(stack), n, h)
    BY <1>8 DEF Owned
  <2>2. CASE n \in D
    <3>1. tab.sym[n] = NULL /\ tab.lazy[n].st = "none"
      BY <2>1, <2>2, <1>5 DEF Staged, Early
    <3>2. tab'.lazy[n].st # "compiling"
      BY <3>1, <1>6
    <3>3. h = NULL /\ Home(tab', code, Stage(stack'), n) = NULL
      BY <3>1, <3>2, <1>5, <1>6 DEF Home, Eagerly
    <3> HIDE DEF h
    <3>4. Settled(tab', code, n, NULL)
      BY <3>3, <2>1, <1>6 DEF Settled
    <3>5. Staged(tab', Stage(stack'), n, NULL)
      BY <3>1, <1>5, <1>6 DEF Staged, Eagerly
    <3> QED
      BY <3>3, <3>4, <3>5 DEF Owned
  <2>3. CASE n \notin D
    <3>1. tab'.lazy[n] = tab.lazy[n]
      BY <2>3, <1>6
    <3>2. Home(tab', code, Stage(stack'), n) = h
      BY <3>1, <1>5, <1>6 DEF Home, Eagerly
    <3> HIDE DEF h
    <3>3. Settled(tab', code, n, h)
      BY <2>1, <1>6 DEF Settled
    <3>4. Staged(tab', Stage(stack'), n, h)
      BY <3>1, <2>1, <2>3, <1>5, <1>6 DEF Staged, Eagerly, Early
    <3> QED
      BY <3>2, <3>3, <3>4 DEF Owned
  <2> QED
    BY <2>2, <2>3
<1>9. ASSUME NEW n \in Names, Outside(tab, code, n)
      PROVE  Outside(tab', code, n)
  BY <1>6, <1>9, OutsideStays, ExtendsSame
<1>10. AgreeInv'
  <2>1. /\ \A n \in Names : Owned(tab, code, Stage(stack), n) => Owned(tab', code', Stage(stack'), n)
        /\ \A n \in Names : Outside(tab, code, n) => Outside(tab', code', n)
    BY <1>2, <1>8, <1>9
  <2>2. added' = added /\ (~failed' => ~failed)
    BY <1>2
  <2> QED
    BY <2>1, <2>2, AgreeStep
<1> QED
  BY <1>5, <1>7, <1>10

\* A placed function has no bound call.
LEMMA UnboundTargets ==
    ASSUME NEW f, NEW c \in DOMAIN Unbound(f).to
    PROVE  Unbound(f).to[c] = NULL
<1> DEFINE t == [d \in DOMAIN f.calls |-> NULL]
<1>1. Unbound(f).to = t
  BY DEF Unbound
<1>2. \A d \in DOMAIN t : t[d] = NULL
  OBVIOUS
<1> QED
  BY <1>1, <1>2

\* The functions of a module are placed.
LEMMA PlacedExtends ==
    ASSUME TypeInv, NEW s \in Seq([name : Names, calls : Seq(Names)]),
           Len(code) + Len(s) <= CodeCap, Placed(s), NEW y
    PROVE  Extends(code, code', y, NULL) /\ Len(code') = Len(code) + Len(s)
<1>1. /\ CodeGrows /\ Len(code') = Len(code) + Len(s)
      /\ \A i \in DOMAIN code : code'[i] = code[i]
      /\ \A k \in DOMAIN s : code'[Len(code) + k] = Unbound(s[k])
  BY PlaceCorrect
<1>2. /\ DOMAIN code' = 1 .. Len(code) + Len(s) /\ DOMAIN code = 1 .. Len(code)
      /\ Len(code) \in Nat /\ Len(s) \in Nat /\ DOMAIN s = 1 .. Len(s)
  BY <1>1, LenProperties DEF CodeGrows, TypeInv
<1>3. ASSUME NEW i \in DOMAIN code', i \notin DOMAIN code, NEW c \in DOMAIN code'[i].to
      PROVE  code'[i].to[c] = NULL
  <2>1. i - Len(code) \in DOMAIN s /\ i = Len(code) + (i - Len(code))
    BY <1>2, <1>3
  <2>2. code'[i] = Unbound(s[i - Len(code)])
    BY <2>1, <1>1
  <2> QED
    BY <2>2, <1>3, UnboundTargets
<1>4. Extends(code, code', y, NULL)
  BY <1>1, <1>3 DEF Extends
<1> QED
  BY <1>1, <1>4

\* The functions of a module are compiled.
LEMMA CompileEagerKeeps ==
    ASSUME AInv, CompileEager
    PROVE  ModeInv' /\ DefInv' /\ AgreeInv'
<1>1. JInv /\ ModeInv /\ DefInv /\ TypeInv /\ ShapeInv
  BY DEF AInv, JInv
<1>2. stack # <<>> /\ Top.k = "decls" /\ ~tab.mode /\ UNCHANGED <<tab, added>>
  BY DEF CompileEager, At, Idle
<1>3. Top.mod \in Modules
  BY <1>1, <1>2, TopMeans
<1>4. CASE ~Fits(Len(code) + Len(ModFuncs[Top.mod]))
  <2>1. failed' /\ stack' = Below
    BY <1>4 DEF CompileEager
  <2>2. stack' = <<>>
    <3>1. Len(stack) = 1 /\ stack \in Seq(FrameType)
      BY <1>1, <1>2, SingleFrame DEF TypeInv
    <3>2. Below \in Seq(FrameType) /\ Len(Below) = 0
      BY <3>1, <1>2, StackCorrect
    <3> QED
      BY <3>2, <2>1, EmptySeq
  <2>3. Stage(stack').k = "end"
    BY <2>2 DEF Stage, NoStage
  <2>4. ModeInv'
    BY <2>3, <1>1, <1>2, ModeStays
  <2>5. DefInv'
    BY <2>2, <1>1, <1>2, DefStays
  <2> QED
    BY <2>1, <2>4, <2>5 DEF AgreeInv
<1>5. CASE Fits(Len(code) + Len(ModFuncs[Top.mod]))
  <2> DEFINE f == AddFrame("patch", Top.mod, 1, 1)
             s == ModFuncs[Top.mod]
             T == SubSeq(s, 1, Len(s))
  <2>1. stack' = Append(Below, f) /\ (~failed' => ~failed) /\ Placed(T)
    BY <1>5 DEF CompileEager, Placed
  <2>2. f \in FrameType /\ f.k = "patch" /\ f.mod = Top.mod
    BY <1>3 DEF FrameType, AddFrame, Frame, BaseKinds
  <2> HIDE DEF f
  <2>3. /\ Stage(stack).k = "decls" /\ Stage(stack).mod = Top.mod
        /\ Stage(stack').k = "patch" /\ Stage(stack').mod = Top.mod /\ DefInv'
    BY <2>1, <2>2, <1>2, NextStage
  <2>4. ModeInv'
    BY <1>1, <1>2 DEF ModeInv
  <2>5. s \in Seq([name : Names, calls : Seq(Names)]) /\ Len(s) \in Nat
    BY <1>3, ModuleFuncs
  <2>6. T \in Seq([name : Names, calls : Seq(Names)]) /\ Len(T) = Len(s)
    <3> DEFINE S == [name : Names, calls : Seq(Names)]
               N == Len(s)
    <3>1. s \in Seq(S) /\ N \in Nat /\ DOMAIN s = 1 .. N
      BY <1>3, ModuleFuncs
    <3> HIDE DEF s, S, N
    <3>2. \A k \in 1 .. N : s[k] \in S
      BY <3>1, ElementOfSeq
    <3>3. 1 \in Int /\ N \in Int
      BY <3>1
    <3> DEFINE U == SubSeq(s, 1, N)
    <3>4. U \in Seq(S) /\ Len(U) = IF 1 <= N THEN N - 1 + 1 ELSE 0
      BY <3>1, <3>2, <3>3, SubSeqProperties
    <3> HIDE DEF U
    <3>5. Len(U) = N
      BY <3>1, <3>4
    <3>6. U \in Seq(S) /\ Len(U) = N
      BY <3>4, <3>5
    <3> QED
      BY <3>6 DEF U, S, N
  <2>7. Len(code) + Len(s) <= CodeCap
    BY <1>5 DEF Fits
  <2> HIDE DEF s, T
  <2>8. \A y : Extends(code, code', y, NULL)
    BY <2>1, <2>5, <2>6, <2>7, <1>1, PlacedExtends
  <2>9. ASSUME NEW n \in Names, OneOwner(n), Defined(n), Owned(tab, code, Stage(stack), n)
        PROVE  Owned(tab', code', Stage(stack'), n)
    <3> DEFINE h == Home(tab, code, Stage(stack), n)
               k == Home(tab', code', Stage(stack'), n)
    <3>1. Settled(tab, code, n, h) /\ Staged(tab, Stage(stack), n, h)
      BY <2>9 DEF Owned
    <3>2. tab.lazy[n].st = "none"
      BY <1>1, <1>2 DEF ModeInv
    <3>3. h \in {NULL, k}
      <4>1. CASE n \in Defines(Top.mod)
        <5>1. Early(Stage(stack), n)
          BY <4>1, <2>3 DEF Early
        <5> QED
          BY <5>1, <3>1, <2>9, <1>1, OwnedMeans DEF TypeInv
      <4>2. CASE n \notin Defines(Top.mod)
        BY <4>2, <2>3, <1>2 DEF Home, Eagerly
      <4> QED
        BY <4>1, <4>2
    <3> HIDE DEF h, k
    <3>4. CallsGo(code', n, k) /\ CallsGo(code', Alias(n), tab.sym[Alias(n)])
      BY <3>1, <3>3, <2>8, CallsGoStep DEF Settled
    <3>5. Settled(tab', code', n, k)
      BY <3>1, <3>3, <3>4, <1>2 DEF Settled
    <3>6. Staged(tab', Stage(stack'), n, k)
      BY <3>2, <2>3, <1>2 DEF Staged, Early, Eagerly
    <3> QED
      BY <3>5, <3>6 DEF Owned, k
  <2>10. ASSUME NEW n \in Names, Outside(tab, code, n)
         PROVE  Outside(tab', code', n)
    BY <2>8, <2>10, <1>2, OutsideStays
  <2>11. AgreeInv'
    <3>1. added' = added
      BY <1>2
    <3> QED
      BY <3>1, <2>1, <2>9, <2>10, AgreeStep
  <2> QED
    BY <2>3, <2>4, <2>11
<1> QED
  BY <1>4, <1>5

\* The functions are being patched: a call is bound, or the next function comes.
LEMMA PatchEagerKeeps ==
    ASSUME AInv, PatchEager
    PROVE  ModeInv' /\ DefInv' /\ AgreeInv'
<1>1. JInv /\ ModeInv /\ DefInv /\ TypeInv /\ ShapeInv
  BY DEF AInv, JInv
<1>2. stack # <<>> /\ Top.k = "patch" /\ added' = added /\ Top.pc <= Len(EagerCalls)
  BY DEF PatchEager, Patching, At, Idle
<1>3. /\ Top.mod \in added /\ Top.mod \in Modules /\ stack[1] = Top /\ Len(stack) = 1
      /\ Top.pc \in Nat \ {0} /\ Top.idx \in Nat \ {0}
      /\ \A k \in Nat : EagerIndex(k) = Last(k)
      /\ \A k \in DOMAIN ModFuncs[Top.mod] : Last(k) \in DOMAIN code /\ EagerFunc(k)
  BY <1>1, <1>2, EagerMeans
<1>4. Top.idx \in DOMAIN ModFuncs[Top.mod]
  BY <1>3, ModuleFuncs DEF PatchEager, Patching
<1> DEFINE i == Last(Top.idx)
<1>5. i \in DOMAIN code /\ code[i].calls = EagerCalls
  BY <1>3, <1>4 DEF EagerFunc, EagerCalls
<1> HIDE DEF i
<1>6. Top.pc \in DOMAIN code[i].to /\ EagerCall \in Names /\ EagerCall = code[i].calls[Top.pc]
  <2>1. code[i] \in Code /\ Len(code[i].to) = Len(code[i].calls)
    BY <1>1, <1>5, ElementOfSeq DEF TypeInv
  <2>2. /\ code[i].calls \in Seq(Names) /\ DOMAIN code[i].to = 1 .. Len(code[i].calls)
        /\ Len(code[i].calls) \in Nat /\ DOMAIN code[i].calls = 1 .. Len(code[i].calls)
    BY <2>1 DEF Code
  <2>3. Top.pc \in 1 .. Len(code[i].calls)
    BY <2>2, <1>2, <1>3, <1>5
  <2> QED
    BY <2>2, <2>3, <1>5, ElementOfSeq DEF EagerCall
<1>7. ASSUME NEW x \in Names, x = EagerCall, NEW a, a = TargetAddr(OwnAddrs, EagerCall),
             a # NULL, tab' = TargetView(OwnAddrs, EagerCall)
      PROVE  ModeInv' /\ DefInv' /\ AgreeInv'
  <2>1. a \in Address
    BY <1>1, <1>2, <1>7, TargetCorrect, OwnAddrsCorrect
  <2>2. Binds(i, Top.pc, a) /\ Advance /\ failed' = failed
    BY <1>3, <1>7 DEF PatchEager, Binds, i
  <2>3. Extends(code, code', x, a) /\ Len(code') = Len(code)
    BY <2>1, <2>2, <1>1, <1>5, <1>6, <1>7, BindsExtends
  <2> DEFINE f == [Top EXCEPT !.pc = @ + 1]
  <2>4. f \in FrameType /\ f.k = Top.k /\ f.mod = Top.mod
    BY <1>1, <1>2, AdvanceCorrect
  <2>5. stack' = Append(Below, f)
    BY <2>2 DEF Advance
  <2> HIDE DEF f
  <2>6. Retop(f)
    BY <2>4, <2>5, <1>1, <1>2, RetopMeans
  <2>7. Stage(stack') = Stage(stack) /\ DefInv'
    BY <2>4, <2>6, <1>1, <1>2, RetopKeeps
  <2>8. CASE x \in DOMAIN OwnAddrs
    <3>1. x \in Defines(Top.mod) /\ OwnAddrs[x] = CodeAddr(EagerIndex(Position(Top.mod, x)))
      BY <2>8 DEF OwnAddrs, Position
    <3>2. a = OwnAddrs[x] /\ tab' = tab
      BY <2>8, <1>7 DEF TargetAddr, TargetView
    <3>3. Stage(stack).k = "patch" /\ Stage(stack).mod = Top.mod
      BY <1>2, <1>3, StageSingle
    <3>4. tab.lazy[x].st # "compiling"
      BY <3>3, <1>1, StageMeans
    <3>5. a = Home(tab, code, Stage(stack), x)
      BY <3>1, <3>2, <3>3, <3>4 DEF Home, Eagerly, EagerAddr, EagerIndex
    <3>6. Defined(x)
      BY <3>1, <1>3 DEF Defined
    <3> QED
      BY <3>2, <3>5, <3>6, <2>2, <2>3, <2>7, <1>2, LookKeeps
  <2>9. CASE x \notin DOMAIN OwnAddrs
    <3>1. a = LookupAddr(tab, x) /\ tab' = LookupView(tab, x)
      BY <2>9, <1>7 DEF TargetAddr, TargetView
    <3> QED
      BY <3>1, <2>2, <2>3, <2>7, <1>2, LookKeeps
  <2> QED
    BY <2>8, <2>9
<1>8. CASE TargetAddr(OwnAddrs, EagerCall) = NULL
  <2>1. stack' = Below /\ failed' /\ tab' \in {tab, LookupView(tab, EagerCall)}
    BY <1>1, <1>2, <1>6, <1>8, TargetCorrect, OwnAddrsCorrect DEF PatchEager
  <2>2. stack' = <<>>
    <3>1. Below \in Seq(FrameType) /\ Len(Below) = 0
      BY <1>1, <1>2, <1>3, StackCorrect DEF TypeInv
    <3> QED
      BY <3>1, <2>1, EmptySeq
  <2>3. Stage(stack').k = "end"
    BY <2>2 DEF Stage, NoStage
  <2>4. tab'.lazy = tab.lazy /\ tab'.mode = tab.mode
    BY <2>1, <1>1, <1>6, LookupViewCorrect DEF TypeInv, Looked
  <2>5. ModeInv'
    BY <2>3, <2>4, <1>1, ModeStays
  <2>6. DefInv'
    BY <2>2, <1>1, <1>2, DefStays
  <2> QED
    BY <2>1, <2>5, <2>6 DEF AgreeInv
<1>9. tab' = TargetView(OwnAddrs, EagerCall)
  BY DEF PatchEager
<1> QED
  BY <1>6, <1>7, <1>8, <1>9

\* The next function, or all functions are patched.
LEMMA PatchedKeeps ==
    ASSUME AInv, PatchNext \/ Patched
    PROVE  ModeInv' /\ DefInv' /\ AgreeInv'
<1>1. JInv /\ ModeInv /\ DefInv /\ TypeInv /\ ShapeInv
  BY DEF AInv, JInv
<1>2. stack # <<>> /\ Top.k = "patch" /\ UNCHANGED <<tab, code, added, failed>>
  BY DEF PatchNext, Patched, Patching, At, Idle
<1>3. Top.mod \in Modules /\ Top.idx \in Nat
  BY <1>1, <1>2, TopMeans
<1>4. CASE PatchNext
  <2> DEFINE f == AddFrame("patch", Top.mod, Top.idx + 1, 1)
  <2>1. stack' = Append(Below, f)
    BY <1>4 DEF PatchNext
  <2>2. f \in FrameType /\ f.k = "patch" /\ f.mod = Top.mod
    BY <1>3 DEF FrameType, AddFrame, Frame, BaseKinds
  <2> HIDE DEF f
  <2>3. Retop(f)
    BY <2>1, <2>2, <1>1, <1>2, RetopMeans
  <2>4. Stage(stack') = Stage(stack) /\ DefInv'
    BY <2>2, <2>3, <1>1, <1>2, RetopKeeps
  <2> QED
    BY <2>4, <1>2, QuietKeeps
<1>5. CASE Patched
  <2> DEFINE f == AddFrame("publish", Top.mod, 0, 1)
  <2>1. stack' = Append(Below, f)
    BY <1>5 DEF Patched
  <2>2. f \in FrameType /\ f.k = "publish" /\ f.mod = Top.mod /\ f.pc = 1
    BY <1>3 DEF FrameType, AddFrame, Frame, BaseKinds
  <2> HIDE DEF f
  <2>3. /\ Stage(stack).k = "patch" /\ Stage(stack).mod = Top.mod
        /\ Stage(stack').k = "publish" /\ Stage(stack').mod = Top.mod
        /\ Stage(stack').pc = 1 /\ DefInv'
    BY <2>1, <2>2, <1>2, NextStage
  <2>4. ~tab.mode
    BY <2>3, <1>1 DEF ModeInv
  <2>5. ModeInv'
    BY <2>4, <1>1, <1>2 DEF ModeInv
  <2>6. ASSUME NEW n \in Names, Owned(tab, code, Stage(stack), n)
        PROVE  Owned(tab, code, Stage(stack'), n)
    <3> DEFINE h == Home(tab, code, Stage(stack), n)
    <3>1. Settled(tab, code, n, h) /\ Staged(tab, Stage(stack), n, h)
      BY <2>6 DEF Owned
    <3>2. Home(tab, code, Stage(stack'), n) = h
      BY <2>3 DEF Home, Eagerly, EagerAddr
    <3> HIDE DEF h
    <3>3. n \in Defines(Top.mod) => ~(Position(Top.mod, n) < 1)
      BY <1>3, PositionCorrect
    <3>4. Staged(tab, Stage(stack'), n, h)
      BY <3>1, <3>3, <2>3 DEF Staged, Eagerly, Early
    <3> QED
      BY <3>1, <3>2, <3>4 DEF Owned
  <2>7. AgreeInv'
    <3>1. /\ \A n \in Names : Owned(tab, code, Stage(stack), n) => Owned(tab', code', Stage(stack'), n)
          /\ \A n \in Names : Outside(tab, code, n) => Outside(tab', code', n)
      BY <2>6, <1>2
    <3>2. added' = added /\ (~failed' => ~failed)
      BY <1>2
    <3> QED
      BY <3>1, <3>2, AgreeStep
  <2> QED
    BY <2>3, <2>5, <2>7
<1> QED
  BY <1>4, <1>5

\* Nobody else provides the function of a module that owns its name.
LEMMA BindOwned ==
    ASSUME NEW v \in Tab, NEW n \in Names, FromProcess(n) = NULL, FromLibs(v, n) = NULL, NEW a
    PROVE  Bind(v, n, a).sym[n] = a
<1>1. ~PreserveHost(v, n)
  BY DEF PreserveHost
<1>2. Bind(v, n, a) = [v EXCEPT !.sym[n] = a]
  BY <1>1 DEF Bind
<1> QED
  BY <1>2 DEF Tab

\* A function is published.
LEMMA PublishEagerKeeps ==
    ASSUME AInv, PublishEager
    PROVE  ModeInv' /\ DefInv' /\ AgreeInv'
<1> DEFINE f == [Top EXCEPT !.pc = @ + 1]
<1>1. JInv /\ ModeInv /\ DefInv /\ TypeInv /\ ShapeInv /\ tab \in Tab
  BY DEF AInv, JInv, TypeInv
<1>2. /\ stack # <<>> /\ Top.k = "publish" /\ UNCHANGED <<code, added, failed>>
      /\ Top.pc <= Len(ModFuncs[Top.mod]) /\ Advance
      /\ tab' = Bind(tab, ModFuncs[Top.mod][Top.pc].name, CodeAddr(EagerIndex(Top.pc)))
  BY DEF PublishEager, At, Idle
<1>3. /\ Top.mod \in added /\ Top.mod \in Modules /\ Top.pc \in Nat \ {0}
      /\ EagerIndex(Top.pc) = Last(Top.pc)
      /\ \A k \in DOMAIN ModFuncs[Top.mod] : Last(k) \in DOMAIN code
  BY <1>1, <1>2, EagerMeans
<1>4. Top.pc \in DOMAIN ModFuncs[Top.mod]
  BY <1>2, <1>3, ModuleFuncs
<1>5. CodeAddr(EagerIndex(Top.pc)) \in Address
  <2>1. Last(Top.pc) \in DOMAIN code
    BY <1>3, <1>4
  <2>2. Last(Top.pc) \in 1 .. CodeCap
    BY <2>1, <1>1, JitAssumption DEF TypeInv
  <2> QED
    BY <2>2, <1>3 DEF Address
<1>6. f \in FrameType /\ f.k = Top.k /\ f.mod = Top.mod /\ f.pc = Top.pc + 1
  BY <1>1, <1>2, AdvanceCorrect
<1>7. stack' = Append(Below, f)
  BY <1>2 DEF Advance
<1> HIDE DEF f
<1>8. /\ Stage(stack).k = "publish" /\ Stage(stack).mod = Top.mod /\ Stage(stack).pc = Top.pc
      /\ Stage(stack').k = "publish" /\ Stage(stack').mod = Top.mod
      /\ Stage(stack').pc = Top.pc + 1 /\ DefInv'
  BY <1>2, <1>6, <1>7, NextStage
<1>9. ASSUME NEW x \in Names, x = ModFuncs[Top.mod][Top.pc].name,
             NEW a \in Address, a = CodeAddr(EagerIndex(Top.pc))
      PROVE  ModeInv' /\ AgreeInv'
  <2>1. x \in Defines(Top.mod) /\ Defined(x) /\ Position(Top.mod, x) = Top.pc
    <3>1. x \in Defines(Top.mod)
      BY <1>4, <1>9 DEF Defines
    <3> QED
      BY <3>1, <1>3, <1>4, <1>9, PositionCorrect DEF Defined
  <2>2. tab' = Bind(tab, x, a)
    BY <1>2, <1>9
  <2>3. /\ tab' \in Tab /\ tab'.lazy = tab.lazy /\ tab'.libs = tab.libs /\ tab'.mode = tab.mode
        /\ \A y \in Names : y # x => tab'.sym[y] = tab.sym[y]
    BY <2>2, <1>1, BindCorrect
  <2>4. ModeInv'
    BY <2>3, <1>1, <1>8 DEF ModeInv
  <2>5. ASSUME NEW n \in Names, OneOwner(n), Defined(n), Owned(tab, code, Stage(stack), n)
        PROVE  Owned(tab', code, Stage(stack'), n)
    <3> DEFINE h == Home(tab, code, Stage(stack), n)
    <3>1. Settled(tab, code, n, h) /\ Staged(tab, Stage(stack), n, h)
      BY <2>5 DEF Owned
    <3>2. FromProcess(n) = NULL /\ FromLibs(tab, n) = NULL /\ ~Defined(Alias(n))
      BY <3>1, <2>5, <1>1, OwnedMeans
    <3>3. tab.lazy[n].st # "compiling"
      BY <1>1, <1>8, StageMeans
    <3>4. n = x => h = a
      BY <3>3, <2>1, <1>8, <1>9 DEF Home, Eagerly, EagerAddr, EagerIndex
    <3>5. n = x => tab'.sym[n] = h
      BY <3>2, <3>4, <2>2, <1>1, BindOwned
    <3>6. tab'.sym[Alias(n)] = tab.sym[Alias(n)]
      BY <3>2, <2>1, <2>3, AliasCorrect
    <3>7. tab'.sym[n] \in {tab.sym[n], h}
      BY <3>5, <2>3
    <3>8. Owned(tab', code, Stage(stack), n)
      BY <3>1, <3>6, <3>7, <2>3, <2>5, <1>1, OwnedStays DEF Settled
    <3>9. Home(tab', code, Stage(stack), n) = h
      <4>1. CASE Eagerly(Stage(stack), n)
        BY <4>1, <3>3, <2>3 DEF Home
      <4>2. CASE ~Eagerly(Stage(stack), n)
        <5>1. n # x
          BY <4>2, <2>1, <1>8 DEF Eagerly
        <5> QED
          BY <5>1, <4>2, <3>3, <2>3 DEF Home
      <4> QED
        BY <4>1, <4>2
    <3>10. Home(tab', code, Stage(stack'), n) = h
      BY <3>9, <1>8 DEF Home, Eagerly, EagerAddr
    <3> HIDE DEF h
    <3>11. Settled(tab', code, n, h) /\ Staged(tab', Stage(stack), n, h)
      BY <3>8, <3>9 DEF Owned
    <3>12. n \in Defines(Top.mod) /\ Position(Top.mod, n) < Top.pc + 1 => tab'.sym[n] = h
      <4>1. SUFFICES ASSUME n \in Defines(Top.mod), Position(Top.mod, n) < Top.pc + 1
                     PROVE  tab'.sym[n] = h
        OBVIOUS
      <4>2. Position(Top.mod, n) \in Nat /\ ModFuncs[Top.mod][Position(Top.mod, n)].name = n
        BY <4>1, <1>3, PositionCorrect, ModuleFuncs
      <4>3. CASE Position(Top.mod, n) < Top.pc
        BY <4>1, <4>3, <3>11, <1>8 DEF Staged, Eagerly
      <4>4. CASE Position(Top.mod, n) = Top.pc
        BY <4>2, <4>4, <3>5, <1>9
      <4> QED
        BY <4>1, <4>2, <4>3, <4>4, <1>3
    <3>13. Staged(tab', Stage(stack'), n, h)
      BY <3>11, <3>12, <1>8 DEF Staged, Eagerly, Early
    <3> QED
      BY <3>10, <3>11, <3>13 DEF Owned
  <2>6. ASSUME NEW n \in Names, ~Defined(n), ~Defined(Alias(n)), Outside(tab, code, n)
        PROVE  Outside(tab', code, n)
    <3>1. n # x /\ Alias(n) # x
      BY <2>1, <2>6
    <3> QED
      BY <3>1, <2>3, <2>6, AliasCorrect, OutsideStays, ExtendsSame
  <2>7. AgreeInv'
    <3>1. /\ \A n \in Names : OneOwner(n) /\ Defined(n) /\ Owned(tab, code, Stage(stack), n)
                                 => Owned(tab', code', Stage(stack'), n)
          /\ \A n \in Names : ~Defined(n) /\ ~Defined(Alias(n))
                                 => (Outside(tab, code, n) => Outside(tab', code', n))
      BY <2>5, <2>6, <1>2
    <3>2. added' = added /\ (~failed' => ~failed)
      BY <1>2
    <3> QED
      BY <3>1, <3>2, AgreeStep
  <2> QED
    BY <2>4, <2>7
<1>10. ModFuncs[Top.mod][Top.pc].name \in Names
  BY <1>3, <1>4, ModuleNames
<1> QED
  BY <1>5, <1>8, <1>9, <1>10

-----------------------------------------------------------------------------
(***************************************************************************)
(* lr_jit_get_defined_function finds the name                              *)
(***************************************************************************)

\* The address of the alias y is bound to x, which has none: modules agree.
LEMMA AliasOwned ==
    ASSUME JInv, ModeInv, NEW n \in Names, OneOwner(n), Defined(n), NEW g, g = Stage(stack),
           Owned(tab, code, g, n),
           NEW x \in Names, NEW a \in Address, a = tab.sym[Alias(x)],
           Defined(Alias(x)) \/ tab.sym[x] = NULL, NEW w, w = Bind(tab, x, a)
    PROVE  Owned(w, code, g, n)
<1> DEFINE h == Home(tab, code, g, n)
<1>1. Settled(tab, code, n, h) /\ Staged(tab, g, n, h) /\ tab \in Tab /\ a # NULL
  BY JitAssumption DEF Owned, JInv, TypeInv
<1>2. ~Defined(Alias(n))
  BY <1>1, OwnedMeans
<1>3. /\ w \in Tab /\ w.lazy = tab.lazy
      /\ \A y \in Names : y # x => w.sym[y] = tab.sym[y]
      /\ w.sym[x] = a \/ (w = tab /\ tab.sym[x] # NULL)
  BY <1>1, BindCorrect
<1>4. Alias(n) \in Names /\ Alias(n) # n /\ Alias(Alias(n)) = n /\ Alias(Alias(x)) = x
  BY AliasCorrect
<1>5. tab.sym[n] \in {NULL, h} /\ tab.sym[Alias(n)] \in {NULL, h}
  BY <1>1 DEF Settled
<1> HIDE DEF h
<1>6. w.sym[n] \in {tab.sym[n], h}
  <2>1. CASE n = x
    BY <2>1, <1>1, <1>2, <1>3, <1>5
  <2>2. CASE n # x
    BY <2>2, <1>3
  <2> QED
    BY <2>1, <2>2
<1>7. \/ w.sym[Alias(n)] = tab.sym[Alias(n)]
      \/ tab.sym[Alias(n)] = NULL /\ w.sym[Alias(n)] = h
  <2>1. CASE Alias(n) = x
    <3>1. a = tab.sym[n]
      BY <2>1, <1>4
    <3>2. a = h
      BY <3>1, <1>1, <1>5
    <3> QED
      BY <2>1, <3>2, <1>3, <1>5
  <2>2. CASE Alias(n) # x
    BY <2>2, <1>3, <1>4
  <2> QED
    BY <2>1, <2>2
<1>8. CallsGo(code, n, h)
  BY <1>1 DEF Settled
<1>9. CallsGo(code, Alias(n), w.sym[Alias(n)])
  <2>1. CallsGo(code, Alias(n), tab.sym[Alias(n)]) /\ Extends(code, code, n, NULL)
    BY <1>1, ExtendsSame DEF Settled
  <2>2. tab.sym[Alias(n)] \in {NULL, w.sym[Alias(n)]}
    BY <1>7
  <2> QED
    BY <2>1, <2>2, CallsGoStep
<1>10. Owned(tab, code, g, n) /\ h = Home(tab, code, g, n) /\ w \in Tab /\ w.lazy = tab.lazy
  BY <1>3 DEF h
<1> QED
  BY <1>6, <1>7, <1>8, <1>9, <1>10, OwnedStays

\* And so does everybody else.
LEMMA AliasOutside ==
    ASSUME tab \in Tab, \A n \in Names : Agree(tab, code, Stage(stack), n),
           NEW n \in Names, ~Defined(n), ~Defined(Alias(n)), Outside(tab, code, n),
           NEW x \in Names, NEW a \in Address, a = tab.sym[Alias(x)],
           Defined(Alias(x)) \/ tab.sym[x] = NULL, NEW w, w = Bind(tab, x, a)
    PROVE  Outside(w, code, n)
<1>1. /\ w \in Tab /\ w.libs = tab.libs
      /\ \A y \in Names : y # x => w.sym[y] = tab.sym[y]
      /\ w.sym[x] = a \/ (w = tab /\ tab.sym[x] # NULL)
  BY BindCorrect
<1>2. Alias(n) \in Names /\ Alias(n) # n /\ Alias(Alias(n)) = n /\ Alias(Alias(x)) = x
  BY AliasCorrect
<1>3. UserVals(w, n) = UserVals(tab, n)
  BY <1>1 DEF UserVals
<1>4. CASE n # x /\ Alias(n) # x
  BY <1>1, <1>2, <1>4, OutsideStays, ExtendsSame
<1>5. CASE n = x
  <2>1. w.sym[n] = a /\ w.sym[Alias(n)] = a /\ tab.sym[n] = NULL
    BY <1>1, <1>2, <1>5
  <2>2. CallsGo(code, n, a)
    <3>1. CallsGo(code, n, NULL) /\ Extends(code, code, Alias(n), NULL)
      BY <2>1, ExtendsSame DEF Outside
    <3> QED
      BY <3>1, CallsGoStep
  <2>3. Offers(n) # {}
    <3> SUFFICES ASSUME Offers(n) = {}
                 PROVE  FALSE
      OBVIOUS
    <3>1. /\ OneOwner(Alias(n)) /\ Offers(Alias(n)) = {}
          /\ ~Defined(Alias(n)) /\ ~Defined(Alias(Alias(n)))
      BY <1>2, NoOwner
    <3>2. Outside(tab, code, Alias(n))
      BY <3>1, <1>2 DEF Agree
    <3>3. tab.sym[Alias(n)] = NULL
      BY <3>1, <3>2 DEF Outside
    <3> QED
      BY <3>3, <1>5, JitAssumption
  <2> QED
    BY <2>1, <2>2, <2>3, <1>3, <1>5 DEF Outside
<1>6. CASE Alias(n) = x
  <2>1. w.sym[n] = tab.sym[n] /\ w.sym[Alias(n)] = tab.sym[n]
    BY <1>1, <1>2, <1>6
  <2> QED
    BY <2>1, <1>3 DEF Outside
<1> QED
  BY <1>4, <1>5, <1>6

LEMMA DefFoundKeeps ==
    ASSUME AInv, DefFound
    PROVE  ModeInv' /\ DefInv' /\ AgreeInv'
<1>1. JInv /\ ModeInv /\ DefInv /\ TypeInv /\ ShapeInv /\ tab \in Tab
  BY DEF AInv, JInv, TypeInv
<1>2. /\ stack # <<>> /\ Top.k = "def" /\ stack' = Below /\ UNCHANGED <<code, added, failed>>
      /\ tab.sym[DefName] # NULL
      /\ tab' = (IF Top.pc = 1 THEN tab ELSE Bind(tab, Top.name, tab.sym[DefName]))
  BY DEF DefFound, At, Idle, sym
<1>3. CASE Top.pc = 1
  BY <1>2, <1>3, ReturnKeeps
<1>4. CASE Top.pc # 1
  <2>1. Top.name \in Names
    BY <1>1, <1>2, TopMeans
  <2>2. Stage(stack') = Stage(stack) /\ DefInv'
    BY <1>1, <1>2, PopKeeps
  <2>3. DefName = Alias(Top.name) /\ DefName \in Names
    BY <2>1, <1>4, AliasCorrect DEF DefName
  <2>4. Len(stack) = 1 /\ stack[1] = Top
    BY <1>1, <1>2, SingleFrame
  <2>5. ASSUME NEW x \in Names, x = Top.name, NEW a \in Address, a = tab.sym[Alias(x)]
        PROVE  ModeInv' /\ AgreeInv'
    <3>1. tab' = Bind(tab, x, a)
      BY <2>3, <2>5, <1>2, <1>4
    <3>2. tab'.lazy = tab.lazy /\ tab'.mode = tab.mode
      BY <3>1, <1>1, BindCorrect
    <3>3. ModeInv'
      BY <3>2, <2>2, <1>1, ModeStays
    <3>4. ~failed => Defined(Alias(x)) \/ tab.sym[x] = NULL
      BY <2>4, <2>5, <1>1, <1>2, <1>4 DEF DefInv
    <3>5. ASSUME ~failed
          PROVE  \A n \in Names : Agree(tab', code, Stage(stack), n)
      <4>1. \A n \in Names : Agree(tab, code, Stage(stack), n)
        BY <3>5 DEF AInv, AgreeInv
      <4>2. ASSUME NEW n \in Names, OneOwner(n), Defined(n), Owned(tab, code, Stage(stack), n)
            PROVE  Owned(tab', code, Stage(stack), n)
        BY <4>2, <3>1, <3>4, <3>5, <2>5, <1>1, AliasOwned
      <4>3. ASSUME NEW n \in Names, ~Defined(n), ~Defined(Alias(n)), Outside(tab, code, n)
            PROVE  Outside(tab', code, n)
        BY <4>1, <4>3, <3>1, <3>4, <3>5, <2>5, <1>1, AliasOutside
      <4> QED
        BY <4>1, <4>2, <4>3 DEF Agree
    <3>6. AgreeInv'
      <4>1. ~failed' => \A n \in Names : Agree(tab', code', Stage(stack'), n)
        BY <3>5, <2>2, <1>2
      <4>2. added' = added
        BY <1>2
      <4> QED
        BY <4>1, <4>2, AgreeNext
    <3> QED
      BY <3>3, <3>6
  <2>6. tab.sym[Alias(Top.name)] \in Address
    BY <2>3, <1>1, <1>2 DEF Tab
  <2> QED
    BY <2>1, <2>2, <2>5, <2>6
<1> QED
  BY <1>3, <1>4

-----------------------------------------------------------------------------
(***************************************************************************)
(* Materialization                                                         *)
(***************************************************************************)

\* One function is placed.
LEMMA OneExtends ==
    ASSUME TypeInv, NEW f \in [name : Names, calls : Seq(Names)], Len(code) + 1 <= CodeCap,
           code' = Append(code, Unbound(f)), NEW y
    PROVE  Extends(code, code', y, NULL)
<1> DEFINE u == Unbound(f)
<1>1. /\ DOMAIN code' = 1 .. Len(code) + 1 /\ DOMAIN code = 1 .. Len(code) /\ Len(code) \in Nat
      /\ \A i \in DOMAIN code : i \in DOMAIN code' /\ code'[i] = code[i]
  BY PlaceOne
<1>2. code'[Len(code) + 1] = u
  <2>1. u \in Code /\ code \in Seq(Code)
    BY UnboundCorrect DEF TypeInv
  <2> HIDE DEF u
  <2>2. Append(code, u)[Len(code) + 1] = u
    BY <2>1, AppendProperties
  <2> QED
    BY <2>2 DEF u
<1>3. ASSUME NEW i \in DOMAIN code', i \notin DOMAIN code, NEW c \in DOMAIN code'[i].to
      PROVE  code'[i].to[c] = NULL
  <2>1. i = Len(code) + 1
    BY <1>1, <1>3
  <2> QED
    BY <2>1, <1>2, <1>3, UnboundTargets
<1> QED
  BY <1>1, <1>3 DEF Extends

\* A PENDING function becomes COMPILING at an address nobody has yet.
LEMMA EnterAgrees ==
    ASSUME NEW v \in Tab, NEW w \in Tab, NEW n \in Names, NEW a,
           w.sym = v.sym, w.libs = v.libs, v.lazy[n].st = "pending",
           w.lazy[n].st = "compiling", w.lazy[n].addr = a,
           \A x \in Names : x # n => w.lazy[x] = v.lazy[x],
           NEW C, NEW D, \A y : Extends(C, D, y, NULL),
           NEW g, g.k \notin {"patch", "publish"},
           NEW x \in Names, Agree(v, C, g, x)
    PROVE  Agree(w, D, g, x)
<1>1. ASSUME Owned(v, C, g, x)
      PROVE  Owned(w, D, g, x)
  <2> DEFINE h == Home(v, C, g, x)
             k == Home(w, D, g, x)
  <2>1. Settled(v, C, x, h) /\ Staged(v, g, x, h)
    BY <1>1 DEF Owned
  <2>2. ~Eagerly(g, x)
    BY DEF Eagerly
  <2>3. h \in {NULL, k}
    <3>1. CASE x = n
      BY <3>1, <2>1, <2>2 DEF Home, Staged
    <3>2. CASE x # n
      BY <3>2, <2>2 DEF Home
    <3> QED
      BY <3>1, <3>2
  <2> HIDE DEF h, k
  <2>4. CallsGo(D, x, k) /\ CallsGo(D, Alias(x), v.sym[Alias(x)])
    BY <2>1, <2>3, CallsGoStep DEF Settled
  <2>5. Settled(w, D, x, k)
    BY <2>1, <2>3, <2>4 DEF Settled
  <2>6. Staged(w, g, x, k)
    <3>1. CASE x = n
      BY <3>1, <2>1, <2>2 DEF Staged
    <3>2. CASE x # n
      BY <3>2, <2>1, <2>2 DEF Staged
    <3> QED
      BY <3>1, <3>2
  <2> QED
    BY <2>5, <2>6 DEF Owned, k
<1>2. ASSUME Outside(v, C, x)
      PROVE  Outside(w, D, x)
  BY <1>2, OutsideStays
<1> QED
  BY <1>1, <1>2 DEF Agree

\* materialize_lazy_function up to its patching loop, over the frames s.
LEMMA EnterKeeps ==
    ASSUME AInv, NEW n \in Names, NEW v, v = tab \/ v = LookupView(tab, n),
           NEW s \in Seq(FrameType), s # <<>>, Stage(s) = Stage(stack),
           s[1].k # "def" \/ s[1].pc = 1 \/ Defined(Alias(s[1].name)),
           tab.lazy[n].st = "pending", Enter(n, v, s), added' = added
    PROVE  ModeInv' /\ DefInv' /\ AgreeInv'
<1>1. JInv /\ ModeInv /\ DefInv /\ TypeInv /\ LazyInv /\ tab \in Tab
  BY DEF AInv, JInv, TypeInv
<1>2. v \in Tab /\ v.lazy = tab.lazy /\ v.mode = tab.mode
  BY <1>1, LookupViewCorrect DEF Looked
<1>3. tab.mode /\ Stage(stack).k \notin {"patch", "publish"}
  BY <1>1 DEF ModeInv
<1>4. ASSUME stack' # <<>>, stack'[1] = s[1]
      PROVE  DefInv' /\ Stage(stack') = Stage(stack)
  <2>1. Stage(stack') = Stage(stack)
    BY <1>4 DEF Stage
  <2>2. Defined(Alias(s[1].name)) => Defined(Alias(s[1].name))'
    BY DEF Defined
  <2> QED
    BY <2>1, <2>2, <1>4 DEF DefInv
<1>5. CASE ~Fits(Len(code) + 1)
  <2>1. failed' /\ stack' = s /\ tab' = v
    BY <1>5 DEF Enter
  <2>2. DefInv' /\ Stage(stack') = Stage(stack)
    BY <2>1, <1>4
  <2>3. ModeInv'
    BY <2>1, <2>2, <1>1, <1>2, ModeStays
  <2> QED
    BY <2>1, <2>2, <2>3 DEF AgreeInv
<1>6. CASE Fits(Len(code) + 1)
  <2> DEFINE i == Len(code) + 1
             m == tab.lazy[n].mod
             e == [st |-> "compiling", mod |-> m, addr |-> CodeAddr(i)]
             f == MatFrame(n, m, i)
  <2>1. /\ code' = Append(code, Unbound(FuncOf(m, n))) /\ tab' = [v EXCEPT !.lazy[n] = e]
        /\ stack' = Append(s, f) /\ failed' = failed
    BY <1>2, <1>6 DEF Enter
  <2>2. m \in added /\ m \in Modules /\ n \in Defines(m)
    BY <1>1 DEF LazyInv, TypeInv
  <2>3. i \in 1 .. CodeCap /\ Len(code) + 1 <= CodeCap
    BY <1>1, <1>6, JitAssumption DEF Fits, TypeInv
  <2>4. e \in LazyEntry /\ e.st = "compiling" /\ f \in FrameType
    BY <2>2, <2>3 DEF LazyEntry, Address, FrameType, MatFrame, Frame
  <2>5. \A y : Extends(code, code', y, NULL)
    BY <2>1, <2>2, <2>3, <1>1, FuncOfCorrect, OneExtends
  <2> HIDE DEF i, m, e, f
  <2>6. /\ tab' \in Tab /\ tab'.sym = v.sym /\ tab'.libs = v.libs /\ tab'.mode = v.mode
        /\ tab'.lazy[n] = e /\ \A x \in Names : x # n => tab'.lazy[x] = v.lazy[x]
    BY <2>1, <2>4, <1>2, EntryCorrect
  <2>7. stack' # <<>> /\ stack'[1] = s[1]
    <3>1. Len(s) \in Nat \ {0}
      BY EmptySeq, LenProperties
    <3>2. Len(stack') = Len(s) + 1 /\ \A d \in 1 .. Len(s) : stack'[d] = s[d]
      BY <2>1, <2>4, PushCorrect
    <3> QED
      BY <3>1, <3>2
  <2>8. DefInv' /\ Stage(stack') = Stage(stack)
    BY <2>7, <1>4
  <2>9. ModeInv'
    BY <2>6, <2>8, <1>1, <1>2, <1>3, ModeStays
  <2>10. ASSUME ~failed, NEW x \in Names
         PROVE  Agree(tab', code', Stage(stack), x)
    <3>1. \A z \in Names : Agree(tab, code, Stage(stack), z)
      BY <2>10 DEF AInv, AgreeInv
    <3>2. Extends(code, code, n, NULL)
      BY ExtendsSame
    <3>3. Agree(v, code, Stage(stack), x)
      BY <3>1, <3>2, <2>10, <1>1, AgreeLook
    <3>4. tab'.lazy[n].st = "compiling" /\ v.lazy[n].st = "pending"
      BY <2>4, <2>6, <1>2
    <3> QED
      BY <3>3, <3>4, <2>5, <2>6, <1>2, <1>3, EnterAgrees
  <2>11. AgreeInv'
    <3>1. ~failed' => \A x \in Names : Agree(tab', code', Stage(stack'), x)
      BY <2>1, <2>8, <2>10
    <3> QED
      BY <3>1, AgreeNext
  <2> QED
    BY <2>8, <2>9, <2>11
<1> QED
  BY <1>5, <1>6

\* A function over the stack as it is.
LEMMA MaterializeKeeps ==
    ASSUME AInv, GlobMaterialize \/ DefMaterialize
    PROVE  ModeInv' /\ DefInv' /\ AgreeInv'
<1>1. JInv /\ DefInv /\ TypeInv /\ ShapeInv /\ LazyInv /\ stack \in Seq(FrameType)
  BY DEF AInv, JInv, TypeInv
<1>2. CASE GlobMaterialize
  <2>1. /\ stack # <<>> /\ Top.k = "glob" /\ tab.lazy[GlobRef].st = "pending"
        /\ Enter(GlobRef, tab, stack) /\ added' = added /\ Top.pc <= Len(ModRefs[Top.mod])
    BY <1>2 DEF GlobMaterialize, GlobMore, At, Idle, lazy
  <2>2. Top.mod \in Modules /\ Top.pc \in 1 .. Len(ModRefs[Top.mod])
    BY <1>1, <2>1, TopMeans, JitAssumption DEF FrameOK
  <2>3. GlobRef \in Names
    BY <2>2, ModuleNames DEF GlobRef
  <2>4. stack[1].k # "def" \/ stack[1].pc = 1 \/ Defined(Alias(stack[1].name))
    <3>1. Len(stack) = 1 => stack[1].k = "glob"
      BY <2>1 DEF Top
    <3> QED
      BY <3>1, <2>1, <1>1 DEF DefInv
  <2> QED
    BY <2>1, <2>3, <2>4, <1>1, EnterKeeps
<1>3. CASE DefMaterialize
  <2>1. /\ stack # <<>> /\ Top.k = "def" /\ tab.lazy[DefName].st = "pending"
        /\ Enter(DefName, tab, stack) /\ added' = added
    BY <1>3 DEF DefMaterialize, At, Idle, lazy
  <2>2. DefName \in Names
    BY <1>1, <2>1, TopMeans, AliasCorrect DEF DefName
  <2>3. stack[1] = Top
    BY <1>1, <2>1, SingleFrame
  <2>4. Defined(DefName)
    BY <2>1, <2>2, <1>1 DEF LazyInv, Defined
  <2>5. stack[1].k # "def" \/ stack[1].pc = 1 \/ Defined(Alias(stack[1].name))
    BY <2>3, <2>4 DEF DefName
  <2> QED
    BY <2>1, <2>2, <2>5, <1>1, EnterKeeps
<1> QED
  BY <1>2, <1>3

\* lr_jit_get_symbol materializes a function.
LEMMA GetLazyKeeps ==
    ASSUME AInv, NEW n \in GetNames, GetLazy(n)
    PROVE  ModeInv' /\ DefInv' /\ AgreeInv'
<1> DEFINE f == GetFrame(n)
           s == <<f>>
<1>1. /\ stack = <<>> /\ tab.lazy[n].st = "pending" /\ added' = added
      /\ Enter(n, LookupView(tab, n), s)
  BY DEF GetLazy, Idle, lazy
<1>2. n \in Names
  BY JitAssumption
<1>3. f \in FrameType /\ f.k = "get"
  BY <1>2 DEF FrameType, GetFrame, Frame, BaseKinds
<1> HIDE DEF f
<1>4. s \in Seq(FrameType) /\ s # <<>> /\ s[1] = f
  BY <1>3
<1> HIDE DEF s
<1>5. Stage(s) = Stage(stack)
  BY <1>1, <1>3, <1>4 DEF Stage
<1> QED
  BY <1>1, <1>2, <1>3, <1>4, <1>5, EnterKeeps

\* The error exit of materialize_lazy_function.
LEMMA LeaveFailedKeeps ==
    ASSUME AInv, stack # <<>>, Top.k = "mat", NEW n \in Names, NEW v,
           v = tab \/ v = LookupView(tab, n), LeaveFailed(v), added' = added
    PROVE  ModeInv' /\ DefInv' /\ AgreeInv'
<1>1. JInv /\ ModeInv /\ DefInv /\ tab \in Tab
  BY DEF AInv, JInv, TypeInv
<1>2. v \in Tab /\ v.lazy = tab.lazy /\ v.mode = tab.mode
  BY <1>1, LookupViewCorrect DEF Looked
<1>3. Top.name \in Names /\ tab.lazy[Top.name].st = "compiling"
  BY <1>1, MatTop
<1>4. stack' = Below /\ failed'
  BY DEF LeaveFailed
<1>5. Stage(stack') = Stage(stack) /\ DefInv'
  BY <1>1, <1>4, PopKeeps
<1>6. tab.mode
  BY <1>1, <1>3 DEF ModeInv
<1>7. tab'.mode = tab.mode
  BY <1>2 DEF LeaveFailed, Tab
<1>8. ModeInv'
  BY <1>1, <1>5, <1>6, <1>7, ModeStays
<1> QED
  BY <1>4, <1>5, <1>8 DEF AgreeInv

\* A call of a function that is being materialized has no target.
LEMMA MatMissingKeeps ==
    ASSUME AInv, MatMissing
    PROVE  ModeInv' /\ DefInv' /\ AgreeInv'
<1> DEFINE v == TargetView(MatOwn, MatCall)
           f == [Top EXCEPT !.pc = 1]
           s == Append(Below, f)
<1>1. JInv /\ DefInv /\ TypeInv /\ ShapeInv /\ MatMore /\ added' = added
  BY DEF AInv, JInv, MatMissing
<1>2. /\ stack # <<>> /\ Top.k = "mat" /\ MatCall \in Names
      /\ v = tab \/ v = LookupView(tab, MatCall)
  BY <1>1, MatCallCorrect
<1>3. v.lazy = tab.lazy
  BY <1>1, <1>2, LookupViewCorrect DEF TypeInv, Looked
<1>4. IF tab.lazy[MatCall].st = "pending" THEN Enter(MatCall, v, s) ELSE LeaveFailed(v)
  BY <1>3 DEF MatMissing
<1> HIDE DEF v
<1>5. CASE tab.lazy[MatCall].st # "pending"
  BY <1>1, <1>2, <1>4, <1>5, LeaveFailedKeeps
<1>6. CASE tab.lazy[MatCall].st = "pending"
  <2>1. /\ Top \in FrameType /\ FrameOK(Len(stack), Top, Len(stack), added)
        /\ Len(stack) \in Nat \ {0}
    BY <1>1, <1>2, StackCorrect, TopMeans DEF TypeInv
  <2>2. f \in FrameType
    BY <2>1 DEF FrameType
  <2>3. Len(stack) # 1
    BY <2>1, <1>2 DEF FrameOK, BaseKinds
  <2> HIDE DEF f
  <2>4. /\ s \in Seq(FrameType) /\ Len(s) = Len(stack)
        /\ \A d \in 1 .. Len(stack) - 1 : s[d] = stack[d]
    BY <2>2, <1>1, <1>2, TopCorrect DEF TypeInv
  <2> HIDE DEF s
  <2>5. s # <<>> /\ s[1] = stack[1]
    BY <2>1, <2>3, <2>4
  <2>6. Stage(s) = Stage(stack)
    BY <2>5, <1>2 DEF Stage
  <2>7. s[1].k # "def" \/ s[1].pc = 1 \/ Defined(Alias(s[1].name))
    BY <2>3, <2>5, <1>1, <1>2 DEF DefInv
  <2> QED
    BY <2>4, <2>5, <2>6, <2>7, <1>1, <1>2, <1>4, <1>6, EnterKeeps
<1> QED
  BY <1>5, <1>6

\* The dependency of a materialization failed.
LEMMA MatDependencyFailedKeeps ==
    ASSUME AInv, MatDependencyFailed
    PROVE  ModeInv' /\ DefInv' /\ AgreeInv'
<1>1. stack # <<>> /\ Top.k = "mat" /\ LeaveFailed(tab) /\ added' = added
  BY DEF MatDependencyFailed, At, Idle
<1>2. Top.name \in Names
  BY <1>1, MatTop DEF AInv
<1> QED
  BY <1>1, <1>2, LeaveFailedKeeps

\* Every call has a target: the function is published.
LEMMA MatDoneKeeps ==
    ASSUME AInv, MatDone
    PROVE  ModeInv' /\ DefInv' /\ AgreeInv'
<1> DEFINE f == GlobFrame(Top.mod)
<1>1. JInv /\ ModeInv /\ DefInv /\ TypeInv /\ ShapeInv /\ LazyInv /\ MatInv /\ tab \in Tab
  BY DEF AInv, JInv, TypeInv
<1>2. /\ stack # <<>> /\ Top.k = "mat" /\ UNCHANGED <<code, added, failed>>
      /\ stack' = Append(Below, f)
  BY DEF MatDone, At, Idle
<1>3. /\ Top.name \in Names /\ tab.lazy[Top.name].st = "compiling" /\ Top.mod \in Modules
      /\ Top.idx \in 1 .. CodeCap
  BY <1>1, <1>2, MatTop
<1>4. tab.lazy[Top.name].addr = CodeAddr(Top.idx)
  BY <1>1, <1>2, StackCorrect DEF MatInv, Top, TypeInv
<1>5. f \in FrameType /\ f.k = "glob"
  BY <1>3 DEF FrameType, GlobFrame, Frame
<1> HIDE DEF f
<1>6. Retop(f)
  BY <1>1, <1>2, <1>5, RetopMeans
<1>7. Stage(stack') = Stage(stack) /\ DefInv'
  BY <1>1, <1>2, <1>5, <1>6, RetopKeeps
<1>8. tab.mode /\ Stage(stack).k \notin {"patch", "publish"}
  BY <1>1, <1>3 DEF ModeInv
<1>9. ASSUME NEW x \in Names, x = Top.name, NEW a \in Address, a = CodeAddr(Top.idx)
      PROVE  ModeInv' /\ AgreeInv'
  <2> DEFINE e == [st |-> "ready", mod |-> tab.lazy[x].mod, addr |-> NULL]
             v == [tab EXCEPT !.lazy[x] = e]
  <2>1. tab' = Bind(v, x, a)
    BY <1>9 DEF MatDone
  <2>2. e \in LazyEntry /\ e.st = "ready"
    BY <1>1 DEF LazyEntry, Tab
  <2> HIDE DEF e
  <2>3. /\ v \in Tab /\ v.sym = tab.sym /\ v.libs = tab.libs /\ v.mode = tab.mode
        /\ v.lazy[x] = e /\ \A y \in Names : y # x => v.lazy[y] = tab.lazy[y]
    BY <2>2, <1>1, EntryCorrect
  <2> HIDE DEF v
  <2>4. /\ tab' \in Tab /\ tab'.lazy = v.lazy /\ tab'.libs = tab.libs /\ tab'.mode = tab.mode
        /\ \A y \in Names : y # x => tab'.sym[y] = tab.sym[y]
    BY <2>1, <2>3, BindCorrect
  <2>5. ModeInv'
    BY <2>4, <1>1, <1>7, <1>8 DEF ModeInv
  <2>6. Defined(x)
    BY <1>1, <1>3, <1>9 DEF LazyInv, Defined
  <2>7. ASSUME NEW n \in Names, OneOwner(n), Defined(n), Owned(tab, code, Stage(stack), n)
        PROVE  Owned(tab', code, Stage(stack), n)
    <3> DEFINE h == Home(tab, code, Stage(stack), n)
               g == Stage(stack)
    <3>1. Settled(tab, code, n, h) /\ Staged(tab, g, n, h)
      BY <2>7 DEF Owned
    <3>2. FromProcess(n) = NULL /\ FromLibs(tab, n) = NULL /\ ~Defined(Alias(n))
      BY <3>1, <2>7, <1>1, OwnedMeans
    <3>3. tab'.sym[Alias(n)] = tab.sym[Alias(n)]
      BY <3>2, <2>4, <2>6, AliasCorrect
    <3>4. ~Eagerly(g, n)
      BY <1>8 DEF Eagerly
    <3>5. CASE n = x
      <4>1. h = a
        BY <3>5, <1>3, <1>4, <1>9 DEF Home
      <4>2. FromLibs(v, n) = NULL
        BY <3>2, <2>3 DEF FromLibs
      <4>3. tab'.sym[n] = h
        BY <4>1, <4>2, <3>2, <3>5, <2>1, <2>3, BindOwned
      <4>4. tab'.lazy[n].st = "ready"
        BY <3>5, <2>2, <2>3, <2>4
      <4>5. Home(tab', code, g, n) = h
        BY <4>3, <4>4, <3>4 DEF Home
      <4>6. ~Early(g, n)
        <5>1. tab.lazy[n].st = "compiling"
          BY <3>5, <1>3, <1>9
        <5>2. g.k # "decls"
          BY <5>1, <1>1, StageMeans
        <5> QED
          BY <5>1, <5>2, <3>1 DEF Staged, Early
      <4> HIDE DEF h, g
      <4>7. Settled(tab', code, n, h)
        BY <4>3, <3>1, <3>3 DEF Settled
      <4>8. Staged(tab', g, n, h)
        BY <4>4, <4>6, <3>4 DEF Staged
      <4> QED
        BY <4>5, <4>7, <4>8 DEF Owned, g
    <3>6. CASE n # x
      <4>1. tab'.lazy[n] = tab.lazy[n] /\ tab'.sym[n] = tab.sym[n]
        BY <3>6, <2>3, <2>4
      <4>2. Home(tab', code, g, n) = h
        BY <4>1 DEF Home
      <4> HIDE DEF h, g
      <4>3. Settled(tab', code, n, h) /\ Staged(tab', g, n, h)
        BY <4>1, <3>1, <3>3 DEF Settled, Staged
      <4> QED
        BY <4>2, <4>3 DEF Owned, g
    <3> QED
      BY <3>5, <3>6
  <2>8. ASSUME NEW n \in Names, ~Defined(n), ~Defined(Alias(n)), Outside(tab, code, n)
        PROVE  Outside(tab', code, n)
    <3>1. n # x /\ Alias(n) # x
      BY <2>6, <2>8
    <3> QED
      BY <3>1, <2>4, <2>8, AliasCorrect, OutsideStays, ExtendsSame
  <2>9. AgreeInv'
    <3>1. /\ \A n \in Names : OneOwner(n) /\ Defined(n) /\ Owned(tab, code, Stage(stack), n)
                                 => Owned(tab', code', Stage(stack'), n)
          /\ \A n \in Names : ~Defined(n) /\ ~Defined(Alias(n))
                                 => (Outside(tab, code, n) => Outside(tab', code', n))
      BY <2>7, <2>8, <1>2, <1>7
    <3>2. added' = added /\ (~failed' => ~failed)
      BY <1>2
    <3> QED
      BY <3>1, <3>2, AgreeStep
  <2> QED
    BY <2>5, <2>9
<1>10. CodeAddr(Top.idx) \in Address
  BY <1>3 DEF Address
<1> QED
  BY <1>3, <1>7, <1>9, <1>10

-----------------------------------------------------------------------------
(***************************************************************************)
(* lr_jit_add_symbol, lr_jit_load_library and lr_jit_add_module            *)
(***************************************************************************)

\* The address a provider gave to a name is not replaced by the client's.
LEMMA UserBinds ==
    ASSUME NEW v \in Tab, NEW n \in Names, OneOwner(n), n \in UserNames,
           v.sym[n] \in UserVals(v, n), NEW w, w = Bind(v, n, UserAddr(n))
    PROVE  w.sym[n] \in UserVals(v, n) /\ v.sym[n] \in {NULL, w.sym[n]}
<1>1. UserAddr(n) \in Address /\ HostAddr(n) \in Address /\ LibAddr(n) \in Address
  BY DEF Address
<1>2. UserAddr(n) # NULL /\ HostAddr(n) # NULL /\ LibAddr(n) # NULL
  BY <1>1, JitAssumption
<1>3. w.sym[n] = UserAddr(n) \/ (PreserveHost(v, n) /\ w = v)
  BY DEF Bind, Tab
<1>4. UserAddr(n) \in UserVals(v, n)
  BY DEF UserVals
<1>5. Alias(n) \notin HostNames /\ ~(n \in HostNames /\ n \in LibNames)
  BY UserOwner
<1>6. NULL \notin Names
  BY JitAssumption
<1>7. ASSUME v.sym[n] \notin {NULL, UserAddr(n)}
      PROVE  PreserveHost(v, n)
  <2>1. CASE n \in HostNames /\ v.sym[n] = HostAddr(n)
    <3>1. FromProcess(n) = HostAddr(n)
      BY <2>1, <1>6 DEF FromProcess, Exported
    <3> QED
      BY <3>1, <2>1, <1>2 DEF PreserveHost
  <2>2. CASE v.libs /\ n \in LibNames /\ v.sym[n] = LibAddr(n)
    <3>1. FromLibs(v, n) = LibAddr(n)
      BY <2>2, <1>6 DEF FromLibs, Exported
    <3>2. n \notin HostNames
      BY <2>2, <1>5
    <3>3. FromProcess(n) = NULL
      BY <3>2, <1>5 DEF FromProcess, Exported
    <3> QED
      BY <3>1, <3>3, <2>2, <1>2 DEF PreserveHost
  <2> QED
    BY <1>7, <2>1, <2>2 DEF UserVals
<1>8. PreserveHost(v, n) => w = v
  BY DEF Bind
<1> QED
  BY <1>3, <1>4, <1>7, <1>8

LEMMA AddSymbolKeeps ==
    ASSUME AInv, NEW u \in UserNames, AddSymbol(u)
    PROVE  ModeInv' /\ DefInv' /\ AgreeInv'
<1>1. JInv /\ ModeInv /\ DefInv /\ TypeInv /\ tab \in Tab
  BY DEF AInv, JInv, TypeInv
<1>2. /\ stack = <<>> /\ stack' = stack /\ UNCHANGED <<code, added, failed>>
      /\ tab' = Bind(tab, u, UserAddr(u))
  BY DEF AddSymbol, Idle
<1>3. u \in Names /\ UserAddr(u) \in Address
  BY JitAssumption DEF Address
<1>4. /\ tab' \in Tab /\ tab'.lazy = tab.lazy /\ tab'.libs = tab.libs /\ tab'.mode = tab.mode
      /\ \A y \in Names : y # u => tab'.sym[y] = tab.sym[y]
  BY <1>1, <1>2, <1>3, BindCorrect
<1>5. ModeInv'
  BY <1>1, <1>2, <1>4, ModeStays
<1>6. DefInv'
  BY <1>1, <1>2, DefStays
<1>7. ASSUME NEW n \in Names, OneOwner(n), Defined(n), Owned(tab, code, Stage(stack), n)
      PROVE  Owned(tab', code, Stage(stack), n)
  <2> DEFINE h == Home(tab, code, Stage(stack), n)
  <2>1. Settled(tab, code, n, h) /\ Staged(tab, Stage(stack), n, h)
    BY <1>7 DEF Owned
  <2>2. n # u /\ Alias(n) # u
    BY <2>1, <1>1, <1>7, OwnedMeans
  <2>3. tab'.sym[n] = tab.sym[n] /\ tab'.sym[Alias(n)] = tab.sym[Alias(n)]
    BY <2>2, <1>4, AliasCorrect
  <2> QED
    BY <2>1, <2>3, <1>1, <1>4, <1>7, OwnedStays DEF Settled
<1>8. ASSUME NEW n \in Names, OneOwner(n), Outside(tab, code, n)
      PROVE  Outside(tab', code, n)
  <2>1. Alias(n) \in Names /\ Alias(n) # n
    BY AliasCorrect
  <2>2. UserVals(tab', n) = UserVals(tab, n)
    BY <1>4 DEF UserVals
  <2>3. CASE n # u /\ Alias(n) # u
    BY <2>1, <2>3, <1>4, <1>8, OutsideStays, ExtendsSame
  <2>4. CASE n = u
    <3>1. tab.sym[n] \in UserVals(tab, n) /\ tab.sym[Alias(n)] \in UserVals(tab, n)
      BY <2>4, <1>8 DEF Outside
    <3>2. tab'.sym[n] \in UserVals(tab, n) /\ tab.sym[n] \in {NULL, tab'.sym[n]}
      BY <3>1, <2>4, <1>1, <1>2, <1>8, UserBinds
    <3>3. tab'.sym[Alias(n)] = tab.sym[Alias(n)]
      BY <2>1, <2>4, <1>4
    <3>4. CallsGo(code, n, tab'.sym[n])
      <4>1. CallsGo(code, n, tab.sym[n]) /\ Extends(code, code, n, NULL)
        BY <1>8, ExtendsSame DEF Outside
      <4> QED
        BY <4>1, <3>2, CallsGoStep
    <3>5. Offers(n) # {}
      BY <2>4, NoOwner
    <3> QED
      BY <3>1, <3>2, <3>3, <3>4, <3>5, <2>2 DEF Outside
  <2>5. CASE Alias(n) = u
    <3>1. n \notin UserNames
      BY <2>5, <1>8, UserOwner
    <3>2. tab'.sym[n] = tab.sym[n]
      BY <2>1, <2>5, <1>4
    <3> QED
      BY <3>1, <3>2, <1>8 DEF Outside
  <2> QED
    BY <2>3, <2>4, <2>5
<1>9. AgreeInv'
  <2>1. /\ \A n \in Names : OneOwner(n) /\ Defined(n) /\ Owned(tab, code, Stage(stack), n)
                               => Owned(tab', code', Stage(stack'), n)
        /\ \A n \in Names : OneOwner(n) => (Outside(tab, code, n) => Outside(tab', code', n))
    BY <1>2, <1>7, <1>8
  <2>2. added' = added /\ (~failed' => ~failed)
    BY <1>2
  <2> QED
    BY <2>1, <2>2, AgreeStep
<1> QED
  BY <1>5, <1>6, <1>9

LEMMA LoadLibraryKeeps ==
    ASSUME AInv, LoadLibrary
    PROVE  ModeInv' /\ DefInv' /\ AgreeInv'
<1>1. JInv /\ ModeInv /\ DefInv /\ TypeInv /\ tab \in Tab
  BY DEF AInv, JInv, TypeInv
<1>2. /\ stack = <<>> /\ stack' = stack /\ UNCHANGED <<code, added, failed>>
      /\ tab' = [tab EXCEPT !.libs = TRUE, !.miss = {}] /\ ~tab.libs
  BY DEF LoadLibrary, Idle
<1>3. tab'.sym = tab.sym /\ tab'.lazy = tab.lazy /\ tab'.mode = tab.mode
  BY <1>1, <1>2 DEF Tab
<1>4. ModeInv'
  BY <1>1, <1>2, <1>3, ModeStays
<1>5. DefInv'
  BY <1>1, <1>2, DefStays
<1>6. ASSUME NEW n \in Names, Owned(tab, code, Stage(stack), n)
      PROVE  Owned(tab', code, Stage(stack), n)
  BY <1>3, <1>6 DEF Owned, Settled, Staged, Home
<1>7. ASSUME NEW n \in Names, Outside(tab, code, n)
      PROVE  Outside(tab', code, n)
  <2>1. UserVals(tab, n) \subseteq UserVals(tab', n)
    BY <1>2 DEF UserVals
  <2> QED
    BY <2>1, <1>3, <1>7 DEF Outside
<1>8. AgreeInv'
  <2>1. /\ \A n \in Names : Owned(tab, code, Stage(stack), n) => Owned(tab', code', Stage(stack'), n)
        /\ \A n \in Names : Outside(tab, code, n) => Outside(tab', code', n)
    BY <1>2, <1>6, <1>7
  <2>2. added' = added /\ (~failed' => ~failed)
    BY <1>2
  <2> QED
    BY <2>1, <2>2, AgreeStep
<1> QED
  BY <1>4, <1>5, <1>8

\* A new module is one more owner of what it defines.
LEMMA OffersGrow ==
    ASSUME NEW n \in Names, NEW m, m \notin added, added' = added \cup {m}
    PROVE  /\ Offers(n) \subseteq Offers(n)'
           /\ n \in Defines(m) => <<"module", m, n>> \in Offers(n)'
           /\ <<"module", m, n>> \notin Offers(n)
<1> DEFINE Q == {<<"user", UserNames>>, <<"host", HostNames>>, <<"lib", LibNames>>}
           M(A, t) == {<<"module", k, t>> : k \in {k \in A : t \in Defines(k)}}
           P(t) == {<<q[1], q[2], t>> : q \in {q \in Q : t \in q[2]}}
<1>1. Offers(n) = UNION {M(added, t) \cup P(t) : t \in {n, Alias(n)}}
  BY DEF Offers
<1>2. Offers(n)' = UNION {M(added', t) \cup P(t) : t \in {n, Alias(n)}}
  BY DEF Offers
<1>3. \A t : M(added, t) \subseteq M(added', t)
  OBVIOUS
<1>4. n \in Defines(m) => <<"module", m, n>> \in M(added', n)
  OBVIOUS
<1>5. \A t : <<"module", m, n>> \notin M(added, t)
  OBVIOUS
<1>6. \A t : <<"module", m, n>> \notin P(t)
  <2> SUFFICES ASSUME NEW t, NEW q \in Q, <<"module", m, n>> = <<q[1], q[2], t>>
               PROVE  FALSE
    OBVIOUS
  <2>1. q[1] = "module"
    OBVIOUS
  <2>2. q[1] \in {"user", "host", "lib"}
    OBVIOUS
  <2> QED
    BY <2>1, <2>2
<1> HIDE DEF M, P
<1>7. Offers(n) \subseteq Offers(n)'
  BY <1>1, <1>2, <1>3
<1>8. n \in Defines(m) => <<"module", m, n>> \in Offers(n)'
  BY <1>2, <1>4
<1>9. <<"module", m, n>> \notin Offers(n)
  BY <1>1, <1>5, <1>6
<1> QED
  BY <1>7, <1>8, <1>9

\* If it is the only one, nobody offered the name before.
LEMMA NewOwner ==
    ASSUME NEW n \in Names, NEW m, m \notin added, added' = added \cup {m}, OneOwner(n)'
    PROVE  OneOwner(n) /\ (n \in Defines(m) => Offers(n) = {})
<1> DEFINE o == <<"module", m, n>>
<1>1. /\ Offers(n) \subseteq Offers(n)' /\ (n \in Defines(m) => o \in Offers(n)')
      /\ o \notin Offers(n)
  BY OffersGrow
<1>2. OneOwner(n)
  BY <1>1 DEF OneOwner
<1>3. o[1] = "module" /\ \A x : {x, "module"} \notin {{"user", "host"}, {"user", "lib"}}
  OBVIOUS
<1> HIDE DEF o
<1>4. o \in Offers(n)' => \A p \in Offers(n)' : p = o
  BY <1>3 DEF OneOwner
<1> QED
  BY <1>1, <1>2, <1>4

LEMMA AddModuleKeeps ==
    ASSUME AInv, NEW m \in Modules, AddModule(m)
    PROVE  ModeInv' /\ DefInv' /\ AgreeInv'
<1> DEFINE f == AddFrame("register", m, 0, 0)
<1>1. JInv /\ ModeInv /\ TypeInv /\ ShapeInv /\ LazyInv /\ tab \in Tab
  BY DEF AInv, JInv, TypeInv
<1>2. /\ stack = <<>> /\ m \notin added /\ added' = added \cup {m}
      /\ UNCHANGED <<tab, code, failed>> /\ stack' = <<f, GlobFrame(m)>>
  BY DEF AddModule, Idle
<1>3. f.k = "register" /\ f.mod = m
  BY DEF AddFrame, Frame
<1> HIDE DEF f
<1>4. stack' # <<>> /\ stack'[1] = f
  BY <1>2
<1>5. Stage(stack').k = "register" /\ Stage(stack').mod = m
  BY <1>3, <1>4, StageSingle
<1>6. Stage(stack).k = "end"
  BY <1>2 DEF Stage, NoStage
<1>7. ModeInv'
  BY <1>1, <1>2, <1>5 DEF ModeInv
<1>8. DefInv'
  BY <1>3, <1>4 DEF DefInv
<1>9. ASSUME ~failed, NEW n \in Names, OneOwner(n)'
      PROVE  /\ Defined(n)' => Owned(tab, code, Stage(stack'), n)
             /\ ~Defined(n)' /\ ~Defined(Alias(n))' => Outside(tab, code, n)
  <2>1. Agree(tab, code, Stage(stack), n) /\ Agree(tab, code, Stage(stack), Alias(n))
    BY <1>9, AliasCorrect DEF AInv, AgreeInv
  <2>2. OneOwner(n) /\ (n \in Defines(m) => Offers(n) = {})
    BY <1>2, <1>9, NewOwner
  <2>3. Defined(n)' <=> Defined(n) \/ n \in Defines(m)
    BY <1>2 DEF Defined
  <2>4. Defined(Alias(n)) => Defined(Alias(n))'
    BY <1>2 DEF Defined
  <2>5. tab.lazy[n].st # "compiling"
    BY <1>1, <1>2, NothingCompiling
  <2>6. Home(tab, code, Stage(stack), n) = tab.sym[n] /\ Home(tab, code, Stage(stack'), n) = tab.sym[n]
    BY <2>5, <1>5, <1>6 DEF Home, Eagerly
  <2>7. ASSUME n \in Defines(m)
        PROVE  Owned(tab, code, Stage(stack'), n)
    <3>1. /\ ~Defined(n) /\ ~Defined(Alias(n)) /\ OneOwner(Alias(n))
          /\ Offers(n) = {} /\ Offers(Alias(n)) = {} /\ ~Defined(Alias(Alias(n)))
      BY <2>2, <2>7, NoOwner, AliasCorrect
    <3>2. Outside(tab, code, n) /\ Outside(tab, code, Alias(n))
      BY <3>1, <2>1, <2>2 DEF Agree
    <3>3. tab.sym[n] = NULL /\ tab.sym[Alias(n)] = NULL
      BY <3>1, <3>2 DEF Outside
    <3>4. Settled(tab, code, n, tab.sym[n])
      BY <3>2, <3>3 DEF Settled, Outside
    <3>5. tab.lazy[n].st = "none"
      BY <3>1, <1>1 DEF LazyInv, Defined
    <3>6. Staged(tab, Stage(stack'), n, tab.sym[n])
      BY <3>3, <3>5, <1>5 DEF Staged, Eagerly
    <3> QED
      BY <3>4, <3>6, <2>6 DEF Owned
  <2>8. ASSUME Defined(n), n \notin Defines(m)
        PROVE  Owned(tab, code, Stage(stack'), n)
    <3>1. Settled(tab, code, n, tab.sym[n]) /\ Staged(tab, Stage(stack), n, tab.sym[n])
      BY <2>1, <2>2, <2>6, <2>8 DEF Agree, Owned
    <3>2. Staged(tab, Stage(stack'), n, tab.sym[n])
      BY <3>1, <2>8, <1>5 DEF Staged, Eagerly, Early
    <3> QED
      BY <3>1, <3>2, <2>6 DEF Owned
  <2>9. ~Defined(n)' /\ ~Defined(Alias(n))' => Outside(tab, code, n)
    BY <2>1, <2>2, <2>3, <2>4 DEF Agree
  <2> QED
    BY <2>3, <2>7, <2>8, <2>9
<1>10. ASSUME ~failed', NEW n \in Names
       PROVE  Agree(tab, code, Stage(stack), n)'
  <2> SUFFICES ASSUME OneOwner(n)'
               PROVE  /\ Defined(n)' => Owned(tab, code, Stage(stack), n)'
                      /\ ~Defined(n)' /\ ~Defined(Alias(n))' => Outside(tab, code, n)'
    BY DEF Agree
  <2>1. Offers(n) \subseteq Offers(n)'
    BY <1>2, OffersGrow
  <2>2. Outside(tab, code, n) => Outside(tab, code, n)'
    BY <2>1, <1>2 DEF Outside
  <2>3. Owned(tab, code, Stage(stack'), n) => Owned(tab, code, Stage(stack), n)'
    BY <1>2
  <2> QED
    BY <2>2, <2>3, <1>2, <1>9, <1>10
<1>11. AgreeInv'
  BY <1>10 DEF AgreeInv
<1> QED
  BY <1>7, <1>8, <1>11

-----------------------------------------------------------------------------
(***************************************************************************)
(* The theorem                                                             *)
(***************************************************************************)

\* Only what is remembered as a failure returns one.
LEMMA FailKeeps ==
    ASSUME FailInv, Next
    PROVE  FailInv'
<1>1. ASSUME NEW n, NEW v, NEW s, Enter(n, v, s)
      PROVE  FailInv'
  <2>1. CASE Fits(Len(code) + 1)
    BY <1>1, <2>1 DEF Enter, FailInv
  <2>2. CASE ~Fits(Len(code) + 1)
    BY <1>1, <2>2 DEF Enter, FailInv
  <2> QED
    BY <2>1, <2>2
<1>2. ASSUME NEW v, LeaveFailed(v)
      PROVE  FailInv'
  BY <1>2 DEF LeaveFailed, FailInv
<1>3. CASE Call
  <2>1. ASSUME NEW n \in GetNames, GetLazy(n)
        PROVE  FailInv'
    BY <2>1, <1>1 DEF GetLazy
  <2>2. ASSUME rc' = rc, failed' = failed
        PROVE  FailInv'
    BY <2>2 DEF FailInv
  <2> QED
    BY <2>1, <2>2, <1>3 DEF Call, AddModule, AddSymbol, LoadLibrary, GetSymbol, GetDefined
<1>4. CASE GlobMaterialize \/ DefMaterialize
  BY <1>1, <1>4 DEF GlobMaterialize, DefMaterialize
<1>5. CASE MatMissing
  <2>1. \/ Enter(MatCall, TargetView(MatOwn, MatCall), Append(Below, [Top EXCEPT !.pc = 1]))
        \/ LeaveFailed(TargetView(MatOwn, MatCall))
    BY <1>5 DEF MatMissing
  <2> QED
    BY <2>1, <1>1, <1>2
<1>6. CASE MatDependencyFailed
  BY <1>2, <1>6 DEF MatDependencyFailed
<1>7. CASE \/ MatPatch \/ MatDone \/ GlobWrite \/ GlobSkip \/ GlobDone \/ Register
           \/ AddModuleReturns \/ GetReturns \/ DefFound \/ DefNext
  <2>1. rc' # "fail"
    BY <1>7 DEF MatPatch, MatDone, GlobWrite, GlobSkip, GlobDone, Register, AddModuleReturns,
                GetReturns, DefFound, DefNext
  <2> QED
    BY <2>1 DEF FailInv
<1>8. CASE \/ ResolveDecl \/ RegisteredLazy \/ CompileEager \/ PatchEager \/ PatchNext
           \/ Patched \/ PublishEager \/ Published
  <2>1. CASE CompileEager
    BY <2>1 DEF CompileEager, FailInv
  <2>2. CASE PatchEager
    <3>1. rc' = rc /\ (failed' = failed \/ failed' = TRUE)
      BY <2>2 DEF PatchEager
    <3> QED
      BY <3>1 DEF FailInv
  <2>3. ASSUME rc' = rc, failed' = failed
        PROVE  FailInv'
    BY <2>3 DEF FailInv
  <2> QED
    BY <2>1, <2>2, <2>3, <1>8
    DEF ResolveDecl, RegisteredLazy, PatchNext, Patched, PublishEager, Published
<1> QED
  BY <1>3, <1>4, <1>5, <1>6, <1>7, <1>8 DEF Next, Step

\* In a JIT that was just created there is nothing to agree about.
LEMMA InitAInv ==
    Init => AInv
<1> SUFFICES ASSUME Init
             PROVE  AInv
  OBVIOUS
<1>1. JInv
  BY InitJInv
<1>2. PICK mode \in LazyModes :
         tab = [sym |-> [n \in Names |-> NULL], miss |-> {}, libs |-> FALSE, mode |-> mode,
                lazy |-> [n \in Names |-> [st |-> "none", mod |-> NULL, addr |-> NULL]]]
  BY DEF Init
<1>3. \A n \in Names : tab.sym[n] = NULL /\ tab.lazy[n].st = "none"
  BY <1>2
<1>4. code = <<>> /\ DOMAIN code = {} /\ stack = <<>> /\ added = {} /\ rc = "none"
  BY DEF Init
<1>5. ModeInv /\ DefInv /\ FailInv
  BY <1>3, <1>4 DEF ModeInv, Stage, NoStage, DefInv, FailInv
<1>6. ASSUME NEW n \in Names
      PROVE  Agree(tab, code, Stage(stack), n)
  <2>1. ~Defined(n)
    BY <1>4 DEF Defined
  <2>2. CallsGo(code, n, NULL)
    BY <1>4 DEF CallsGo
  <2>3. tab.sym[n] = NULL /\ tab.sym[Alias(n)] = NULL
    BY <1>3, AliasCorrect
  <2> QED
    BY <2>1, <2>2, <2>3 DEF Agree, Outside, UserVals
<1> QED
  BY <1>1, <1>5, <1>6 DEF AInv, AgreeInv

\* Every step keeps the agreement.
LEMMA StepAInv ==
    AInv /\ [Next]_vars => AInv'
<1> SUFFICES ASSUME AInv, [Next]_vars
             PROVE  AInv'
  OBVIOUS
<1>1. JInv'
  BY StepJInv DEF AInv
<1>2. CASE UNCHANGED vars
  <2>1. /\ tab' = tab /\ code' = code /\ stack' = stack /\ added' = added
        /\ rc' = rc /\ failed' = failed
    BY <1>2 DEF vars
  <2>2. ModeInv' /\ FailInv'
    BY <2>1 DEF AInv, ModeInv, FailInv
  <2>3. DefInv'
    <3>1. \A n : Defined(n)' <=> Defined(n)
      BY <2>1 DEF Defined
    <3> QED
      BY <3>1, <2>1 DEF AInv, DefInv
  <2>4. AgreeInv'
    BY <2>1, AgreeNext DEF AInv, AgreeInv
  <2> QED
    BY <1>1, <2>2, <2>3, <2>4 DEF AInv
<1>3. CASE Next
  <2>1. FailInv'
    BY <1>3, FailKeeps DEF AInv
  <2>2. CASE Call
    <3>1. ModeInv' /\ DefInv' /\ AgreeInv'
      BY <2>2, AddModuleKeeps, AddSymbolKeeps, LoadLibraryKeeps, GetKeeps, GetLazyKeeps DEF Call
    <3> QED
      BY <3>1, <2>1, <1>1 DEF AInv
  <2>3. CASE \/ MatPatch \/ MatMissing \/ MatDone \/ MatDependencyFailed
             \/ GlobMaterialize \/ GlobWrite \/ GlobSkip \/ GlobDone
             \/ GetReturns \/ DefMaterialize \/ DefFound \/ DefNext
    <3>1. ModeInv' /\ DefInv' /\ AgreeInv'
      BY <2>3, MatPatchKeeps, MatMissingKeeps, MatDoneKeeps, MatDependencyFailedKeeps,
         MaterializeKeeps, LoopsKeep, DefFoundKeeps, GetKeeps
    <3> QED
      BY <3>1, <2>1, <1>1 DEF AInv
  <2>4. CASE \/ Register \/ ResolveDecl \/ RegisteredLazy \/ CompileEager \/ PatchEager
             \/ PatchNext \/ Patched \/ PublishEager \/ Published \/ AddModuleReturns
    <3>1. ModeInv' /\ DefInv' /\ AgreeInv'
      BY <2>4, RegisterKeeps, LoopsKeep, LastKeeps, CompileEagerKeeps, PatchEagerKeeps,
         PatchedKeeps, PublishEagerKeeps
    <3> QED
      BY <3>1, <2>1, <1>1 DEF AInv
  <2> QED
    BY <1>3, <2>2, <2>3, <2>4 DEF Next, Step
<1> QED
  BY <1>2, <1>3

\* The one owner of a name may own its other spelling.
LEMMA OtherSpelling ==
    ASSUME NEW n \in Names, OneOwner(n), Defined(Alias(n))
    PROVE  OneOwner(Alias(n))
<1>1. PICK m \in added : Alias(n) \in Defines(m)
  BY DEF Defined
<1> DEFINE o == <<"module", m, Alias(n)>>
<1>2. o \in Offers(n)
  BY <1>1, OffersMeans
<1>3. o[1] = "module" /\ \A x : {x, "module"} \notin {{"user", "host"}, {"user", "lib"}}
  OBVIOUS
<1> HIDE DEF o
<1>4. \A p \in Offers(n) : p = o
  BY <1>2, <1>3 DEF OneOwner
<1> QED
  BY <1>4, OffersSymmetric DEF OneOwner

\* Between two calls the agreement is what the property says.
LEMMA AgreeMeans ==
    AInv => CallsAgreeWithTable
<1> SUFFICES ASSUME AInv, Idle, ~failed, NEW i \in DOMAIN code, NEW c \in DOMAIN code[i].to,
                    OneOwner(code[i].calls[c])
             PROVE  code[i].to[c] = tab.sym[code[i].calls[c]]
  BY DEF CallsAgreeWithTable, sym
<1>1. JInv /\ TypeInv /\ ShapeInv /\ LazyInv /\ WorkInv /\ stack = <<>>
  BY DEF AInv, JInv, Idle
<1>2. code[i].to[c] # NULL
  <2>1. DOMAIN stack = {}
    BY <1>1
  <2>2. Bound(i)
    BY <2>1, <1>1 DEF WorkInv
  <2> QED
    BY <2>2 DEF Bound, Range
<1>3. code[i].calls[c] \in Names
  <2>1. code[i] \in Code /\ Len(code[i].to) = Len(code[i].calls)
    BY <1>1, ElementOfSeq DEF TypeInv
  <2>2. code[i].calls \in Seq(Names) /\ c \in 1 .. Len(code[i].calls)
    BY <2>1 DEF Code
  <2> QED
    BY <2>2, ElementOfSeq
<1>4. ASSUME NEW n \in Names, n = code[i].calls[c], OneOwner(n)
      PROVE  code[i].to[c] = tab.sym[n]
  <2>1. Alias(n) \in Names /\ Alias(Alias(n)) = n
    BY AliasCorrect
  <2>2. Agree(tab, code, Stage(stack), n) /\ Agree(tab, code, Stage(stack), Alias(n))
    BY <2>1 DEF AInv, AgreeInv
  <2>3. CASE Defined(n)
    <3>1. tab.lazy[n].st # "compiling"
      BY <1>1, NothingCompiling
    <3>2. Stage(stack).k = "end"
      BY <1>1 DEF Stage, NoStage
    <3>3. Home(tab, code, Stage(stack), n) = tab.sym[n]
      BY <3>1, <3>2 DEF Home, Eagerly
    <3>4. CallsGo(code, n, tab.sym[n])
      BY <3>3, <2>2, <2>3, <1>4 DEF Agree, Owned, Settled
    <3> QED
      BY <3>4, <1>2, <1>4 DEF CallsGo
  <2>4. CASE Defined(Alias(n))
    <3>1. OneOwner(Alias(n))
      BY <2>4, <1>4, OtherSpelling
    <3>2. CallsGo(code, n, tab.sym[n])
      BY <3>1, <2>1, <2>2, <2>4 DEF Agree, Owned, Settled
    <3> QED
      BY <3>2, <1>2, <1>4 DEF CallsGo
  <2>5. CASE ~Defined(n) /\ ~Defined(Alias(n))
    <3>1. CallsGo(code, n, tab.sym[n])
      BY <2>2, <2>5, <1>4 DEF Agree, Outside
    <3> QED
      BY <3>1, <1>2, <1>4 DEF CallsGo
  <2> QED
    BY <2>3, <2>4, <2>5
<1> QED
  BY <1>3, <1>4

\* In every behaviour of the JIT, in lazy and in eager mode and whatever the
\* modules are: as long as nothing failed, the calls of a name with one owner all
\* go where lr_jit_get_function finds the name, in whatever order it was bound,
\* looked up, compiled and called.
THEOREM CallsAndTableAgree ==
    Spec => []CallsAgreeWithTable
<1>1. Spec => []AInv
  BY InitAInv, StepAInv, PTL DEF Spec
<1>2. AInv => CallsAgreeWithTable
  BY AgreeMeans
<1> QED
  BY <1>1, <1>2, PTL
=============================================================================
