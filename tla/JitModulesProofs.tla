------------------------- MODULE JitModulesProofs -------------------------
(***************************************************************************)
(* Proofs about JitModules: in every behaviour the symbol table points to  *)
(* code whose calls are bound (PublishedBound), and the miss cache hides   *)
(* nothing that a library or the process exports (ProvidedIsFound).        *)
(*                                                                         *)
(* Neither is inductive.  JInv adds what the C call stack guarantees:      *)
(* which frames may lie over which (ShapeInv), that a function is          *)
(* COMPILING exactly while a frame materializes it, its calls bound in     *)
(* order (LazyInv, MatInv), how far the passes of an eager add_module have *)
(* come (EagerInv), that the table and unbound code are accounted for      *)
(* (PublishedInv, WorkInv), that code calls only names its module mentions *)
(* (CallsInv), and why a name may be in the miss cache (MissInv).          *)
(***************************************************************************)
EXTENDS JitModules, SequenceTheorems, TLAPS

LazyEntry == [st : {"none", "pending", "compiling", "ready"},
              mod : Modules \cup {NULL}, addr : Address \cup {NULL}]
Tab == [sym : [Names -> Address \cup {NULL}], miss : SUBSET Names,
        lazy : [Names -> LazyEntry], libs : BOOLEAN, mode : BOOLEAN]
Code == [fn : Names, calls : Seq(Names), to : Seq(Address \cup {NULL})]

BaseKinds == {"register", "decls", "patch", "publish", "end", "get", "def"}
FrameType == [k : BaseKinds \cup {"glob", "mat"}, name : Names \cup {NULL},
              mod : Modules \cup {NULL}, idx : Nat, pc : Nat]

TypeInv ==
    /\ tab \in Tab
    /\ code \in Seq(Code) /\ Len(code) <= CodeCap
    /\ \A i \in DOMAIN code : Len(code[i].to) = Len(code[i].calls)
    /\ stack \in Seq(FrameType)
    /\ added \subseteq Modules

\* A stack is one API call and, above it, materializations and passes over
\* globals; most stages of lr_jit_add_module call nothing.
FrameOK(d, f, len, mods) ==
    /\ f.k \in (IF d = 1 THEN BaseKinds ELSE {"glob", "mat"})
    /\ f.k \in {"decls", "patch", "publish"} => len = 1
    /\ f.k \in {"get", "def"} => f.name \in Names
    /\ f.k \notin {"get", "def"} => f.mod \in mods
    /\ f.k \in {"glob", "mat", "decls", "patch", "publish"} => f.pc # 0

ShapeInv == \A d \in DOMAIN stack : FrameOK(d, stack[d], Len(stack), added)

\* The frame d materializes the function n.
Materializes(d, n) == stack[d].k = "mat" /\ stack[d].name = n

\* A function is COMPILING while it is on the stack.
LazyInv ==
    \A n \in Names :
        /\ tab.lazy[n].st # "none" =>
              tab.lazy[n].mod \in added /\ n \in Defines(tab.lazy[n].mod)
        /\ tab.lazy[n].st = "compiling" => \E d \in DOMAIN stack : Materializes(d, n)

\* What is on the stack once, COMPILING, with the calls before pc bound.
MatInv ==
    /\ \A d \in DOMAIN stack : stack[d].k = "mat" =>
          /\ stack[d].name \in Names /\ stack[d].idx \in DOMAIN code
          /\ tab.lazy[stack[d].name].st = "compiling"
          /\ tab.lazy[stack[d].name].addr = CodeAddr(stack[d].idx)
          /\ \A c \in DOMAIN code[stack[d].idx].to :
                c < stack[d].pc => code[stack[d].idx].to[c] # NULL
    /\ \A d, e \in DOMAIN stack :
          stack[d].k = "mat" /\ stack[e].k = "mat" /\ stack[d].name = stack[e].name => d = e

\* The code of the module that is being compiled eagerly.
Last(k) == Len(code) - Len(ModFuncs[stack[1].mod]) + k

\* Its functions are patched one after the other.
EagerFunc(k) ==
    /\ code[Last(k)].calls = ModFuncs[stack[1].mod][k].calls
    /\ stack[1].k = "publish" \/ k < stack[1].idx => Bound(Last(k))
    /\ stack[1].k = "patch" /\ k = stack[1].idx =>
          \A c \in DOMAIN code[Last(k)].to : c < stack[1].pc => code[Last(k)].to[c] # NULL

EagerInv ==
    stack # <<>> /\ stack[1].k \in {"patch", "publish"} =>
        /\ Len(ModFuncs[stack[1].mod]) <= Len(code)
        /\ stack[1].k = "patch" => stack[1].idx # 0
        /\ \A k \in DOMAIN ModFuncs[stack[1].mod] : EagerFunc(k)

\* The table only has addresses of placed code; under one spelling, of code
\* that is bound.
PublishedInv ==
    \A n \in Names : \A i \in 1 .. CodeCap :
        tab.sym[n] = CodeAddr(i) =>
            /\ i \in DOMAIN code
            /\ ~TwoSpellings(n) => Bound(i)

\* Code that is not bound is on the stack, or its call failed.
WorkInv ==
    ~failed =>
        \A i \in DOMAIN code :
            \/ Bound(i)
            \/ \E d \in DOMAIN stack : stack[d].k = "mat" /\ stack[d].idx = i
            \/ /\ stack # <<>> /\ stack[1].k = "patch"
               /\ i > Last(0)

\* Code calls names its module mentions.
CallsInv ==
    \A i \in DOMAIN code : \A c \in DOMAIN code[i].calls : Mentioned(code[i].calls[c])

\* A name in the miss cache has an address, or nobody provides it, or a module
\* defines it.
MissInv ==
    \A n \in tab.miss :
        \/ tab.sym[n] # NULL
        \/ Provided(tab, n) = NULL
        \/ \E m \in added : n \in Defines(m)

JInv ==
    /\ TypeInv /\ ShapeInv /\ LazyInv /\ MatInv /\ EagerInv
    /\ PublishedInv /\ WorkInv /\ CallsInv /\ MissInv

-----------------------------------------------------------------------------
(***************************************************************************)
(* Resolution                                                              *)
(***************************************************************************)

\* The other spelling of a name.
LEMMA AliasCorrect ==
    ASSUME NEW n \in Names
    PROVE  /\ Alias(n) \in Names
           /\ Alias(Alias(n)) = n
           /\ Alias(n) # n
<1>1. PICK b \in Idents, u \in BOOLEAN : n = <<b, u>>
  BY DEF Names
<1>2. PICK w \in BOOLEAN : w = ~u /\ u = ~w
  BY <1>1
<1>3. Alias(n) = <<b, w>>
  BY <1>1, <1>2 DEF Alias
<1>4. Alias(n) \in Names
  BY <1>3 DEF Names
<1>5. Alias(Alias(n)) = n
  BY <1>1, <1>2, <1>3 DEF Alias
<1>6. Alias(n) # n
  <2>1. w # u
    BY <1>2
  <2>2. Alias(n)[2] = w /\ n[2] = u
    BY <1>1, <1>3
  <2> QED
    BY <2>1, <2>2
<1> QED
  BY <1>4, <1>5, <1>6

\* The providers know host and library addresses.
LEMMA ProvidedCorrect ==
    ASSUME NEW v, NEW n \in Names
    PROVE  /\ Provided(v, n) \in Address \cup {NULL}
           /\ Provided(v, n) # NULL => \A i : Provided(v, n) # CodeAddr(i)
<1>1. /\ Exported(HostNames, n) \in Names \cup {NULL}
      /\ Exported(LibNames, n) \in Names \cup {NULL}
  BY AliasCorrect DEF Exported
<1>2. /\ FromProcess(n) = NULL \/ \E x \in Names : FromProcess(n) = HostAddr(x)
      /\ FromLibs(v, n) = NULL \/ \E x \in Names : FromLibs(v, n) = LibAddr(x)
  BY <1>1 DEF FromProcess, FromLibs
<1>3. \A x \in Names : HostAddr(x) \in Address /\ LibAddr(x) \in Address
  BY DEF Address
<1>4. \A x, i : HostAddr(x) # CodeAddr(i) /\ LibAddr(x) # CodeAddr(i)
  BY DEF HostAddr, LibAddr, CodeAddr
<1> QED
  BY <1>2, <1>3, <1>4 DEF Provided

\* lr_jit_add_symbol enters the address or keeps a provider's.
LEMMA BindCorrect ==
    ASSUME NEW v \in Tab, NEW n \in Names, NEW a \in Address
    PROVE  /\ Bind(v, n, a) \in Tab
           /\ Bind(v, n, a).miss = v.miss /\ Bind(v, n, a).lazy = v.lazy
           /\ Bind(v, n, a).libs = v.libs /\ Bind(v, n, a).mode = v.mode
           /\ \A x \in Names : x # n => Bind(v, n, a).sym[x] = v.sym[x]
           /\ Bind(v, n, a).sym[n] = a \/ (Bind(v, n, a) = v /\ v.sym[n] # NULL)
<1> DEFINE w == [v EXCEPT !.sym[n] = a]
<1>1. /\ w \in Tab /\ w.miss = v.miss /\ w.lazy = v.lazy /\ w.libs = v.libs /\ w.mode = v.mode
      /\ w.sym[n] = a /\ \A x \in Names : x # n => w.sym[x] = v.sym[x]
  BY DEF Tab
<1>2. CASE PreserveHost(v, n)
  BY <1>2 DEF Bind, PreserveHost
<1>3. CASE ~PreserveHost(v, n)
  BY <1>1, <1>3 DEF Bind
<1> QED
  BY <1>2, <1>3

\* The address an exact lookup gives.
LEMMA ExactAddrCorrect ==
    ASSUME NEW v \in Tab, NEW n \in Names
    PROVE  /\ ExactAddr(v, n) \in Address \cup {NULL}
           /\ \/ ExactAddr(v, n) = NULL
              \/ v.lazy[n].st = "compiling" /\ ExactAddr(v, n) = v.lazy[n].addr
              \/ ExactAddr(v, n) = v.sym[n]
              \/ ExactAddr(v, n) = Provided(v, n)
<1>1. /\ v.lazy[n] \in LazyEntry /\ v.sym[n] \in Address \cup {NULL}
      /\ Provided(v, n) \in Address \cup {NULL}
  BY ProvidedCorrect DEF Tab
<1> QED
  BY <1>1 DEF ExactAddr, LazyEntry

\* What it leaves in the table: the address of a provider under a free name, or
\* a name nobody provides in the miss cache.
LEMMA ExactViewCorrect ==
    ASSUME NEW v \in Tab, NEW n \in Names
    PROVE  /\ ExactView(v, n) \in Tab
           /\ ExactView(v, n).lazy = v.lazy /\ ExactView(v, n).libs = v.libs
           /\ ExactView(v, n).mode = v.mode
           /\ \A x \in Names : x # n => ExactView(v, n).sym[x] = v.sym[x]
           /\ \/ ExactView(v, n).sym[n] = v.sym[n]
              \/ /\ v.sym[n] = NULL /\ Provided(v, n) # NULL
                 /\ ExactView(v, n).sym[n] = Provided(v, n)
           /\ ExactView(v, n).miss \subseteq v.miss \cup {n}
           /\ n \in ExactView(v, n).miss => n \in v.miss \/ Provided(v, n) = NULL
<1> DEFINE w == [v EXCEPT !.miss = @ \cup {n}]
           p == Provided(v, n)
<1>1. /\ w \in Tab /\ w.lazy = v.lazy /\ w.libs = v.libs /\ w.mode = v.mode /\ w.sym = v.sym
      /\ w.miss = v.miss \cup {n}
  BY DEF Tab
<1>2. p \in Address \cup {NULL}
  BY ProvidedCorrect
<1>3. CASE ExactView(v, n) = v
  BY <1>3
<1>4. CASE v.sym[n] = NULL /\ p # NULL /\ ExactView(v, n) = Bind(v, n, p)
  BY <1>2, <1>4, BindCorrect
<1>5. CASE p = NULL /\ ExactView(v, n) = w
  BY <1>1, <1>5
<1> QED
  BY <1>3, <1>4, <1>5 DEF ExactView

\* A lookup gives an address of the name or of its other spelling.
LEMMA LookupAddrCorrect ==
    ASSUME NEW v \in Tab, NEW n \in Names
    PROVE  LookupAddr(v, n) \in Address \cup {NULL}
BY ExactAddrCorrect, ExactViewCorrect, AliasCorrect DEF LookupAddr

\* What a lookup of n leaves in the table.  A name gets an address from a
\* provider, or n gets the address of its alias, perhaps of one that is being
\* compiled; no address is taken away.
Looked(v, w, n) ==
    /\ w \in Tab /\ w.lazy = v.lazy /\ w.libs = v.libs /\ w.mode = v.mode
    /\ \A x \in Names :
          \/ w.sym[x] = v.sym[x]
          \/ v.sym[x] = NULL /\ w.sym[x] # NULL /\ \A i : w.sym[x] # CodeAddr(i)
          \/ /\ x = n /\ w.sym[n] # NULL
             /\ \/ \A i : w.sym[n] # CodeAddr(i)
                \/ w.sym[n] = v.sym[Alias(n)]
                \/ v.lazy[Alias(n)].st = "compiling" /\ w.sym[n] = v.lazy[Alias(n)].addr
    /\ \A x \in w.miss : x \in v.miss \/ Provided(v, x) = NULL

\* LookupView leaves such a table.
LEMMA LookupViewCorrect ==
    ASSUME NEW v \in Tab, NEW n \in Names
    PROVE  Looked(v, LookupView(v, n), n)
<1> DEFINE u == ExactView(v, n)
           o == Alias(n)
           a == ExactAddr(u, o)
           w == ExactView(u, o)
<1>1. o \in Names /\ o # n
  BY AliasCorrect
<1>2. /\ u \in Tab /\ u.lazy = v.lazy /\ u.libs = v.libs /\ u.mode = v.mode
      /\ \A x \in Names : x # n => u.sym[x] = v.sym[x]
      /\ \/ u.sym[n] = v.sym[n]
         \/ v.sym[n] = NULL /\ Provided(v, n) # NULL /\ u.sym[n] = Provided(v, n)
      /\ \A x \in u.miss : x \in v.miss \/ Provided(v, x) = NULL
  BY ExactViewCorrect
<1>3. \A x \in Names : Provided(u, x) = Provided(v, x)
  BY <1>2 DEF Provided, FromLibs
<1>4. \A x \in Names : Provided(v, x) # NULL => \A i : Provided(v, x) # CodeAddr(i)
  BY ProvidedCorrect
<1>5. Looked(v, u, n)
  BY <1>2, <1>4 DEF Looked
<1>6. /\ w \in Tab /\ w.lazy = v.lazy /\ w.libs = v.libs /\ w.mode = v.mode
      /\ \A x \in Names : x # o => w.sym[x] = u.sym[x]
      /\ \/ w.sym[o] = u.sym[o]
         \/ u.sym[o] = NULL /\ Provided(v, o) # NULL /\ w.sym[o] = Provided(v, o)
      /\ \A x \in w.miss : x \in u.miss \/ Provided(v, x) = NULL
  BY <1>1, <1>2, <1>3, ExactViewCorrect DEF Tab
<1>7. Looked(v, w, n)
  BY <1>1, <1>2, <1>4, <1>6 DEF Looked
<1>8. CASE a # NULL
  <2>1. a \in Address
    BY <1>1, <1>2, <1>8, ExactAddrCorrect
  <2>2. \/ v.lazy[o].st = "compiling" /\ a = v.lazy[o].addr
        \/ a = v.sym[o]
        \/ a = Provided(v, o)
    BY <1>1, <1>2, <1>3, <1>8, ExactAddrCorrect
  <2> DEFINE z == Bind(w, n, a)
  <2>3. /\ z \in Tab /\ z.miss = w.miss /\ z.lazy = w.lazy /\ z.libs = w.libs /\ z.mode = w.mode
        /\ \A x \in Names : x # n => z.sym[x] = w.sym[x]
        /\ z.sym[n] = a \/ z = w
    BY <2>1, <1>6, BindCorrect
  <2> HIDE DEF z, w, a
  <2>4. Looked(v, z, n)
    BY <2>2, <2>3, <1>4, <1>7, <1>8, <1>1 DEF Looked
  <2> QED
    BY <2>4, <1>5, <1>8 DEF LookupView, z, w, a
<1> QED
  BY <1>5, <1>7, <1>8 DEF LookupView

-----------------------------------------------------------------------------
(***************************************************************************)
(* The stack and the code                                                  *)
(***************************************************************************)

\* The stack without its top.
LEMMA StackCorrect ==
    ASSUME stack \in Seq(FrameType), stack # <<>>
    PROVE  /\ Len(stack) \in Nat \ {0} /\ DOMAIN stack = 1 .. Len(stack)
           /\ Len(stack) \in DOMAIN stack /\ Top \in FrameType
           /\ Below \in Seq(FrameType) /\ Len(Below) = Len(stack) - 1
           /\ DOMAIN Below = 1 .. Len(stack) - 1
           /\ \A d \in 1 .. Len(stack) - 1 : Below[d] = stack[d]
<1>1. Len(stack) \in Nat \ {0} /\ DOMAIN stack = 1 .. Len(stack)
  BY EmptySeq, LenProperties
<1>2. Len(stack) \in DOMAIN stack
  BY <1>1
<1>3. Top \in FrameType
  BY <1>2, ElementOfSeq, <1>1 DEF Top
<1>4. Below \in Seq(FrameType) /\ Len(Below) = Len(stack) - 1
  BY <1>1 DEF Below
<1>5. \A d \in 1 .. Len(stack) - 1 : Below[d] = stack[d]
  BY <1>1 DEF Below
<1>6. DOMAIN Below = 1 .. Len(stack) - 1
  BY <1>4, LenProperties
<1> QED
  BY <1>1, <1>2, <1>3, <1>4, <1>5, <1>6

\* A stack with one more frame.
LEMMA PushCorrect ==
    ASSUME NEW s \in Seq(FrameType), NEW f \in FrameType
    PROVE  /\ Append(s, f) \in Seq(FrameType) /\ Len(Append(s, f)) = Len(s) + 1
           /\ DOMAIN Append(s, f) = 1 .. Len(s) + 1
           /\ \A d \in 1 .. Len(s) : Append(s, f)[d] = s[d]
           /\ Append(s, f)[Len(s) + 1] = f
OBVIOUS

\* A stack with another top.
LEMMA TopCorrect ==
    ASSUME stack \in Seq(FrameType), stack # <<>>, NEW f \in FrameType
    PROVE  /\ Append(Below, f) \in Seq(FrameType) /\ Len(Append(Below, f)) = Len(stack)
           /\ DOMAIN Append(Below, f) = 1 .. Len(stack)
           /\ \A d \in 1 .. Len(stack) - 1 : Append(Below, f)[d] = stack[d]
           /\ Append(Below, f)[Len(stack)] = f
<1>1. /\ Len(stack) \in Nat \ {0} /\ Below \in Seq(FrameType) /\ Len(Below) = Len(stack) - 1
      /\ \A d \in 1 .. Len(stack) - 1 : Below[d] = stack[d]
  BY StackCorrect
<1>2. Len(Below) + 1 = Len(stack)
  BY <1>1
<1> HIDE DEF Below
<1>3. /\ Append(Below, f) \in Seq(FrameType) /\ Len(Append(Below, f)) = Len(Below) + 1
      /\ DOMAIN Append(Below, f) = 1 .. Len(Below) + 1
      /\ \A d \in 1 .. Len(Below) : Append(Below, f)[d] = Below[d]
      /\ Append(Below, f)[Len(Below) + 1] = f
  BY <1>1, PushCorrect
<1> QED
  BY <1>1, <1>2, <1>3

\* Code is placed and calls are bound; nothing else happens to it.
CodeGrows ==
    /\ code' \in Seq(Code) /\ Len(code') <= CodeCap /\ Len(code) <= Len(code')
    /\ \A i \in DOMAIN code' : Len(code'[i].to) = Len(code'[i].calls)
    /\ \A i \in DOMAIN code :
          /\ code'[i].fn = code[i].fn /\ code'[i].calls = code[i].calls
          /\ \A c \in DOMAIN code[i].to : code[i].to[c] # NULL => code'[i].to[c] # NULL

\* Code that does not change, for one.
LEMMA CodeStays ==
    ASSUME TypeInv, code' = code
    PROVE  CodeGrows
BY DEF TypeInv, CodeGrows

\* Bound code stays bound.
LEMMA BoundStays ==
    ASSUME TypeInv, CodeGrows, NEW i \in DOMAIN code
    PROVE  /\ i \in DOMAIN code' /\ DOMAIN code'[i].to = DOMAIN code[i].to
           /\ Bound(i) => Bound(i)'
<1>1. /\ code[i] \in Code /\ i \in DOMAIN code' /\ code'[i] \in Code
      /\ Len(code[i].to) = Len(code[i].calls) /\ Len(code'[i].to) = Len(code'[i].calls)
      /\ code'[i].calls = code[i].calls
  BY DEF TypeInv, CodeGrows
<1>2. DOMAIN code'[i].to = DOMAIN code[i].to
  BY <1>1 DEF Code
<1>3. ASSUME Bound(i) PROVE Bound(i)'
  BY <1>2, <1>3 DEF Bound, Range, CodeGrows
<1> QED
  BY <1>1, <1>2, <1>3

-----------------------------------------------------------------------------
(***************************************************************************)
(* What steps have in common                                               *)
(***************************************************************************)

NotPatching == stack = <<>> \/ stack[1].k # "patch"
NotEager == stack = <<>> \/ stack[1].k \notin {"patch", "publish"}

\* A call that is not in one of these stages.
LEMMA OtherCall ==
    ASSUME TypeInv, ShapeInv, stack = <<>> \/ Top.k \notin {"decls", "patch", "publish"}
    PROVE  NotEager /\ NotPatching
<1>1. CASE stack = <<>>
  BY <1>1 DEF NotEager, NotPatching
<1>2. CASE stack # <<>>
  <2>1. 1 \in DOMAIN stack /\ Top = stack[Len(stack)]
    BY <1>2, StackCorrect DEF TypeInv, Top
  <2>2. stack[1].k \in {"decls", "patch", "publish"} => Len(stack) = 1
    BY <2>1 DEF ShapeInv, FrameOK
  <2> QED
    BY <2>1, <2>2, <1>2 DEF NotEager, NotPatching
<1> QED
  BY <1>1, <1>2

\* The materializations on the stack stay as they are.
MatsSame ==
    \A d \in Nat :
        /\ d \in DOMAIN stack /\ stack[d].k = "mat" =>
              d \in DOMAIN stack' /\ stack'[d] = stack[d]
        /\ d \in DOMAIN stack' /\ stack'[d].k = "mat" =>
              d \in DOMAIN stack /\ stack[d] = stack'[d]

\* A step that materializes nothing and compiles no module.
LEMMA QuietStep ==
    ASSUME TypeInv, LazyInv, MatInv, WorkInv, CallsInv, MatsSame, NotPatching, NotEager',
           stack' \in Seq(FrameType), code' = code, tab'.lazy = tab.lazy,
           added \subseteq added', failed => failed'
    PROVE  LazyInv' /\ MatInv' /\ EagerInv' /\ WorkInv' /\ CallsInv'
<1>1. /\ DOMAIN stack \subseteq Nat /\ DOMAIN stack' \subseteq Nat
  BY LenProperties DEF TypeInv
<1>2. LazyInv'
  BY <1>1 DEF LazyInv, MatsSame, Materializes
<1>3. MatInv'
  <2>1. ASSUME NEW d \in DOMAIN stack', stack'[d].k = "mat"
        PROVE  d \in DOMAIN stack /\ stack[d].k = "mat" /\ stack[d] = stack'[d]
    BY <2>1, <1>1 DEF MatsSame
  <2> QED
    BY <2>1 DEF MatInv
<1>4. EagerInv'
  BY DEF EagerInv, NotEager
<1>5. WorkInv'
  <2> SUFFICES ASSUME ~failed', NEW i \in DOMAIN code, ~Bound(i)
               PROVE  \E d \in DOMAIN stack' : stack'[d].k = "mat" /\ stack'[d].idx = i
    BY DEF WorkInv, Bound
  <2>1. PICK d \in DOMAIN stack : stack[d].k = "mat" /\ stack[d].idx = i
    BY DEF WorkInv, NotPatching
  <2> QED
    BY <2>1, <1>1 DEF MatsSame
<1>6. CallsInv'
  BY DEF CallsInv, Mentioned
<1> QED
  BY <1>2, <1>3, <1>4, <1>5, <1>6

\* A name that is used in both spellings stays so.
LEMMA SpellingsStay ==
    ASSUME added \subseteq added', NEW n \in Names
    PROVE  TwoSpellings(n) => TwoSpellings(n)'
BY DEF TwoSpellings, Mentioned

\* The addresses the table had remain addresses of placed and bound code.
LEMMA PublishedStep ==
    ASSUME TypeInv, PublishedInv, CodeGrows, added \subseteq added',
           \A n \in Names : \A i \in 1 .. CodeCap :
              tab'.sym[n] = CodeAddr(i) =>
                  \/ tab.sym[n] = CodeAddr(i)
                  \/ i \in DOMAIN code' /\ (TwoSpellings(n)' \/ Bound(i)')
    PROVE  PublishedInv'
<1> SUFFICES ASSUME NEW n \in Names, NEW i \in 1 .. CodeCap, tab'.sym[n] = CodeAddr(i)
             PROVE  i \in DOMAIN code' /\ (TwoSpellings(n)' \/ Bound(i)')
  BY DEF PublishedInv
<1>1. CASE tab.sym[n] = CodeAddr(i)
  <2>1. i \in DOMAIN code /\ (TwoSpellings(n) \/ Bound(i))
    BY <1>1 DEF PublishedInv
  <2> QED
    BY <2>1, BoundStays, SpellingsStay
<1> QED
  BY <1>1

\* The two spellings of a name are each other's.
LEMMA SpellingsSymmetric ==
    ASSUME NEW n \in Names
    PROVE  TwoSpellings(Alias(n)) <=> TwoSpellings(n)
BY AliasCorrect DEF TwoSpellings

\* A function that is COMPILING has code, and its module mentions it.
LEMMA CompilingMeans ==
    ASSUME TypeInv, LazyInv, MatInv, NEW n \in Names, tab.lazy[n].st = "compiling"
    PROVE  /\ Mentioned(n)
           /\ \E i \in DOMAIN code : tab.lazy[n].addr = CodeAddr(i)
<1>1. Mentioned(n)
  BY DEF LazyInv, Mentioned, Mentions
<1>2. PICK d \in DOMAIN stack : Materializes(d, n)
  BY DEF LazyInv
<1> QED
  BY <1>1, <1>2 DEF MatInv, Materializes

\* A lookup publishes no unbound code under a single spelling, and adds no name
\* that is provided to the miss cache.
LEMMA LookedStep ==
    ASSUME TypeInv, LazyInv, MatInv, PublishedInv, MissInv, CodeGrows, added' = added,
           NEW n \in Names, NEW v, Looked(tab, v, n),
           tab'.sym = v.sym, tab'.miss = v.miss, tab'.libs = v.libs,
           tab.lazy[Alias(n)].st = "compiling" => Mentioned(n)
    PROVE  PublishedInv' /\ MissInv'
<1>1. /\ Alias(n) \in Names /\ CodeCap \in Nat /\ Len(code) \in Nat /\ Len(code) <= CodeCap
      /\ DOMAIN code = 1 .. Len(code)
  BY AliasCorrect, JitAssumption, LenProperties DEF TypeInv
<1>2. ASSUME NEW x \in Names, NEW i \in 1 .. CodeCap, tab'.sym[x] = CodeAddr(i)
      PROVE  \/ tab.sym[x] = CodeAddr(i)
             \/ i \in DOMAIN code' /\ (TwoSpellings(x)' \/ Bound(i)')
  <2>1. CASE x = n /\ tab'.sym[n] = tab.sym[Alias(n)]
    <3>1. i \in DOMAIN code /\ (TwoSpellings(Alias(n)) \/ Bound(i))
      BY <2>1, <1>1, <1>2 DEF PublishedInv
    <3> QED
      BY <3>1, <2>1, BoundStays, SpellingsSymmetric, SpellingsStay
  <2>2. CASE /\ x = n /\ tab.lazy[Alias(n)].st = "compiling"
             /\ tab'.sym[n] = tab.lazy[Alias(n)].addr
    <3>1. Mentioned(Alias(n)) /\ \E k \in DOMAIN code : CodeAddr(i) = CodeAddr(k)
      BY <2>2, <1>1, <1>2, CompilingMeans
    <3>2. i \in DOMAIN code
      BY <3>1 DEF CodeAddr
    <3>3. TwoSpellings(n)
      BY <3>1, <2>2 DEF TwoSpellings
    <3> QED
      BY <3>2, <3>3, <2>2, BoundStays, SpellingsStay
  <2> QED
    BY <2>1, <2>2, <1>2 DEF Looked
<1>3. PublishedInv'
  BY <1>2, PublishedStep
<1>4. \A x \in Names : Provided(tab', x) = Provided(tab, x)
  BY DEF Looked, Provided, FromLibs
<1>5. \A x \in Names : tab.sym[x] # NULL => tab'.sym[x] # NULL
  BY DEF Looked
<1>6. tab'.miss \subseteq Names /\ \A x \in tab'.miss : x \in tab.miss \/ Provided(tab, x) = NULL
  BY DEF Looked, Tab
<1>7. MissInv'
  BY <1>4, <1>5, <1>6 DEF MissInv
<1> QED
  BY <1>3, <1>7

\* lr_jit_add_symbol of an address that may be published.
LEMMA BindStep ==
    ASSUME TypeInv, PublishedInv, MissInv, CodeGrows, added' = added,
           NEW v \in Tab, v.sym = tab.sym, v.miss = tab.miss, v.libs = tab.libs,
           NEW n \in Names, NEW a \in Address, tab' = Bind(v, n, a),
           \A i \in 1 .. CodeCap :
              a = CodeAddr(i) => i \in DOMAIN code' /\ (TwoSpellings(n)' \/ Bound(i)')
    PROVE  PublishedInv' /\ MissInv'
<1>1. /\ tab' \in Tab /\ tab'.miss = tab.miss /\ tab'.libs = tab.libs
      /\ \A x \in Names : x # n => tab'.sym[x] = tab.sym[x]
      /\ tab'.sym[n] \in {a, tab.sym[n]} /\ tab'.sym[n] # NULL
  BY BindCorrect, JitAssumption
<1>2. PublishedInv'
  BY <1>1, PublishedStep
<1>3. \A x \in Names : Provided(tab', x) = Provided(tab, x)
  BY <1>1 DEF Provided, FromLibs
<1>4. \A x \in Names : tab.sym[x] # NULL => tab'.sym[x] # NULL
  BY <1>1
<1>5. tab.miss \subseteq Names
  BY DEF TypeInv, Tab
<1>6. MissInv'
  BY <1>1, <1>3, <1>4, <1>5 DEF MissInv
<1> QED
  BY <1>2, <1>6

\* A frame that is not a materialization returns.
LEMMA PopStep ==
    ASSUME TypeInv, ShapeInv, stack # <<>>, stack' = Below, added' = added
    PROVE  /\ stack' \in Seq(FrameType) /\ ShapeInv' /\ NotEager'
           /\ Top.k # "mat" => MatsSame
<1> DEFINE l == Len(stack)
<1>1. /\ l \in Nat \ {0} /\ DOMAIN stack = 1 .. l /\ Below \in Seq(FrameType)
      /\ Len(Below) = l - 1 /\ DOMAIN Below = 1 .. l - 1
      /\ \A d \in 1 .. l - 1 : Below[d] = stack[d]
  BY StackCorrect DEF TypeInv
<1>2. \A d \in 1 .. l - 1 : FrameOK(d, stack[d], l, added) /\ stack[d].k \notin {"decls", "patch", "publish"}
  BY <1>1 DEF ShapeInv, FrameOK
<1>3. ShapeInv'
  BY <1>1, <1>2 DEF ShapeInv, FrameOK
<1>4. NotEager'
  <2>1. CASE l = 1
    BY <2>1, <1>1, EmptySeq DEF NotEager
  <2>2. CASE l # 1
    BY <2>2, <1>1, <1>2 DEF NotEager
  <2> QED
    BY <2>1, <2>2
<1>5. ASSUME Top.k # "mat" PROVE MatsSame
  <2>1. \A d \in DOMAIN stack : stack[d].k = "mat" => d \in 1 .. l - 1
    BY <1>1, <1>5 DEF Top
  <2> QED
    BY <2>1, <1>1 DEF MatsSame
<1> QED
  BY <1>1, <1>3, <1>4, <1>5

\* The top frame becomes f.
Retop(f) ==
    /\ stack' \in Seq(FrameType) /\ Len(stack') = Len(stack) /\ DOMAIN stack' = 1 .. Len(stack)
    /\ \A d \in 1 .. Len(stack) - 1 : stack'[d] = stack[d]
    /\ stack'[Len(stack)] = f

\* An Append to the rest of the stack is that.
LEMMA RetopMeans ==
    ASSUME TypeInv, stack # <<>>, NEW f \in FrameType, stack' = Append(Below, f)
    PROVE  Retop(f)
BY TopCorrect DEF TypeInv, Retop

\* The shape of the stack and the materializations below the top stay.
LEMMA RetopStep ==
    ASSUME TypeInv, ShapeInv, stack # <<>>, NEW f \in FrameType, Retop(f),
           FrameOK(Len(stack), f, Len(stack), added), added' = added
    PROVE  /\ stack' \in Seq(FrameType) /\ ShapeInv'
           /\ f.k \notin {"patch", "publish"} => NotEager'
           /\ Top.k # "mat" /\ f.k # "mat" => MatsSame
<1> DEFINE l == Len(stack)
<1>1. /\ l \in Nat \ {0} /\ DOMAIN stack = 1 .. l
      /\ stack' \in Seq(FrameType) /\ Len(stack') = l /\ DOMAIN stack' = 1 .. l
      /\ \A d \in 1 .. l - 1 : stack'[d] = stack[d]
      /\ stack'[l] = f
  BY StackCorrect DEF TypeInv, Retop
<1>2. \A d \in 1 .. l - 1 : FrameOK(d, stack[d], l, added) /\ stack[d].k \notin {"decls", "patch", "publish"}
  BY <1>1 DEF ShapeInv, FrameOK
<1>3. ShapeInv'
  <2> SUFFICES ASSUME NEW d \in 1 .. l
               PROVE  FrameOK(d, stack'[d], l, added)
    BY <1>1 DEF ShapeInv
  <2> QED
    BY <1>1, <1>2
<1>4. ASSUME f.k \notin {"patch", "publish"} PROVE NotEager'
  BY <1>1, <1>2, <1>4 DEF NotEager
<1>5. ASSUME Top.k # "mat", f.k # "mat" PROVE MatsSame
  BY <1>1, <1>5 DEF MatsSame, Top
<1> QED
  BY <1>1, <1>3, <1>4, <1>5

\* The next round of a frame's loop.
LEMMA AdvanceCorrect ==
    ASSUME TypeInv, ShapeInv, stack # <<>>
    PROVE  LET f == [Top EXCEPT !.pc = @ + 1]
           IN  /\ f \in FrameType /\ FrameOK(Len(stack), f, Len(stack), added)
               /\ f.k = Top.k /\ f.name = Top.name /\ f.mod = Top.mod
               /\ f.idx = Top.idx /\ f.pc = Top.pc + 1 /\ Top.pc \in Nat
<1>1. Top \in FrameType /\ FrameOK(Len(stack), Top, Len(stack), added)
  BY StackCorrect DEF TypeInv, ShapeInv, Top
<1> QED
  BY <1>1 DEF FrameType, FrameOK

\* lr_jit_add_module goes on to its last pass over the globals.
LEMMA LastPass ==
    ASSUME TypeInv, ShapeInv, stack # <<>>, Top.k \in {"decls", "publish"}, added' = added,
           stack' = Append(Append(Below, AddFrame("end", Top.mod, 0, 0)), GlobFrame(Top.mod))
    PROVE  stack' \in Seq(FrameType) /\ ShapeInv' /\ NotEager' /\ MatsSame
<1> DEFINE f == AddFrame("end", Top.mod, 0, 0)
           g == GlobFrame(Top.mod)
           s == Append(Below, f)
<1>1. /\ Len(stack) = 1 /\ DOMAIN stack = {1} /\ stack[1] = Top /\ Top.mod \in added
      /\ Top.mod \in Modules
  <2>1. /\ Len(stack) \in DOMAIN stack /\ DOMAIN stack = 1 .. Len(stack)
        /\ FrameOK(Len(stack), Top, Len(stack), added)
    BY StackCorrect DEF TypeInv, ShapeInv, Top
  <2> QED
    BY <2>1 DEF FrameOK, Top, TypeInv
<1>2. f \in FrameType /\ g \in FrameType
  BY <1>1 DEF FrameType, AddFrame, GlobFrame, Frame, BaseKinds
<1>3. s \in Seq(FrameType) /\ Len(s) = 1 /\ s[1] = f
  BY <1>1, <1>2, TopCorrect DEF TypeInv
<1> HIDE DEF s
<1>4. /\ stack' \in Seq(FrameType) /\ Len(stack') = 2 /\ DOMAIN stack' = 1 .. 2
      /\ stack'[1] = f /\ stack'[2] = g
  BY <1>2, <1>3, PushCorrect DEF s
<1>5. FrameOK(1, f, 2, added) /\ FrameOK(2, g, 2, added)
  BY <1>1 DEF FrameOK, AddFrame, GlobFrame, Frame, BaseKinds
<1>6. ShapeInv'
  BY <1>4, <1>5 DEF ShapeInv
<1>7. f.k = "end" /\ g.k = "glob"
  BY DEF AddFrame, GlobFrame, Frame
<1>8. NotEager' /\ MatsSame
  BY <1>1, <1>4, <1>7 DEF NotEager, MatsSame
<1> QED
  BY <1>4, <1>6, <1>8

\* A quiet step that may bind names in the table.
LEMMA TableStep ==
    ASSUME JInv, stack' \in Seq(FrameType), ShapeInv', NotPatching, NotEager', MatsSame,
           UNCHANGED <<code, added, failed>>,
           tab' \in Tab, tab'.lazy = tab.lazy, PublishedInv', MissInv'
    PROVE  JInv'
<1>1. TypeInv'
  BY DEF JInv, TypeInv
<1>2. LazyInv' /\ MatInv' /\ EagerInv' /\ WorkInv' /\ CallsInv'
  BY QuietStep DEF JInv
<1> QED
  BY <1>1, <1>2 DEF JInv

\* The lookups a step may make.
Looks ==
    \/ tab' = tab
    \/ \E n \in Names : /\ tab' = LookupView(tab, n)
                        /\ tab.lazy[Alias(n)].st = "compiling" => Mentioned(n)

\* They keep the table right.
LEMMA LooksStep ==
    ASSUME JInv, Looks, CodeGrows, added' = added
    PROVE  tab' \in Tab /\ tab'.lazy = tab.lazy /\ PublishedInv' /\ MissInv'
<1>1. CASE tab' = tab
  <2>1. PublishedInv'
    BY <1>1, PublishedStep DEF JInv
  <2>2. MissInv'
    BY <1>1 DEF JInv, MissInv
  <2> QED
    BY <1>1, <2>1, <2>2 DEF JInv, TypeInv
<1>2. ASSUME NEW n \in Names, tab' = LookupView(tab, n),
             tab.lazy[Alias(n)].st = "compiling" => Mentioned(n)
      PROVE  tab' \in Tab /\ tab'.lazy = tab.lazy /\ PublishedInv' /\ MissInv'
  <2>1. Looked(tab, tab', n)
    BY <1>2, LookupViewCorrect DEF JInv, TypeInv
  <2>2. PublishedInv' /\ MissInv'
    BY <1>2, <2>1, LookedStep DEF JInv
  <2> QED
    BY <2>1, <2>2 DEF Looked
<1> QED
  BY <1>1, <1>2 DEF Looks

\* A quiet step that only looks a name up, if anything.
LEMMA LookingStep ==
    ASSUME JInv, stack' \in Seq(FrameType), ShapeInv', NotPatching, NotEager', MatsSame,
           UNCHANGED <<code, added, failed>>, Looks
    PROVE  JInv'
<1>1. CodeGrows
  BY CodeStays DEF JInv
<1>2. tab' \in Tab /\ tab'.lazy = tab.lazy /\ PublishedInv' /\ MissInv'
  BY <1>1, LooksStep
<1> QED
  BY <1>2, TableStep

-----------------------------------------------------------------------------
(***************************************************************************)
(* Every step preserves the invariant                                      *)
(***************************************************************************)

\* What is at the top when no module is being patched.
LEMMA NotPatchingTop ==
    ASSUME TypeInv, ShapeInv, stack = <<>> \/ Top.k # "patch"
    PROVE  NotPatching
<1>1. CASE stack = <<>>
  BY <1>1 DEF NotPatching
<1>2. CASE stack # <<>>
  <2>1. 1 \in DOMAIN stack /\ Top = stack[Len(stack)]
    BY <1>2, StackCorrect DEF TypeInv, Top
  <2>2. stack[1].k \in {"decls", "patch", "publish"} => Len(stack) = 1
    BY <2>1 DEF ShapeInv, FrameOK
  <2> QED
    BY <2>1, <2>2, <1>2 DEF NotPatching
<1> QED
  BY <1>1, <1>2

\* A loop that makes lookups, and the return from a call.
LEMMA AdvanceStep ==
    ASSUME JInv, stack # <<>>, Top.k \in {"glob", "decls"}, Advance, Looks,
           UNCHANGED <<code, added, failed>>
    PROVE  JInv'
<1> DEFINE f == [Top EXCEPT !.pc = @ + 1]
<1>1. TypeInv /\ ShapeInv
  BY DEF JInv
<1>2. f \in FrameType /\ f.k = Top.k /\ FrameOK(Len(stack), f, Len(stack), added)
  BY <1>1, AdvanceCorrect
<1>3. stack' = Append(Below, f)
  BY DEF Advance
<1> HIDE DEF f
<1>4. Retop(f)
  BY <1>1, <1>2, <1>3, RetopMeans
<1>5. stack' \in Seq(FrameType) /\ ShapeInv' /\ NotEager' /\ MatsSame
  BY <1>1, <1>2, <1>4, RetopStep
<1>6. NotPatching
  BY <1>1, NotPatchingTop
<1> QED
  BY <1>5, <1>6, LookingStep

\* A frame that made lookups returns.
LEMMA ReturnStep ==
    ASSUME JInv, stack # <<>>, Top.k \notin {"mat", "patch"}, stack' = Below, Looks,
           UNCHANGED <<code, added, failed>>
    PROVE  JInv'
<1>1. TypeInv /\ ShapeInv
  BY DEF JInv
<1>2. stack' \in Seq(FrameType) /\ ShapeInv' /\ NotEager' /\ MatsSame
  BY <1>1, PopStep
<1>3. NotPatching
  BY <1>1, NotPatchingTop
<1> QED
  BY <1>2, <1>3, LookingStep

\* The functions of a module.
LEMMA ModuleFuncs ==
    ASSUME NEW m \in Modules
    PROVE  /\ ModFuncs[m] \in Seq([name : Names, calls : Seq(Names)])
           /\ Len(ModFuncs[m]) \in Nat \ {0} /\ DOMAIN ModFuncs[m] = 1 .. Len(ModFuncs[m])
<1> DEFINE S == [name : Names, calls : Seq(Names)]
<1>1. ModFuncs[m] \in Seq(S) /\ ModFuncs[m] # <<>>
  BY JitAssumption
<1> HIDE DEF S
<1>2. Len(ModFuncs[m]) \in Nat \ {0} /\ DOMAIN ModFuncs[m] = 1 .. Len(ModFuncs[m])
  BY <1>1, EmptySeq, LenProperties
<1> QED
  BY <1>1, <1>2 DEF S

\* What a module mentions.
LEMMA ModuleNames ==
    ASSUME NEW m \in Modules
    PROVE  /\ Defines(m) \subseteq Names
           /\ \A i \in 1 .. Len(ModRefs[m]) :
                 ModRefs[m][i] \in Names /\ ModRefs[m][i] \in Mentions(m)
           /\ \A i \in 1 .. Len(ModDecls[m]) :
                 ModDecls[m][i] \in Names /\ ModDecls[m][i] \in Mentions(m)
           /\ \A k \in DOMAIN ModFuncs[m] :
                 /\ ModFuncs[m][k] \in [name : Names, calls : Seq(Names)]
                 /\ ModFuncs[m][k].name \in Defines(m)
                 /\ \A c \in DOMAIN ModFuncs[m][k].calls :
                       /\ ModFuncs[m][k].calls[c] \in Names
                       /\ ModFuncs[m][k].calls[c] \in Mentions(m)
<1>1. /\ ModFuncs[m] \in Seq([name : Names, calls : Seq(Names)])
      /\ ModDecls[m] \in Seq(Names) /\ ModRefs[m] \in Seq(Names)
      /\ \A k \in DOMAIN ModFuncs[m] :
            Range(ModFuncs[m][k].calls) \subseteq Defines(m) \cup Range(ModDecls[m])
  BY JitAssumption
<1>2. \A k \in DOMAIN ModFuncs[m] : ModFuncs[m][k] \in [name : Names, calls : Seq(Names)]
  <2> DEFINE F == ModFuncs[m]
             S == [name : Names, calls : Seq(Names)]
  <2>1. F \in Seq(S)
    BY <1>1
  <2> HIDE DEF F, S
  <2>2. \A k \in DOMAIN F : F[k] \in S
    BY <2>1, ElementOfSeq, LenProperties
  <2> QED
    BY <2>2 DEF F, S
<1>3. /\ \A i \in 1 .. Len(ModRefs[m]) : ModRefs[m][i] \in Names /\ i \in DOMAIN ModRefs[m]
      /\ \A i \in 1 .. Len(ModDecls[m]) : ModDecls[m][i] \in Names /\ i \in DOMAIN ModDecls[m]
  BY <1>1
<1>4. ASSUME NEW k \in DOMAIN ModFuncs[m], NEW c \in DOMAIN ModFuncs[m][k].calls
      PROVE  /\ ModFuncs[m][k].calls[c] \in Names
             /\ ModFuncs[m][k].calls[c] \in Mentions(m)
  <2>1. ModFuncs[m][k].calls \in Seq(Names)
    BY <1>2
  <2>2. ModFuncs[m][k].calls[c] \in Range(ModFuncs[m][k].calls)
    BY DEF Range
  <2> QED
    BY <2>1, <2>2, <1>1 DEF Mentions
<1> QED
  BY <1>2, <1>3, <1>4 DEF Defines, Mentions, Range

\* The frame at the top.
LEMMA TopMeans ==
    ASSUME TypeInv, ShapeInv, stack # <<>>
    PROVE  /\ Top \in FrameType /\ FrameOK(Len(stack), Top, Len(stack), added)
           /\ Top.pc \in Nat /\ Top.idx \in Nat
           /\ Top.k \in {"get", "def"} => Top.name \in Names
           /\ Top.k \notin {"get", "def"} => Top.mod \in added /\ Top.mod \in Modules
           /\ Top.k \notin {"glob", "mat"} => Len(stack) = 1
<1>1. /\ Len(stack) \in Nat \ {0} /\ Len(stack) \in DOMAIN stack
      /\ Top \in FrameType /\ FrameOK(Len(stack), Top, Len(stack), added)
  BY StackCorrect DEF TypeInv, ShapeInv, Top
<1> QED
  BY <1>1 DEF FrameOK, TypeInv, FrameType

\* Without a materialization on the stack nothing is COMPILING.
LEMMA NothingCompiling ==
    ASSUME TypeInv, ShapeInv, LazyInv, stack = <<>> \/ Top.k \notin {"glob", "mat"},
           NEW n \in Names
    PROVE  tab.lazy[n].st # "compiling"
<1>1. SUFFICES ASSUME NEW d \in DOMAIN stack, stack[d].k = "mat"
               PROVE  FALSE
  BY DEF LazyInv, Materializes
<1>2. stack # <<>> /\ d \in 1 .. Len(stack)
  BY <1>1 DEF TypeInv
<1>3. Len(stack) = 1
  BY <1>2, TopMeans
<1> QED
  BY <1>1, <1>2, <1>3 DEF Top

\* The pass over the globals of a module.
LEMMA GlobStep ==
    ASSUME JInv, GlobWrite \/ GlobSkip \/ GlobDone
    PROVE  JInv'
<1>1. stack # <<>> /\ Top.k = "glob" /\ TypeInv /\ ShapeInv
  BY DEF GlobWrite, GlobSkip, GlobDone, GlobMore, At, Idle, JInv
<1>2. Top.mod \in added /\ Top.mod \in Modules /\ Top.pc \in Nat /\ Top.pc # 0
  BY <1>1, TopMeans DEF FrameOK
<1>3. CASE GlobWrite
  <2>1. GlobRef \in Names /\ Mentioned(GlobRef)
    <3>1. Top.pc \in 1 .. Len(ModRefs[Top.mod])
      BY <1>2, <1>3, JitAssumption DEF GlobWrite, GlobMore
    <3> QED
      BY <3>1, <1>2, ModuleNames DEF GlobRef, Mentioned
  <2>2. Looks
    BY <2>1, <1>3 DEF GlobWrite, Looks
  <2> QED
    BY <2>2, <1>1, <1>3, AdvanceStep DEF GlobWrite
<1>4. CASE GlobSkip
  BY <1>1, <1>4, AdvanceStep DEF GlobSkip, Looks
<1>5. CASE GlobDone
  BY <1>1, <1>5, ReturnStep DEF GlobDone, Looks
<1> QED
  BY <1>3, <1>4, <1>5

\* The declarations of a module, and the end of lr_jit_add_module.
LEMMA DeclStep ==
    ASSUME JInv, ResolveDecl \/ RegisteredLazy \/ Published \/ AddModuleReturns
    PROVE  JInv'
<1>1. stack # <<>> /\ TypeInv /\ ShapeInv
  BY DEF ResolveDecl, RegisteredLazy, Published, AddModuleReturns, At, Idle, JInv
<1>2. CASE ResolveDecl
  <2> DEFINE n == ModDecls[Top.mod][Top.pc]
  <2>1. /\ Top.k = "decls" /\ Top.mod \in added /\ Top.mod \in Modules
        /\ Top.pc \in Nat /\ Top.pc # 0
    BY <1>1, <1>2, TopMeans DEF ResolveDecl, At, FrameOK
  <2>2. Top.pc \in 1 .. Len(ModDecls[Top.mod])
    BY <1>2, <2>1, JitAssumption DEF ResolveDecl
  <2>3. n \in Names /\ Mentioned(n)
    BY <2>1, <2>2, ModuleNames DEF Mentioned
  <2>4. Looks
    BY <2>3, <1>2 DEF ResolveDecl, Looks
  <2> QED
    BY <2>1, <2>4, <1>1, <1>2, AdvanceStep DEF ResolveDecl
<1>3. CASE RegisteredLazy \/ Published
  <2>1. /\ Top.k \in {"decls", "publish"} /\ UNCHANGED <<tab, code, added, failed>>
        /\ stack' = Append(Append(Below, AddFrame("end", Top.mod, 0, 0)), GlobFrame(Top.mod))
    BY <1>3 DEF RegisteredLazy, Published, At
  <2>2. stack' \in Seq(FrameType) /\ ShapeInv' /\ NotEager' /\ MatsSame
    BY <2>1, <1>1, LastPass
  <2>3. NotPatching
    BY <2>1, <1>1, NotPatchingTop
  <2> QED
    BY <2>1, <2>2, <2>3, LookingStep DEF Looks
<1>4. CASE AddModuleReturns
  BY <1>1, <1>4, ReturnStep DEF AddModuleReturns, At, Looks
<1> QED
  BY <1>2, <1>3, <1>4

\* A call that leaves the stack as it is.
LEMMA SameStack ==
    ASSUME TypeInv, ShapeInv, stack = <<>>, stack' = stack, added' = added
    PROVE  stack' \in Seq(FrameType) /\ ShapeInv' /\ NotPatching /\ NotEager' /\ MatsSame
<1>1. DOMAIN stack = {}
  OBVIOUS
<1>2. stack' \in Seq(FrameType) /\ ShapeInv' /\ NotPatching
  BY <1>1 DEF TypeInv, ShapeInv, NotPatching
<1>3. NotEager' /\ MatsSame
  BY <1>1 DEF NotEager, MatsSame
<1> QED
  BY <1>2, <1>3

\* lr_jit_add_module starts.
LEMMA AddModuleStep ==
    ASSUME JInv, NEW m \in Modules, AddModule(m)
    PROVE  JInv'
<1> DEFINE f == AddFrame("register", m, 0, 0)
           g == GlobFrame(m)
<1>1. /\ stack = <<>> /\ stack' = <<f, g>> /\ added' = added \cup {m}
      /\ UNCHANGED <<tab, code, failed>>
  BY DEF AddModule, Idle
<1>2. f \in FrameType /\ g \in FrameType
  BY DEF FrameType, AddFrame, GlobFrame, Frame, BaseKinds
<1>3. FrameOK(1, f, 2, added') /\ FrameOK(2, g, 2, added')
  BY <1>1 DEF FrameOK, AddFrame, GlobFrame, Frame, BaseKinds
<1>4. f.k = "register" /\ g.k = "glob"
  BY DEF AddFrame, GlobFrame, Frame
<1> HIDE DEF f, g
<1>5. /\ stack' \in Seq(FrameType) /\ Len(stack') = 2 /\ DOMAIN stack' = 1 .. 2
      /\ stack'[1] = f /\ stack'[2] = g
  BY <1>1, <1>2
<1>6. ShapeInv'
  BY <1>3, <1>5 DEF ShapeInv
<1>7. NotPatching /\ NotEager' /\ MatsSame
  <2>1. DOMAIN stack = {}
    BY <1>1
  <2> QED
    BY <2>1, <1>1, <1>4, <1>5 DEF NotPatching, NotEager, MatsSame
<1>8. CodeGrows
  BY <1>1, CodeStays DEF JInv
<1>9. PublishedInv'
  BY <1>1, <1>8, PublishedStep DEF JInv
<1>10. MissInv'
  BY <1>1 DEF JInv, MissInv
<1>11. TypeInv'
  BY <1>1, <1>5 DEF JInv, TypeInv
<1>12. LazyInv' /\ MatInv' /\ EagerInv' /\ WorkInv' /\ CallsInv'
  BY <1>1, <1>5, <1>7, QuietStep DEF JInv
<1> QED
  BY <1>6, <1>9, <1>10, <1>11, <1>12 DEF JInv

\* lr_jit_add_symbol and lr_jit_load_library.
LEMMA BindingStep ==
    ASSUME JInv, (\E n \in UserNames : AddSymbol(n)) \/ LoadLibrary
    PROVE  JInv'
<1>1. stack = <<>> /\ stack' = stack /\ UNCHANGED <<code, added, failed>> /\ TypeInv /\ ShapeInv
  BY DEF AddSymbol, LoadLibrary, Idle, JInv
<1>2. stack' \in Seq(FrameType) /\ ShapeInv' /\ NotPatching /\ NotEager' /\ MatsSame
  BY <1>1, SameStack
<1>3. CodeGrows
  BY <1>1, CodeStays
<1>4. ASSUME NEW n \in UserNames, AddSymbol(n)
      PROVE  JInv'
  <2>1. n \in Names /\ UserAddr(n) \in Address /\ \A i : UserAddr(n) # CodeAddr(i)
    BY JitAssumption DEF Address, UserAddr, CodeAddr
  <2>2. tab \in Tab /\ tab' = Bind(tab, n, UserAddr(n))
    BY <1>4 DEF AddSymbol, JInv, TypeInv
  <2>3. PublishedInv' /\ MissInv'
    BY <2>1, <2>2, <1>1, <1>3, BindStep DEF JInv
  <2>4. tab' \in Tab /\ tab'.lazy = tab.lazy
    BY <2>1, <2>2, BindCorrect
  <2> QED
    BY <2>3, <2>4, <1>1, <1>2, TableStep
<1>5. CASE LoadLibrary
  <2>1. /\ tab' \in Tab /\ tab'.lazy = tab.lazy /\ tab'.sym = tab.sym /\ tab'.miss = {}
    BY <1>5 DEF LoadLibrary, JInv, TypeInv, Tab
  <2>2. PublishedInv'
    BY <2>1, <1>1, <1>3, PublishedStep DEF JInv
  <2>3. MissInv'
    BY <2>1 DEF MissInv
  <2> QED
    BY <2>1, <2>2, <2>3, <1>1, <1>2, TableStep
<1> QED
  BY <1>4, <1>5

\* lr_jit_get_symbol without a materialization.
LEMMA GetStep ==
    ASSUME JInv, (\E n \in GetNames : GetSymbol(n)) \/ GetReturns
    PROVE  JInv'
<1>1. TypeInv /\ ShapeInv /\ LazyInv
  BY DEF JInv
<1>2. ASSUME NEW n \in GetNames, GetSymbol(n)
      PROVE  JInv'
  <2>1. /\ stack = <<>> /\ stack' = stack /\ UNCHANGED <<code, added, failed>>
        /\ tab' = LookupView(tab, n)
    BY <1>2 DEF GetSymbol, Idle
  <2>2. n \in Names /\ tab.lazy[Alias(n)].st # "compiling"
    BY <1>1, <2>1, NothingCompiling, AliasCorrect, JitAssumption
  <2>3. stack' \in Seq(FrameType) /\ ShapeInv' /\ NotPatching /\ NotEager' /\ MatsSame
    BY <1>1, <2>1, SameStack
  <2> QED
    BY <2>1, <2>2, <2>3, LookingStep DEF Looks
<1>3. CASE GetReturns
  <2>1. stack # <<>> /\ Top.k = "get" /\ stack' = Below /\ UNCHANGED <<code, added, failed>>
    BY <1>3 DEF GetReturns, At, Idle
  <2>2. Top.name \in Names
    BY <1>1, <2>1, TopMeans
  <2>3. tab.lazy[Alias(Top.name)].st # "compiling"
    BY <1>1, <2>1, <2>2, NothingCompiling, AliasCorrect
  <2>4. Looks
    BY <1>3, <2>2, <2>3 DEF GetReturns, Looks
  <2> QED
    BY <2>1, <2>4, ReturnStep
<1> QED
  BY <1>2, <1>3

\* lr_jit_get_defined_function without a materialization.
LEMMA DefStep ==
    ASSUME JInv, (\E n \in GetNames : GetDefined(n)) \/ DefFound \/ DefNext
    PROVE  JInv'
<1>1. TypeInv /\ ShapeInv /\ LazyInv
  BY DEF JInv
<1>2. ASSUME NEW n \in Names, NEW try \in Nat, stack' = <<DefFrame(n, try)>>,
             UNCHANGED <<tab, code, added, failed>>, stack = <<>> \/ Top.k = "def"
      PROVE  JInv'
  <2> DEFINE f == DefFrame(n, try)
  <2>1. f \in FrameType /\ FrameOK(1, f, 1, added) /\ f.k = "def"
    BY DEF FrameType, FrameOK, DefFrame, Frame, BaseKinds
  <2> HIDE DEF f
  <2>2. stack' \in Seq(FrameType) /\ Len(stack') = 1 /\ DOMAIN stack' = {1} /\ stack'[1] = f
    BY <2>1, <1>2 DEF f
  <2>3. ShapeInv' /\ NotEager'
    BY <2>1, <2>2, <1>2 DEF ShapeInv, NotEager
  <2>4. NotPatching
    BY <1>1, <1>2, NotPatchingTop
  <2>5. \A d \in DOMAIN stack : stack[d].k # "mat"
    <3>1. CASE stack = <<>>
      BY <3>1
    <3>2. CASE stack # <<>>
      BY <3>2, <1>1, <1>2, TopMeans, StackCorrect DEF Top, TypeInv
    <3> QED
      BY <3>1, <3>2
  <2>6. MatsSame
    BY <2>1, <2>2, <2>5 DEF MatsSame
  <2> QED
    BY <2>2, <2>3, <2>4, <2>6, <1>2, LookingStep DEF Looks
<1>3. ASSUME NEW n \in GetNames, GetDefined(n)
      PROVE  JInv'
  <2>1. n \in Names /\ 1 \in Nat
    BY JitAssumption
  <2> QED
    BY <2>1, <1>2, <1>3 DEF GetDefined, Idle
<1>4. CASE DefFound
  <2>1. /\ stack # <<>> /\ Top.k = "def" /\ stack' = Below /\ UNCHANGED <<code, added, failed>>
        /\ tab' = tab \/ tab' = Bind(tab, Top.name, tab.sym[Alias(Top.name)])
    BY <1>4 DEF DefFound, DefName, At, Idle, sym
  <2>2. CASE tab' = tab
    BY <2>1, <2>2, ReturnStep DEF Looks
  <2>3. ASSUME NEW n \in Names, NEW a \in Address, a = tab.sym[Alias(n)], tab' = Bind(tab, n, a)
        PROVE  JInv'
    <3>1. Alias(n) \in Names
      BY AliasCorrect
    <3>2. CodeGrows
      BY <1>1, <2>1, CodeStays
    <3>3. \A i \in 1 .. CodeCap :
             a = CodeAddr(i) => i \in DOMAIN code' /\ (TwoSpellings(n)' \/ Bound(i)')
      <4>1. \A i \in 1 .. CodeCap :
               a = CodeAddr(i) => i \in DOMAIN code /\ (TwoSpellings(n) \/ Bound(i))
        BY <2>3, <3>1, SpellingsSymmetric DEF JInv, PublishedInv
      <4> QED
        BY <4>1, <2>1, <3>2, <1>1, BoundStays, SpellingsStay
    <3>4. tab \in Tab
      BY <1>1 DEF TypeInv
    <3>5. PublishedInv' /\ MissInv'
      BY <2>3, <3>2, <3>3, <3>4, <2>1, BindStep DEF JInv
    <3>6. tab' \in Tab /\ tab'.lazy = tab.lazy
      BY <2>3, <3>4, BindCorrect
    <3>7. stack' \in Seq(FrameType) /\ ShapeInv' /\ NotEager' /\ MatsSame
      BY <1>1, <2>1, PopStep
    <3>8. NotPatching
      BY <1>1, <2>1, NotPatchingTop
    <3> QED
      BY <3>5, <3>6, <3>7, <3>8, <2>1, TableStep
  <2>4. CASE tab' # tab
    <3>1. Top.name \in Names /\ Alias(Top.name) \in Names
      BY <1>1, <2>1, TopMeans, AliasCorrect
    <3>2. tab.sym[Alias(Top.name)] \in Address
      BY <3>1, <2>1, <2>4, <1>1, <1>4 DEF DefFound, DefName, sym, TypeInv, Tab
    <3> QED
      BY <3>1, <3>2, <2>1, <2>3, <2>4
  <2> QED
    BY <2>2, <2>4
<1>5. CASE DefNext
  <2>1. stack # <<>> /\ Top.k = "def" /\ UNCHANGED <<tab, code, added, failed>>
    BY <1>5 DEF DefNext, At, Idle
  <2>2. Top.name \in Names /\ Len(stack) = 1
    BY <1>1, <2>1, TopMeans
  <2>3. stack' = <<DefFrame(Top.name, 2)>> \/ stack' = <<>>
    BY <1>5 DEF DefNext
  <2>4. CASE stack' = <<>>
    <3>1. stack' = Below
      <4>1. Below \in Seq(FrameType) /\ Len(Below) = 0
        BY <1>1, <2>1, <2>2, StackCorrect DEF TypeInv
      <4> QED
        BY <4>1, <2>4, EmptySeq
    <3> QED
      BY <3>1, <2>1, ReturnStep DEF Looks
  <2>5. CASE stack' = <<DefFrame(Top.name, 2)>>
    BY <2>1, <2>2, <2>5, <1>2
  <2> QED
    BY <2>3, <2>4, <2>5
<1> QED
  BY <1>3, <1>4, <1>5

\* A stack of one frame that is no materialization: all code is bound, unless
\* a call failed.
LEMMA SingleFrame ==
    ASSUME JInv, stack # <<>>, Top.k \notin {"glob", "mat"}
    PROVE  /\ Len(stack) = 1 /\ DOMAIN stack = {1} /\ stack[1] = Top
           /\ \A d \in DOMAIN stack : stack[d].k # "mat"
           /\ Top.k # "patch" /\ ~failed => \A i \in DOMAIN code : Bound(i)
<1>1. Len(stack) = 1 /\ DOMAIN stack = 1 .. Len(stack)
  BY TopMeans, StackCorrect DEF JInv, TypeInv
<1>2. DOMAIN stack = {1} /\ stack[1] = Top
  BY <1>1 DEF Top
<1>3. \A d \in DOMAIN stack : stack[d].k # "mat"
  BY <1>2
<1>4. Top.k # "patch" /\ ~failed => \A i \in DOMAIN code : Bound(i)
  BY <1>2, <1>3 DEF JInv, WorkInv
<1> QED
  BY <1>1, <1>2, <1>3, <1>4

\* The frame that replaces the only one.
LEMMA SingleRetop ==
    ASSUME Len(stack) = 1, NEW f, Retop(f)
    PROVE  /\ stack' \in Seq(FrameType) /\ Len(stack') = 1 /\ DOMAIN stack' = {1}
           /\ stack'[1] = f /\ stack' # <<>>
BY DEF Retop

\* The calls of placed code stay mentioned.
LEMMA CallsStay ==
    ASSUME TypeInv, CallsInv, CodeGrows, Len(code') = Len(code), added \subseteq added'
    PROVE  CallsInv'
<1>1. DOMAIN code' = DOMAIN code /\ \A i \in DOMAIN code : code'[i].calls = code[i].calls
  BY DEF TypeInv, CodeGrows
<1> QED
  BY <1>1 DEF CallsInv, Mentioned

\* The names a module defines are registered.
LEMMA RegisterStep ==
    ASSUME JInv, Register
    PROVE  JInv'
<1> DEFINE m == Top.mod
           D == Defines(m)
           f == AddFrame("decls", m, 0, 1)
<1>1. TypeInv /\ ShapeInv /\ LazyInv /\ stack # <<>> /\ Top.k = "register"
  BY DEF JInv, Register, At, Idle
<1>2. /\ UNCHANGED <<code, added, failed>> /\ stack' = Append(Below, f)
  BY DEF Register
<1>3. m \in added /\ m \in Modules /\ D \subseteq Names
  BY <1>1, TopMeans, ModuleNames
<1>4. f \in FrameType /\ f.k = "decls"
  BY <1>3 DEF FrameType, AddFrame, Frame, BaseKinds
<1>5. FrameOK(Len(stack), f, Len(stack), added)
  BY <1>1, <1>3, SingleFrame DEF FrameOK, AddFrame, Frame, BaseKinds
<1>6. /\ tab' \in Tab /\ tab'.sym = tab.sym /\ tab'.libs = tab.libs
      /\ tab'.miss \subseteq tab.miss \cup D
      /\ \A n \in Names : \/ tab'.lazy[n] = tab.lazy[n]
                          \/ n \in D /\ tab'.lazy[n].st = "pending" /\ tab'.lazy[n].mod = m
  <2> DEFINE pending == [st |-> "pending", mod |-> m, addr |-> NULL]
             L == IF tab.mode THEN [n \in Names |-> IF n \in D THEN pending ELSE tab.lazy[n]]
                  ELSE tab.lazy
             M == tab.miss \cup {n \in D : tab.sym[n] = NULL}
  <2>1. tab \in Tab /\ M \subseteq Names /\ M \subseteq tab.miss \cup D
    BY <1>1, <1>3 DEF TypeInv, Tab
  <2>2. pending \in LazyEntry /\ pending.st = "pending" /\ pending.mod = m
    BY <1>3 DEF LazyEntry
  <2>3. /\ L \in [Names -> LazyEntry]
        /\ \A n \in Names : \/ L[n] = tab.lazy[n]
                            \/ n \in D /\ L[n].st = "pending" /\ L[n].mod = m
    <3>1. tab.lazy \in [Names -> LazyEntry]
      BY <2>1 DEF Tab
    <3> HIDE DEF pending
    <3> QED
      BY <2>2, <3>1
  <2>4. tab' = [tab EXCEPT !.miss = M, !.lazy = L]
    BY DEF Register, sym
  <2> HIDE DEF L, M, D
  <2> QED
    BY <2>1, <2>3, <2>4 DEF Tab
<1> HIDE DEF f, D, m
<1>7. Retop(f)
  BY <1>1, <1>2, <1>4, RetopMeans
<1>8. stack' \in Seq(FrameType) /\ ShapeInv' /\ NotEager' /\ MatsSame
  BY <1>1, <1>2, <1>4, <1>5, <1>7, RetopStep
<1>9. CodeGrows
  BY <1>1, <1>2, CodeStays
<1>10. PublishedInv'
  BY <1>2, <1>6, <1>9, PublishedStep DEF JInv
<1>11. MissInv'
  <2>1. \A n \in Names : Provided(tab', n) = Provided(tab, n)
    BY <1>6 DEF Provided, FromLibs
  <2>2. tab.miss \subseteq Names
    BY <1>1 DEF TypeInv, Tab
  <2>3. MissInv
    BY DEF JInv
  <2> QED
    BY <2>1, <2>2, <2>3, <1>2, <1>3, <1>6 DEF MissInv, D
<1>12. LazyInv'
  <2> SUFFICES ASSUME NEW n \in Names
               PROVE  /\ tab'.lazy[n].st # "none" =>
                            tab'.lazy[n].mod \in added /\ n \in Defines(tab'.lazy[n].mod)
                      /\ tab'.lazy[n].st # "compiling"
    BY <1>2 DEF LazyInv
  <2>1. tab.lazy[n].st # "compiling"
    BY <1>1, NothingCompiling
  <2> QED
    BY <2>1, <1>1, <1>3, <1>6 DEF LazyInv, D
<1>13. \A d \in DOMAIN stack' : stack'[d].k # "mat"
  BY <1>1, <1>4, <1>7, SingleFrame, SingleRetop
<1>14. MatInv'
  BY <1>13 DEF MatInv
<1>15. EagerInv'
  BY <1>8 DEF EagerInv, NotEager
<1>16. WorkInv'
  BY <1>1, <1>2, SingleFrame DEF WorkInv, Bound
<1>17. CallsInv'
  BY <1>1, <1>2, <1>9, CallsStay DEF JInv
<1>18. TypeInv'
  BY <1>1, <1>2, <1>6, <1>8 DEF TypeInv
<1> QED
  BY <1>8, <1>10, <1>11, <1>12, <1>14, <1>15, <1>16, <1>17, <1>18 DEF JInv

\* A placed function has its calls, and no targets.
LEMMA UnboundCorrect ==
    ASSUME NEW f \in [name : Names, calls : Seq(Names)]
    PROVE  /\ Unbound(f) \in Code /\ Unbound(f).calls = f.calls
           /\ Len(Unbound(f).to) = Len(f.calls)
<1> DEFINE t == [c \in DOMAIN f.calls |-> NULL]
<1>1. f.name \in Names /\ f.calls \in Seq(Names)
  OBVIOUS
<1>2. t \in Seq(Address \cup {NULL}) /\ Len(t) = Len(f.calls)
  <2>1. DOMAIN f.calls = 1 .. Len(f.calls) /\ Len(f.calls) \in Nat
    BY <1>1
  <2> QED
    BY <2>1
<1> HIDE DEF t
<1> QED
  BY <1>1, <1>2 DEF Unbound, Code, t

\* Functions are placed at the end of the code.
Placed(s) == code' = code \o [k \in DOMAIN s |-> Unbound(s[k])]

\* The code before them stays, and they come in order.
LEMMA PlaceCorrect ==
    ASSUME TypeInv, NEW s \in Seq([name : Names, calls : Seq(Names)]),
           Len(code) + Len(s) <= CodeCap, Placed(s)
    PROVE  /\ CodeGrows /\ Len(code') = Len(code) + Len(s)
           /\ \A i \in DOMAIN code : code'[i] = code[i]
           /\ \A k \in DOMAIN s : code'[Len(code) + k] = Unbound(s[k])
<1> DEFINE p == [k \in DOMAIN s |-> Unbound(s[k])]
<1>1. Len(s) \in Nat /\ DOMAIN s = 1 .. Len(s) /\ CodeCap \in Nat
  BY JitAssumption
<1>2. \A k \in DOMAIN s : s[k] \in [name : Names, calls : Seq(Names)]
  BY <1>1, ElementOfSeq
<1>3. \A k \in DOMAIN s : /\ Unbound(s[k]) \in Code
                          /\ Len(Unbound(s[k]).to) = Len(Unbound(s[k]).calls)
  BY <1>2, UnboundCorrect
<1>4. p \in Seq(Code) /\ Len(p) = Len(s) /\ \A k \in DOMAIN s : p[k] = Unbound(s[k])
  BY <1>1, <1>3
<1> HIDE DEF p
<1>5. code \in Seq(Code) /\ Len(code) \in Nat /\ DOMAIN code = 1 .. Len(code)
  BY DEF TypeInv
<1>6. code' = code \o p
  BY DEF p, Placed
<1>7. /\ code' \in Seq(Code) /\ Len(code') = Len(code) + Len(s)
      /\ \A i \in DOMAIN code : code'[i] = code[i]
      /\ \A k \in DOMAIN s : code'[Len(code) + k] = p[k]
  <2>1. /\ code \o p \in Seq(Code) /\ Len(code \o p) = Len(code) + Len(p)
        /\ \A i \in 1 .. Len(code) + Len(p) :
              (code \o p)[i] = IF i <= Len(code) THEN code[i] ELSE p[i - Len(code)]
    BY <1>4, <1>5, ConcatProperties
  <2> DEFINE q == code \o p
  <2> HIDE DEF q
  <2>2. /\ q \in Seq(Code) /\ Len(q) = Len(code) + Len(s)
        /\ \A i \in DOMAIN code : q[i] = code[i]
        /\ \A k \in DOMAIN s : q[Len(code) + k] = p[k]
    BY <2>1, <1>1, <1>4, <1>5 DEF q
  <2> QED
    BY <2>2, <1>6 DEF q
<1>8. ASSUME NEW i \in DOMAIN code'
      PROVE  Len(code'[i].to) = Len(code'[i].calls)
  <2>1. CASE i \in DOMAIN code
    BY <2>1, <1>7 DEF TypeInv
  <2>2. CASE i \notin DOMAIN code
    <3>1. i \in 1 .. Len(code) + Len(s)
      BY <1>7
    <3>2. i - Len(code) \in DOMAIN s /\ i = Len(code) + (i - Len(code))
      BY <3>1, <2>2, <1>1, <1>5
    <3>3. code'[i] = Unbound(s[i - Len(code)])
      BY <3>2, <1>4, <1>7
    <3> QED
      BY <3>2, <3>3, <1>3
  <2> QED
    BY <2>1, <2>2
<1>9. Len(code') <= CodeCap /\ Len(code) <= Len(code')
  BY <1>1, <1>5, <1>7
<1>10. CodeGrows
  BY <1>7, <1>8, <1>9 DEF CodeGrows
<1> QED
  BY <1>4, <1>7, <1>10

\* Placed functions call what their module mentions.
LEMMA PlacedCalls ==
    ASSUME TypeInv, CallsInv, CodeGrows, added \subseteq added',
           added' \subseteq Modules,
           \A i \in DOMAIN code' : i \notin DOMAIN code =>
              \E m \in added' : \E k \in DOMAIN ModFuncs[m] :
                  code'[i].calls = ModFuncs[m][k].calls
    PROVE  CallsInv'
<1> SUFFICES ASSUME NEW i \in DOMAIN code', NEW c \in DOMAIN code'[i].calls
             PROVE  \E m \in added' : code'[i].calls[c] \in Mentions(m)
  BY DEF CallsInv, Mentioned
<1>1. CASE i \in DOMAIN code
  BY <1>1 DEF CallsInv, CodeGrows, Mentioned
<1>2. CASE i \notin DOMAIN code
  <2>1. PICK m \in added' : \E k \in DOMAIN ModFuncs[m] : code'[i].calls = ModFuncs[m][k].calls
    BY <1>2
  <2>2. code'[i].calls[c] \in Mentions(m)
    BY <2>1, ModuleNames
  <2> QED
    BY <2>1, <2>2
<1> QED
  BY <1>1, <1>2

\* The first N functions of a module are placed.
LEMMA PlacedModule ==
    ASSUME JInv, stack # <<>>, Top.k = "decls", UNCHANGED <<tab, added>>,
           NEW m \in Modules, m \in added, NEW N \in Nat, N <= Len(ModFuncs[m]),
           Len(code) + N <= CodeCap, Placed(SubSeq(ModFuncs[m], 1, N))
    PROVE  /\ CodeGrows /\ Len(code') = Len(code) + N /\ DOMAIN code' = 1 .. Len(code) + N
           /\ \A k \in 1 .. N : code'[Len(code) + k].calls = ModFuncs[m][k].calls
           /\ CallsInv' /\ PublishedInv' /\ MissInv' /\ LazyInv'
<1> DEFINE F == ModFuncs[m]
           s == SubSeq(F, 1, N)
           S == [name : Names, calls : Seq(Names)]
           l == Len(code)
<1>1. TypeInv /\ ShapeInv /\ LazyInv /\ CallsInv
  BY DEF JInv
<1>2. F \in Seq(S) /\ Len(F) \in Nat /\ DOMAIN F = 1 .. Len(F)
  BY ModuleFuncs
<1>3. l \in Nat /\ DOMAIN code = 1 .. l
  BY <1>1 DEF TypeInv
<1>4. Placed(s) /\ N <= Len(F) /\ l + N <= CodeCap
  OBVIOUS
<1> HIDE DEF F, S, l
<1>5. \A k \in 1 .. N : k \in DOMAIN F /\ F[k] \in S
  BY <1>2, <1>4, ElementOfSeq
<1>6. s \in Seq(S) /\ Len(s) = N /\ \A k \in 1 .. N : s[k] = F[k]
  <2>1. 1 \in Int /\ N \in Int
    OBVIOUS
  <2>2. /\ s \in Seq(S) /\ Len(s) = IF 1 <= N THEN N - 1 + 1 ELSE 0
        /\ \A k \in 1 .. N - 1 + 1 : s[k] = F[1 + k - 1]
    BY <2>1, <1>5, SubSeqProperties
  <2> HIDE DEF s
  <2> QED
    BY <2>2
<1> HIDE DEF s
<1>7. DOMAIN s = 1 .. N
  BY <1>6, LenProperties
<1>8. /\ CodeGrows /\ Len(code') = l + Len(s)
      /\ \A k \in DOMAIN s : code'[l + k] = Unbound(s[k])
  BY <1>1, <1>4, <1>6, PlaceCorrect DEF S, l
<1>9. DOMAIN code' = 1 .. l + N
  <2>1. DOMAIN code' = 1 .. Len(code')
    BY <1>8, LenProperties DEF CodeGrows
  <2> QED
    BY <2>1, <1>6, <1>8
<1>10. \A k \in 1 .. N : code'[l + k].calls = F[k].calls
  BY <1>5, <1>6, <1>7, <1>8, UnboundCorrect DEF S
<1>11. CallsInv'
  <2>1. ASSUME NEW i \in DOMAIN code', i \notin DOMAIN code
        PROVE  \E k \in DOMAIN F : code'[i].calls = F[k].calls
    <3>1. i \in 1 .. l + N /\ i \notin 1 .. l
      BY <2>1, <1>3, <1>9
    <3>2. i - l \in 1 .. N /\ i = l + (i - l)
      BY <3>1, <1>3
    <3> QED
      BY <3>2, <1>5, <1>10
  <2>2. added' = added /\ added \subseteq Modules
    BY <1>1 DEF TypeInv
  <2> QED
    BY <2>1, <2>2, <1>1, <1>8, PlacedCalls DEF F
<1>12. PublishedInv'
  BY <1>8, PublishedStep DEF JInv
<1>13. MissInv'
  BY DEF JInv, MissInv
<1>14. \A n \in Names : tab.lazy[n].st # "compiling"
  BY <1>1, NothingCompiling
<1>15. LazyInv'
  BY <1>1, <1>14 DEF LazyInv
<1> QED
  BY <1>6, <1>8, <1>9, <1>10, <1>11, <1>12, <1>13, <1>15 DEF l, F

\* The targets of code are numbered from 1.
LEMMA TargetsFrom1 ==
    ASSUME NEW s \in Seq(Code), NEW i \in DOMAIN s
    PROVE  DOMAIN s[i].to \subseteq Nat \ {0}
<1>1. s[i] \in Code
  BY ElementOfSeq, LenProperties
<1>2. s[i].to \in Seq(Address \cup {NULL})
  BY <1>1 DEF Code
<1> QED
  BY <1>2, LenProperties

\* lr_jit_add_module compiles the functions.
LEMMA CompileEagerStep ==
    ASSUME JInv, CompileEager
    PROVE  JInv'
<1> DEFINE f == AddFrame("patch", Top.mod, 1, 1)
<1>1. TypeInv /\ ShapeInv /\ stack # <<>> /\ Top.k = "decls" /\ UNCHANGED <<tab, added>>
  BY DEF JInv, CompileEager, At, Idle
<1>2. Top.mod \in added /\ Top.mod \in Modules
  BY <1>1, TopMeans
<1>3. /\ Len(ModFuncs[Top.mod]) \in Nat /\ Len(code) \in Nat /\ CodeCap \in Nat
      /\ Len(code) <= CodeCap /\ DOMAIN code = 1 .. Len(code)
      /\ DOMAIN ModFuncs[Top.mod] = 1 .. Len(ModFuncs[Top.mod])
  BY <1>1, <1>2, JitAssumption DEF TypeInv
<1>4. CASE ~Fits(Len(code) + Len(ModFuncs[Top.mod]))
  <2>1. /\ failed' /\ stack' = Below
        /\ Placed(SubSeq(ModFuncs[Top.mod], 1, CodeCap - Len(code)))
    BY <1>4 DEF CompileEager, Placed
  <2>2. /\ CodeCap - Len(code) \in Nat /\ CodeCap - Len(code) <= Len(ModFuncs[Top.mod])
        /\ Len(code) + (CodeCap - Len(code)) <= CodeCap
    BY <1>3, <1>4 DEF Fits
  <2>3. CodeGrows /\ CallsInv' /\ PublishedInv' /\ MissInv' /\ LazyInv'
    BY <1>1, <1>2, <2>1, <2>2, PlacedModule
  <2>4. stack' \in Seq(FrameType) /\ ShapeInv' /\ NotEager'
    BY <1>1, <2>1, PopStep
  <2>5. DOMAIN stack' = {}
    BY <1>1, <2>1, SingleFrame, StackCorrect DEF TypeInv
  <2>6. MatInv' /\ EagerInv' /\ WorkInv'
    BY <2>1, <2>4, <2>5 DEF MatInv, EagerInv, NotEager, WorkInv
  <2>7. TypeInv'
    BY <1>1, <2>3, <2>4 DEF TypeInv, CodeGrows
  <2> QED
    BY <2>3, <2>4, <2>6, <2>7 DEF JInv
<1>5. ASSUME NEW m, m = Top.mod, NEW N, N = Len(ModFuncs[m]), Fits(Len(code) + N)
      PROVE  JInv'
  <2>1. /\ stack' = Append(Below, f) /\ (~failed' => ~failed)
        /\ Placed(SubSeq(ModFuncs[m], 1, N))
    BY <1>5 DEF CompileEager, Placed
  <2>2. m \in added /\ m \in Modules /\ N \in Nat /\ N <= N /\ Len(code) + N <= CodeCap
    BY <1>2, <1>3, <1>5 DEF Fits
  <2>3. /\ CodeGrows /\ Len(code') = Len(code) + N /\ DOMAIN code' = 1 .. Len(code) + N
        /\ \A k \in 1 .. N : code'[Len(code) + k].calls = ModFuncs[m][k].calls
    BY <1>1, <1>5, <2>1, <2>2, PlacedModule
  <2>4. CallsInv' /\ PublishedInv' /\ MissInv' /\ LazyInv'
    BY <1>1, <1>5, <2>1, <2>2, PlacedModule
  <2>5. f \in FrameType /\ f.k = "patch" /\ f.mod = m /\ f.idx = 1 /\ f.pc = 1
    BY <2>2, <1>5 DEF FrameType, AddFrame, Frame, BaseKinds
  <2>6. FrameOK(Len(stack), f, Len(stack), added)
    BY <1>1, <1>2, SingleFrame DEF FrameOK, AddFrame, Frame, BaseKinds
  <2> HIDE DEF f
  <2>7. Retop(f)
    BY <1>1, <2>1, <2>5, RetopMeans
  <2>8. stack' \in Seq(FrameType) /\ ShapeInv'
    BY <1>1, <2>5, <2>6, <2>7, RetopStep
  <2>9. DOMAIN stack' = {1} /\ stack'[1] = f /\ stack' # <<>>
    BY <1>1, <2>7, SingleFrame, SingleRetop
  <2>10. MatInv'
    BY <2>5, <2>9 DEF MatInv
  <2>11. stack'[1].mod = m /\ stack'[1].k = "patch" /\ stack'[1].idx = 1 /\ stack'[1].pc = 1
    BY <2>5, <2>9
  <2>12. \A k \in 0 .. N : Last(k)' = Len(code) + k
    <3>1. \A k : Last(k)' = Len(code') - Len(ModFuncs[m]) + k
      BY <2>11 DEF Last
    <3> QED
      BY <3>1, <1>3, <1>5, <2>2, <2>3
  <2>13. EagerInv'
    <3>1. DOMAIN ModFuncs[m] = 1 .. N /\ Len(ModFuncs[m]) <= Len(code')
      BY <1>3, <1>5, <2>3
    <3>2. \A k \in 1 .. N : /\ code'[Last(k)'].calls = ModFuncs[m][k].calls
                             /\ Last(k)' \in DOMAIN code' /\ ~(k < 1)
      BY <2>2, <2>3, <2>12, <1>3
    <3>3. \A k \in 1 .. N : \A c \in DOMAIN code'[Last(k)'].to : ~(c < 1)
      <4>1. code' \in Seq(Code)
        BY <2>3 DEF CodeGrows
      <4> QED
        BY <4>1, <3>2, TargetsFrom1
    <3>4. \A k \in 1 .. N : EagerFunc(k)'
      BY <3>2, <3>3, <2>11 DEF EagerFunc
    <3>5. ModFuncs[stack'[1].mod] = ModFuncs[m] /\ stack'[1].idx # 0
      BY <2>11
    <3>6. /\ Len(ModFuncs[stack'[1].mod]) <= Len(code')
          /\ \A k \in DOMAIN ModFuncs[stack'[1].mod] : EagerFunc(k)'
      BY <3>1, <3>4, <3>5
    <3> QED
      BY <3>5, <3>6 DEF EagerInv
  <2>14. WorkInv'
    <3> SUFFICES ASSUME ~failed, NEW i \in 1 .. Len(code) + N
                 PROVE  Bound(i)' \/ i > Last(0)'
      BY <2>1, <2>3, <2>9, <2>11 DEF WorkInv
    <3>1. i \in DOMAIN code \/ i > Last(0)'
      BY <1>3, <2>2, <2>12
    <3>2. \A j \in DOMAIN code : Bound(j)'
      BY <1>1, <2>3, BoundStays, SingleFrame
    <3> QED
      BY <3>1, <3>2
  <2>15. TypeInv'
    BY <1>1, <2>3, <2>8 DEF TypeInv, CodeGrows
  <2> QED
    BY <2>4, <2>8, <2>10, <2>13, <2>14, <2>15 DEF JInv
<1> QED
  BY <1>4, <1>5

\* Where a call goes, and what finding out leaves in the table.
LEMMA TargetCorrect ==
    ASSUME TypeInv, NEW own, \A x \in DOMAIN own : own[x] \in Address, NEW n \in Names
    PROVE  /\ TargetAddr(own, n) \in Address \cup {NULL}
           /\ TargetView(own, n) \in {tab, LookupView(tab, n)}
BY LookupAddrCorrect DEF TargetAddr, TargetView, TypeInv

\* One call is bound.
Binds(i, c, a) == code' = [code EXCEPT ![i].to[c] = a]

\* Nothing else changes in the code.
LEMMA BindsCorrect ==
    ASSUME TypeInv, NEW i \in DOMAIN code, NEW c \in DOMAIN code[i].to, NEW a \in Address,
           Binds(i, c, a)
    PROVE  /\ CodeGrows /\ Len(code') = Len(code) /\ DOMAIN code' = DOMAIN code
           /\ \A j \in DOMAIN code : j # i => code'[j] = code[j]
           /\ code'[i].calls = code[i].calls /\ DOMAIN code'[i].to = DOMAIN code[i].to
           /\ code'[i].to[c] # NULL
           /\ \A d \in DOMAIN code[i].to : d # c => code'[i].to[d] = code[i].to[d]
<1>1. code \in Seq(Code) /\ DOMAIN code = 1 .. Len(code) /\ Len(code) \in Nat
  BY DEF TypeInv
<1>2. code[i] \in Code /\ Len(code[i].to) = Len(code[i].calls)
  BY <1>1, ElementOfSeq DEF TypeInv
<1> DEFINE t == [code[i].to EXCEPT ![c] = a]
           r == [code[i] EXCEPT !.to = t]
<1>3. /\ t \in Seq(Address \cup {NULL}) /\ Len(t) = Len(code[i].to)
      /\ DOMAIN t = DOMAIN code[i].to /\ t[c] = a
      /\ \A d \in DOMAIN code[i].to : d # c => t[d] = code[i].to[d]
  <2>1. code[i].to \in Seq(Address \cup {NULL})
    BY <1>2 DEF Code
  <2> QED
    BY <2>1
<1> HIDE DEF t
<1>4. r \in Code /\ r.fn = code[i].fn /\ r.calls = code[i].calls /\ r.to = t
  BY <1>2, <1>3 DEF Code
<1> HIDE DEF r
<1>5. code' = [code EXCEPT ![i] = r]
  BY DEF Binds, r, t
<1>6. /\ code' \in Seq(Code) /\ Len(code') = Len(code) /\ DOMAIN code' = DOMAIN code
      /\ code'[i] = r /\ \A j \in DOMAIN code : j # i => code'[j] = code[j]
  BY <1>1, <1>4, <1>5
<1>7. a # NULL
  BY JitAssumption
<1>8. CodeGrows
  <2>1. \A j \in DOMAIN code' : Len(code'[j].to) = Len(code'[j].calls)
    BY <1>2, <1>3, <1>4, <1>6 DEF TypeInv
  <2>2. \A j \in DOMAIN code :
          /\ code'[j].fn = code[j].fn /\ code'[j].calls = code[j].calls
          /\ \A d \in DOMAIN code[j].to : code[j].to[d] # NULL => code'[j].to[d] # NULL
    BY <1>3, <1>4, <1>6, <1>7
  <2>3. Len(code') <= CodeCap /\ Len(code) <= Len(code')
    BY <1>1, <1>6 DEF TypeInv
  <2> QED
    BY <2>1, <2>2, <2>3, <1>6 DEF CodeGrows
<1> QED
  BY <1>3, <1>4, <1>6, <1>7, <1>8

\* The module that is being patched or published.
LEMMA EagerMeans ==
    ASSUME JInv, stack # <<>>, Top.k \in {"patch", "publish"}
    PROVE  /\ Top.mod \in added /\ Top.mod \in Modules /\ Len(stack) = 1 /\ stack[1] = Top
           /\ Top.pc \in Nat \ {0} /\ Top.idx \in Nat /\ (Top.k = "patch" => Top.idx # 0)
           /\ \A k \in Nat : EagerIndex(k) = Last(k) /\ Last(k) \in Nat
           /\ \A k, l \in Nat : Last(k) = Last(l) => k = l
           /\ \A k \in DOMAIN ModFuncs[Top.mod] : Last(k) \in DOMAIN code /\ EagerFunc(k)
           /\ \A i \in DOMAIN code :
                 i > Last(0) => \E k \in DOMAIN ModFuncs[Top.mod] : i = Last(k)
<1>1. TypeInv /\ ShapeInv /\ EagerInv
  BY DEF JInv
<1>2. /\ Top.mod \in added /\ Top.mod \in Modules /\ Top.pc \in Nat \ {0} /\ Top.idx \in Nat
  BY <1>1, TopMeans DEF FrameOK
<1>3. Len(stack) = 1 /\ stack[1] = Top
  BY SingleFrame
<1> DEFINE L == Len(code)
           F == ModFuncs[Top.mod]
<1>4. L \in Nat /\ DOMAIN code = 1 .. L /\ Len(F) \in Nat /\ DOMAIN F = 1 .. Len(F)
  BY <1>1, <1>2, ModuleFuncs DEF TypeInv
<1>5. Len(F) <= L /\ (\A k \in DOMAIN F : EagerFunc(k)) /\ (Top.k = "patch" => Top.idx # 0)
  BY <1>1, <1>3 DEF EagerInv
<1>6. \A k : EagerIndex(k) = L - Len(F) + k /\ Last(k) = L - Len(F) + k
  BY <1>3 DEF EagerIndex, Last
<1> HIDE DEF L, F
<1>7. /\ \A k \in Nat : Last(k) \in Nat
      /\ \A k, l \in Nat : Last(k) = Last(l) => k = l
      /\ \A k \in DOMAIN F : Last(k) \in 1 .. L
  BY <1>4, <1>5, <1>6
<1>8. \A i \in 1 .. L : i > Last(0) => \E k \in DOMAIN F : i = Last(k)
  <2> SUFFICES ASSUME NEW i \in 1 .. L, i > Last(0)
               PROVE  \E k \in DOMAIN F : i = Last(k)
    OBVIOUS
  <2>1. i - (L - Len(F)) \in DOMAIN F /\ i = Last(i - (L - Len(F)))
    BY <1>4, <1>5, <1>6
  <2> QED
    BY <2>1
<1> QED
  BY <1>2, <1>3, <1>4, <1>5, <1>6, <1>7, <1>8 DEF F

\* The code of the module stays where it is.
LEMMA LastStays ==
    ASSUME Len(code') = Len(code), stack'[1].mod = stack[1].mod, NEW k
    PROVE  Last(k)' = Last(k)
BY DEF Last

\* A stage of lr_jit_add_module that goes on to a stage f of the same module.
LEMMA EagerFrameStep ==
    ASSUME JInv, stack # <<>>, Top.k \in {"patch", "publish"}, NEW f \in FrameType,
           stack' = Append(Below, f), f.k \in {"patch", "publish"}, f.mod = Top.mod,
           f.pc # 0, CodeGrows, Len(code') = Len(code), Looks, UNCHANGED <<added, failed>>,
           f.k = "patch" => f.idx # 0,
           \A k \in DOMAIN ModFuncs[Top.mod] : EagerFunc(k)',
           f.k = "publish" => \A k \in DOMAIN ModFuncs[Top.mod] : Bound(Last(k))'
    PROVE  JInv'
<1>1. TypeInv /\ ShapeInv /\ LazyInv /\ CallsInv
  BY DEF JInv
<1>2. Top.mod \in added /\ Len(stack) = 1 /\ stack[1] = Top
  BY EagerMeans
<1>3. FrameOK(Len(stack), f, Len(stack), added)
  BY <1>2 DEF FrameOK, BaseKinds
<1>4. Retop(f)
  BY <1>1, RetopMeans
<1>5. stack' \in Seq(FrameType) /\ ShapeInv'
  BY <1>1, <1>3, <1>4, RetopStep
<1>6. DOMAIN stack' = {1} /\ stack'[1] = f /\ stack' # <<>>
  BY <1>2, <1>4, SingleRetop
<1>7. tab' \in Tab /\ tab'.lazy = tab.lazy /\ PublishedInv' /\ MissInv'
  BY LooksStep
<1>8. TypeInv'
  BY <1>1, <1>5, <1>7 DEF TypeInv, CodeGrows
<1>9. MatInv'
  BY <1>6 DEF MatInv
<1>10. LazyInv'
  <2>1. \A n \in Names : tab.lazy[n].st # "compiling"
    BY <1>1, NothingCompiling
  <2> QED
    BY <2>1, <1>1, <1>7 DEF LazyInv
<1>11. CallsInv'
  BY <1>1, CallsStay
<1>12. EagerInv'
  <2>1. ModFuncs[stack'[1].mod] = ModFuncs[Top.mod] /\ (stack'[1].k = "patch" => stack'[1].idx # 0)
    BY <1>6
  <2>2. Len(ModFuncs[Top.mod]) <= Len(code')
    BY <1>2 DEF JInv, EagerInv
  <2>3. /\ Len(ModFuncs[stack'[1].mod]) <= Len(code')
        /\ \A k \in DOMAIN ModFuncs[stack'[1].mod] : EagerFunc(k)'
    BY <2>1, <2>2
  <2> QED
    BY <2>1, <2>3 DEF EagerInv
<1>13. WorkInv'
  <2>1. DOMAIN code' = DOMAIN code /\ Last(0)' = Last(0)
    BY <1>1, <1>2, <1>6, LastStays DEF TypeInv, CodeGrows
  <2> SUFFICES ASSUME ~failed, NEW i \in DOMAIN code
               PROVE  Bound(i)' \/ (f.k = "patch" /\ i > Last(0))
    BY <2>1, <1>6 DEF WorkInv
  <2>2. \A d \in DOMAIN stack : stack[d].k # "mat"
    BY SingleFrame
  <2>3. CASE Bound(i)
    BY <2>3, <1>1, BoundStays
  <2>4. CASE ~Bound(i)
    <3>1. i > Last(0) /\ Top.k = "patch"
      BY <2>2, <2>4, <1>2 DEF JInv, WorkInv
    <3>2. CASE f.k = "publish"
      <4>1. PICK k \in DOMAIN ModFuncs[Top.mod] : i = Last(k)
        BY <3>1, EagerMeans
      <4>2. Last(k)' = Last(k)
        BY <1>2, <1>6, LastStays
      <4> QED
        BY <3>2, <4>1, <4>2 DEF Bound
    <3> QED
      BY <3>1, <3>2
  <2> QED
    BY <2>3, <2>4
<1> QED
  BY <1>5, <1>7, <1>8, <1>9, <1>10, <1>11, <1>12, <1>13 DEF JInv

\* One function is patched, the next one starts; and all of them are.
LEMMA PatchedStep ==
    ASSUME JInv, PatchNext \/ Patched
    PROVE  JInv'
<1>1. /\ stack # <<>> /\ Top.k = "patch" /\ UNCHANGED <<tab, code, added, failed>> /\ TypeInv
  BY DEF PatchNext, Patched, Patching, At, Idle, JInv
<1>2. CodeGrows /\ Len(code') = Len(code) /\ Looks
  BY <1>1, CodeStays DEF Looks
<1>3. /\ Top.mod \in added /\ Top.mod \in Modules /\ stack[1] = Top /\ Len(stack) = 1
      /\ Top.pc \in Nat \ {0} /\ Top.idx \in Nat \ {0}
      /\ \A k \in DOMAIN ModFuncs[Top.mod] : Last(k) \in DOMAIN code /\ EagerFunc(k)
  BY <1>1, EagerMeans
<1>4. DOMAIN ModFuncs[Top.mod] = 1 .. Len(ModFuncs[Top.mod]) /\ Len(ModFuncs[Top.mod]) \in Nat
  BY <1>3, ModuleFuncs
<1>5. ASSUME NEW f \in FrameType, stack' = Append(Below, f), f.mod = Top.mod
      PROVE  stack'[1] = f /\ \A k : Last(k)' = Last(k)
  <2>1. Retop(f)
    BY <1>1, <1>5, RetopMeans
  <2>2. stack'[1] = f
    BY <2>1, <1>3, SingleRetop
  <2> QED
    BY <2>2, <1>2, <1>3, <1>5, LastStays
<1>6. CASE PatchNext
  <2> DEFINE f == AddFrame("patch", Top.mod, Top.idx + 1, 1)
  <2>1. /\ f \in FrameType /\ f.k = "patch" /\ f.mod = Top.mod /\ f.idx = Top.idx + 1 /\ f.pc = 1
        /\ stack' = Append(Below, f)
    BY <1>3, <1>6 DEF PatchNext, FrameType, AddFrame, Frame, BaseKinds
  <2> HIDE DEF f
  <2>2. stack'[1] = f /\ \A k : Last(k)' = Last(k)
    BY <2>1, <1>5
  <2>3. Bound(Last(Top.idx))
    <3>1. /\ Top.idx \in DOMAIN ModFuncs[Top.mod] /\ Top.pc > Len(ModFuncs[Top.mod][Top.idx].calls)
      BY <1>3, <1>4, <1>6 DEF PatchNext, Patching, EagerCalls
    <3> DEFINE i == Last(Top.idx)
    <3>2. /\ i \in DOMAIN code /\ code[i].calls = ModFuncs[Top.mod][Top.idx].calls
          /\ \A c \in DOMAIN code[i].to : c < Top.pc => code[i].to[c] # NULL
      BY <3>1, <1>1, <1>3 DEF EagerFunc
    <3> HIDE DEF i
    <3>3. code[i] \in Code /\ Len(code[i].to) = Len(code[i].calls)
      BY <3>2, <1>1, ElementOfSeq DEF TypeInv
    <3>4. DOMAIN code[i].to = 1 .. Len(code[i].calls) /\ Len(code[i].calls) \in Nat
      BY <3>3 DEF Code
    <3>5. \A c \in DOMAIN code[i].to : code[i].to[c] # NULL
      BY <3>1, <3>2, <3>4, <1>3
    <3> QED
      BY <3>5 DEF Bound, Range, i
  <2>4. ASSUME NEW k \in DOMAIN ModFuncs[Top.mod]
        PROVE  EagerFunc(k)'
    <3>1. EagerFunc(k) /\ k \in Nat
      BY <1>3, <1>4
    <3>2. Last(k) \in DOMAIN code
      BY <1>3
    <3>3. code'[Last(k)'].calls = ModFuncs[stack'[1].mod][k].calls
      BY <3>1, <2>1, <2>2, <1>1, <1>3 DEF EagerFunc
    <3>4. k < f.idx => Bound(Last(k))'
      <4>1. k < f.idx => k < Top.idx \/ k = Top.idx
        BY <3>1, <2>1, <1>3
      <4>2. k < Top.idx => Bound(Last(k))
        BY <3>1, <1>1, <1>3 DEF EagerFunc
      <4>3. k = Top.idx => Bound(Last(k))
        BY <2>3
      <4>4. Bound(Last(k)) => Bound(Last(k))'
        BY <2>2, <1>1 DEF Bound
      <4> QED
        BY <4>1, <4>2, <4>3, <4>4
    <3>5. \A c \in DOMAIN code'[Last(k)'].to : ~(c < f.pc)
      <4>1. code \in Seq(Code)
        BY <1>1 DEF TypeInv
      <4>2. DOMAIN code[Last(k)].to \subseteq Nat \ {0}
        BY <4>1, <3>2, TargetsFrom1
      <4> QED
        BY <4>2, <2>1, <2>2, <1>1
    <3> QED
      BY <3>3, <3>4, <3>5, <2>1, <2>2 DEF EagerFunc
  <2>5. f.pc # 0 /\ f.idx # 0
    BY <2>1, <1>3
  <2> QED
    BY <2>1, <2>4, <2>5, <1>1, <1>2, EagerFrameStep
<1>7. CASE Patched
  <2> DEFINE f == AddFrame("publish", Top.mod, 0, 1)
  <2>1. /\ f \in FrameType /\ f.k = "publish" /\ f.mod = Top.mod /\ f.pc = 1
        /\ stack' = Append(Below, f)
    BY <1>3, <1>7 DEF Patched, FrameType, AddFrame, Frame, BaseKinds
  <2> HIDE DEF f
  <2>2. stack'[1] = f /\ \A k : Last(k)' = Last(k)
    BY <2>1, <1>5
  <2>3. ASSUME NEW k \in DOMAIN ModFuncs[Top.mod]
        PROVE  EagerFunc(k)' /\ Bound(Last(k))'
    <3>1. EagerFunc(k) /\ k < Top.idx
      BY <1>3, <1>4, <1>7 DEF Patched
    <3>2. Bound(Last(k))'
      BY <3>1, <2>2, <1>1, <1>3 DEF EagerFunc, Bound
    <3>3. code'[Last(k)'].calls = ModFuncs[stack'[1].mod][k].calls
      BY <3>1, <2>1, <2>2, <1>1, <1>3 DEF EagerFunc
    <3> QED
      BY <3>2, <3>3, <2>1, <2>2 DEF EagerFunc
  <2>4. f.pc # 0
    BY <2>1
  <2> QED
    BY <2>1, <2>3, <2>4, <1>1, <1>2, EagerFrameStep
<1> QED
  BY <1>6, <1>7

\* The functions of a module have addresses.
LEMMA OwnAddrsCorrect ==
    ASSUME JInv, stack # <<>>, Top.k = "patch", NEW n \in DOMAIN OwnAddrs
    PROVE  OwnAddrs[n] \in Address
<1> DEFINE k == CHOOSE k \in DOMAIN ModFuncs[Top.mod] : ModFuncs[Top.mod][k].name = n
<1>1. n \in Defines(Top.mod) /\ OwnAddrs[n] = CodeAddr(EagerIndex(k))
  BY DEF OwnAddrs
<1>2. k \in DOMAIN ModFuncs[Top.mod]
  BY <1>1 DEF Defines
<1> HIDE DEF k
<1>3. k \in Nat
  <2>1. Top.mod \in Modules
    BY EagerMeans
  <2>2. DOMAIN ModFuncs[Top.mod] = 1 .. Len(ModFuncs[Top.mod])
    BY <2>1, ModuleFuncs
  <2> QED
    BY <1>2, <2>2
<1>4. EagerIndex(k) \in DOMAIN code
  BY <1>2, <1>3, EagerMeans
<1>5. EagerIndex(k) \in 1 .. CodeCap
  BY <1>4, JitAssumption DEF JInv, TypeInv
<1> QED
  BY <1>1, <1>5 DEF Address

\* lr_jit_add_module patches one call of a function.
LEMMA PatchEagerStep ==
    ASSUME JInv, PatchEager
    PROVE  JInv'
<1>1. /\ stack # <<>> /\ Top.k = "patch" /\ added' = added /\ TypeInv /\ ShapeInv /\ CallsInv
      /\ LazyInv
  BY DEF PatchEager, Patching, At, Idle, JInv
<1>2. /\ Top.mod \in added /\ Top.mod \in Modules /\ stack[1] = Top /\ Len(stack) = 1
      /\ Top.pc \in Nat \ {0} /\ Top.idx \in Nat \ {0}
      /\ \A k \in Nat : EagerIndex(k) = Last(k)
      /\ \A k, l \in Nat : Last(k) = Last(l) => k = l
      /\ \A k \in DOMAIN ModFuncs[Top.mod] : Last(k) \in DOMAIN code /\ EagerFunc(k)
  BY <1>1, EagerMeans
<1>3. DOMAIN ModFuncs[Top.mod] = 1 .. Len(ModFuncs[Top.mod]) /\ Len(ModFuncs[Top.mod]) \in Nat
  BY <1>2, ModuleFuncs
<1>4. Top.idx \in DOMAIN ModFuncs[Top.mod] /\ Top.pc <= Len(EagerCalls)
  BY <1>2, <1>3 DEF PatchEager, Patching
<1> DEFINE i == Last(Top.idx)
           n == EagerCall
<1>5. /\ i \in DOMAIN code /\ code[i].calls = EagerCalls
      /\ \A c \in DOMAIN code[i].to : c < Top.pc => code[i].to[c] # NULL
  BY <1>1, <1>2, <1>4 DEF EagerFunc, EagerCalls
<1> HIDE DEF i
<1>6. /\ code[i] \in Code /\ DOMAIN code[i].to = 1 .. Len(code[i].calls)
      /\ DOMAIN code[i].calls = 1 .. Len(code[i].calls) /\ Len(code[i].calls) \in Nat
  <2>1. code[i] \in Code /\ Len(code[i].to) = Len(code[i].calls)
    BY <1>1, <1>5, ElementOfSeq DEF TypeInv
  <2> QED
    BY <2>1 DEF Code
<1>7. Top.pc \in DOMAIN code[i].to /\ Top.pc \in DOMAIN code[i].calls
  BY <1>2, <1>4, <1>5, <1>6
<1>8. n \in Names /\ Mentioned(n)
  <2>1. n = code[i].calls[Top.pc]
    BY <1>5 DEF EagerCall
  <2>2. n \in Names
    BY <2>1, <1>6, <1>7 DEF Code
  <2> QED
    BY <2>1, <2>2, <1>1, <1>5, <1>7 DEF CallsInv
<1>9. Looks
  <2>1. tab' \in {tab, LookupView(tab, n)}
    BY <1>1, <1>8, TargetCorrect, OwnAddrsCorrect DEF PatchEager
  <2> QED
    BY <2>1, <1>8 DEF Looks
<1>10. CASE TargetAddr(OwnAddrs, n) # NULL
  <2>1. TargetAddr(OwnAddrs, n) \in Address
    BY <1>1, <1>8, <1>10, TargetCorrect, OwnAddrsCorrect
  <2>2. Binds(i, Top.pc, TargetAddr(OwnAddrs, n)) /\ Advance /\ failed' = failed
    BY <1>2, <1>10 DEF PatchEager, Binds, i
  <2> HIDE DEF n
  <2>3. /\ CodeGrows /\ Len(code') = Len(code) /\ DOMAIN code' = DOMAIN code
        /\ \A j \in DOMAIN code : j # i => code'[j] = code[j]
        /\ code'[i].calls = code[i].calls /\ DOMAIN code'[i].to = DOMAIN code[i].to
        /\ code'[i].to[Top.pc] # NULL
        /\ \A d \in DOMAIN code[i].to : d # Top.pc => code'[i].to[d] = code[i].to[d]
    BY <1>1, <1>5, <1>7, <2>1, <2>2, BindsCorrect
  <2> DEFINE f == [Top EXCEPT !.pc = @ + 1]
  <2>4. /\ f \in FrameType /\ f.k = Top.k /\ f.mod = Top.mod /\ f.idx = Top.idx
        /\ f.pc = Top.pc + 1
    BY <1>1, AdvanceCorrect
  <2>5. stack' = Append(Below, f)
    BY <2>2 DEF Advance
  <2> HIDE DEF f
  <2>6. Retop(f)
    BY <2>4, <2>5, <1>1, RetopMeans
  <2>7. stack'[1] = f
    BY <2>6, <1>2, SingleRetop
  <2>8. \A k : Last(k)' = Last(k)
    BY <2>3, <2>4, <2>7, <1>2, LastStays
  <2>9. ASSUME NEW k \in DOMAIN ModFuncs[Top.mod]
        PROVE  EagerFunc(k)'
    <3>1. Last(k) \in DOMAIN code /\ EagerFunc(k)
      BY <1>2
    <3>2. code'[Last(k)].calls = code[Last(k)].calls
      BY <3>1, <2>3
    <3>3. code'[Last(k)'].calls = ModFuncs[stack'[1].mod][k].calls
      BY <3>1, <3>2, <2>4, <2>7, <2>8, <1>2 DEF EagerFunc
    <3>4. k < Top.idx => Bound(Last(k))'
      <4>1. k < Top.idx => Bound(Last(k))
        BY <3>1, <1>2 DEF EagerFunc
      <4>2. \A j \in DOMAIN code : Bound(j) => Bound(j)'
        BY <2>3, <1>1, BoundStays
      <4>3. Bound(Last(k)) => Bound(Last(k))'
        BY <4>2, <3>1, <2>8 DEF Bound
      <4> QED
        BY <4>1, <4>3
    <3>5. ASSUME k = Top.idx
          PROVE  \A c \in DOMAIN code'[Last(k)'].to : c < Top.pc + 1 => code'[Last(k)'].to[c] # NULL
      <4>1. Last(k)' = i
        BY <3>5, <2>8 DEF i
      <4>2. \A c \in 1 .. Len(code[i].calls) : c < Top.pc + 1 => c = Top.pc \/ c < Top.pc
        BY <1>2
      <4>3. \A c \in DOMAIN code'[i].to : c < Top.pc + 1 => code'[i].to[c] # NULL
        BY <4>2, <2>3, <1>2, <1>5, <1>6
      <4> QED
        BY <4>1, <4>3
    <3> QED
      BY <3>3, <3>4, <3>5, <2>4, <2>7, <1>1 DEF EagerFunc
  <2>10. f.pc # 0 /\ f.idx # 0
    BY <2>4, <1>2
  <2> QED
    BY <2>2, <2>3, <2>4, <2>5, <2>9, <2>10, <1>1, <1>9, EagerFrameStep
<1>11. CASE TargetAddr(OwnAddrs, n) = NULL
  <2>1. stack' = Below /\ failed' /\ code' = code
    BY <1>11 DEF PatchEager
  <2>2. CodeGrows
    BY <1>1, <2>1, CodeStays
  <2>3. tab' \in Tab /\ tab'.lazy = tab.lazy /\ PublishedInv' /\ MissInv'
    BY <1>1, <1>9, <2>2, LooksStep
  <2>4. stack' \in Seq(FrameType) /\ ShapeInv' /\ NotEager'
    BY <1>1, <2>1, PopStep
  <2>5. DOMAIN stack' = {}
    BY <1>1, <1>2, <2>1, StackCorrect DEF TypeInv
  <2>6. MatInv' /\ EagerInv' /\ WorkInv'
    BY <2>1, <2>4, <2>5 DEF MatInv, EagerInv, NotEager, WorkInv
  <2>7. LazyInv'
    <3>1. \A x \in Names : tab.lazy[x].st # "compiling"
      BY <1>1, NothingCompiling
    <3> QED
      BY <3>1, <2>3, <1>1 DEF LazyInv
  <2>8. CallsInv'
    BY <1>1, <2>1, <2>2, CallsStay
  <2>9. TypeInv'
    BY <1>1, <2>1, <2>3, <2>4 DEF TypeInv
  <2> QED
    BY <2>3, <2>4, <2>6, <2>7, <2>8, <2>9 DEF JInv
<1> QED
  BY <1>10, <1>11

\* A patched function is published.
LEMMA PublishEagerStep ==
    ASSUME JInv, PublishEager
    PROVE  JInv'
<1>1. /\ stack # <<>> /\ Top.k = "publish" /\ UNCHANGED <<code, added, failed>>
      /\ TypeInv /\ ShapeInv /\ LazyInv /\ CallsInv
  BY DEF PublishEager, At, Idle, JInv
<1>2. /\ Top.mod \in added /\ Top.mod \in Modules /\ stack[1] = Top /\ Len(stack) = 1
      /\ Top.pc \in Nat \ {0} /\ \A k \in Nat : EagerIndex(k) = Last(k)
      /\ \A k \in DOMAIN ModFuncs[Top.mod] : Last(k) \in DOMAIN code /\ EagerFunc(k)
  BY <1>1, EagerMeans
<1>3. DOMAIN ModFuncs[Top.mod] = 1 .. Len(ModFuncs[Top.mod]) /\ Len(ModFuncs[Top.mod]) \in Nat
  BY <1>2, ModuleFuncs
<1>4. Top.pc \in DOMAIN ModFuncs[Top.mod]
  BY <1>2, <1>3 DEF PublishEager
<1>5. CodeGrows
  BY <1>1, CodeStays
<1>6. ASSUME NEW n, n = ModFuncs[Top.mod][Top.pc].name, NEW i, i = EagerIndex(Top.pc)
      PROVE  tab' \in Tab /\ tab'.lazy = tab.lazy /\ PublishedInv' /\ MissInv'
  <2>1. n \in Names
    BY <1>2, <1>4, <1>6, ModuleNames
  <2>2. i \in DOMAIN code /\ Bound(i)
    BY <1>1, <1>2, <1>4, <1>6 DEF EagerFunc
  <2>3. CodeAddr(i) \in Address
    <3>1. i \in 1 .. CodeCap
      BY <2>2, <1>1, JitAssumption DEF TypeInv
    <3> QED
      BY <3>1 DEF Address
  <2>4. tab \in Tab /\ tab' = Bind(tab, n, CodeAddr(i))
    BY <1>1, <1>6 DEF PublishEager, TypeInv
  <2>5. \A j \in 1 .. CodeCap : CodeAddr(i) = CodeAddr(j) => j \in DOMAIN code' /\ Bound(j)'
    <3>1. \A j : CodeAddr(i) = CodeAddr(j) => i = j
      BY DEF CodeAddr
    <3> QED
      BY <3>1, <2>2, <1>1, <1>5, BoundStays
  <2>6. PublishedInv' /\ MissInv'
    BY <2>1, <2>3, <2>4, <2>5, <1>1, <1>5, BindStep DEF JInv
  <2> QED
    BY <2>1, <2>3, <2>4, <2>6, BindCorrect
<1>7. tab' \in Tab /\ tab'.lazy = tab.lazy /\ PublishedInv' /\ MissInv'
  BY <1>6
<1> DEFINE f == [Top EXCEPT !.pc = @ + 1]
<1>8. /\ f \in FrameType /\ f.k = Top.k /\ f.mod = Top.mod
      /\ FrameOK(Len(stack), f, Len(stack), added)
  BY <1>1, AdvanceCorrect
<1>9. stack' = Append(Below, f)
  BY DEF PublishEager, Advance
<1> HIDE DEF f
<1>10. Retop(f)
  BY <1>1, <1>8, <1>9, RetopMeans
<1>11. stack' \in Seq(FrameType) /\ ShapeInv'
  BY <1>1, <1>8, <1>10, RetopStep
<1>12. DOMAIN stack' = {1} /\ stack'[1] = f /\ stack' # <<>>
  BY <1>2, <1>10, SingleRetop
<1>13. TypeInv'
  BY <1>1, <1>7, <1>11 DEF TypeInv
<1>14. MatInv'
  BY <1>1, <1>8, <1>12 DEF MatInv
<1>15. LazyInv'
  <2>1. \A n \in Names : tab.lazy[n].st # "compiling"
    BY <1>1, NothingCompiling
  <2> QED
    BY <2>1, <1>1, <1>7 DEF LazyInv
<1>16. CallsInv'
  BY <1>1, <1>5, CallsStay
<1>17. EagerInv'
  <2>1. \A k : Last(k)' = Last(k)
    BY <1>1, <1>2, <1>8, <1>12, LastStays
  <2>2. \A k \in DOMAIN ModFuncs[Top.mod] : EagerFunc(k)'
    <3> SUFFICES ASSUME NEW k \in DOMAIN ModFuncs[Top.mod]
                 PROVE  EagerFunc(k)'
      OBVIOUS
    <3>1. code[Last(k)].calls = ModFuncs[Top.mod][k].calls /\ Bound(Last(k))
      BY <1>1, <1>2 DEF EagerFunc
    <3>2. code'[Last(k)'].calls = ModFuncs[stack'[1].mod][k].calls /\ Bound(Last(k))'
      BY <3>1, <2>1, <1>1, <1>8, <1>12 DEF Bound
    <3> QED
      BY <3>2, <1>1, <1>8, <1>12 DEF EagerFunc
  <2>3. ModFuncs[stack'[1].mod] = ModFuncs[Top.mod] /\ Len(ModFuncs[Top.mod]) <= Len(code')
    BY <1>1, <1>2, <1>8, <1>12 DEF JInv, EagerInv
  <2>4. stack'[1].k = "publish"
    BY <1>1, <1>8, <1>12
  <2> QED
    BY <2>2, <2>3, <2>4 DEF EagerInv
<1>18. WorkInv'
  BY <1>1, SingleFrame DEF WorkInv, Bound
<1> QED
  BY <1>7, <1>11, <1>13, <1>14, <1>15, <1>16, <1>17, <1>18 DEF JInv

\* The positions below the top.
LEMMA Positions ==
    ASSUME NEW l \in Nat \ {0}
    PROVE  /\ \A d \in 1 .. l : d \in 1 .. l - 1 \/ d = l
           /\ \A d \in 1 .. l - 1 : d \in 1 .. l /\ d # l
OBVIOUS

\* The function that is being materialized.
LEMMA MatTop ==
    ASSUME JInv, stack # <<>>, Top.k = "mat"
    PROVE  /\ Top.name \in Names /\ Top.mod \in added /\ Top.mod \in Modules
           /\ Top.pc \in Nat \ {0} /\ Top.idx \in DOMAIN code /\ Top.idx \in 1 .. CodeCap
           /\ tab.lazy[Top.name].st = "compiling"
           /\ \A c \in DOMAIN code[Top.idx].to : c < Top.pc => code[Top.idx].to[c] # NULL
           /\ \A d \in 1 .. Len(stack) - 1 : stack[d].k = "mat" => stack[d].name # Top.name
           /\ code[Top.idx] \in Code /\ Len(code[Top.idx].calls) \in Nat
           /\ DOMAIN code[Top.idx].to = 1 .. Len(code[Top.idx].calls)
           /\ DOMAIN code[Top.idx].calls = 1 .. Len(code[Top.idx].calls)
           /\ NotEager /\ NotPatching
<1>1. TypeInv /\ ShapeInv /\ MatInv
  BY DEF JInv
<1>2. /\ Len(stack) \in Nat \ {0} /\ DOMAIN stack = 1 .. Len(stack)
      /\ Len(stack) \in DOMAIN stack /\ Top = stack[Len(stack)]
  BY <1>1, StackCorrect DEF TypeInv, Top
<1>3. Top.mod \in added /\ Top.mod \in Modules /\ Top.pc \in Nat \ {0}
  BY <1>1, TopMeans DEF FrameOK
<1>4. /\ Top.name \in Names /\ Top.idx \in DOMAIN code /\ tab.lazy[Top.name].st = "compiling"
      /\ \A c \in DOMAIN code[Top.idx].to : c < Top.pc => code[Top.idx].to[c] # NULL
  BY <1>1, <1>2 DEF MatInv
<1>5. \A d \in 1 .. Len(stack) - 1 : stack[d].k = "mat" => stack[d].name # Top.name
  <2>1. \A d \in 1 .. Len(stack) - 1 : d \in DOMAIN stack /\ d # Len(stack)
    <3>1. \A d \in 1 .. Len(stack) - 1 : d \in 1 .. Len(stack) /\ d # Len(stack)
      BY <1>2, Positions
    <3> QED
      BY <3>1, <1>2
  <2> QED
    BY <2>1, <1>1, <1>2 DEF MatInv
<1>6. code[Top.idx] \in Code /\ Len(code[Top.idx].to) = Len(code[Top.idx].calls)
  BY <1>1, <1>4, ElementOfSeq DEF TypeInv
<1>7. /\ Len(code[Top.idx].calls) \in Nat
      /\ DOMAIN code[Top.idx].to = 1 .. Len(code[Top.idx].calls)
      /\ DOMAIN code[Top.idx].calls = 1 .. Len(code[Top.idx].calls)
  BY <1>6 DEF Code
<1>8. Top.idx \in 1 .. CodeCap
  BY <1>1, <1>4, JitAssumption DEF TypeInv
<1>9. NotEager /\ NotPatching
  BY <1>1, OtherCall
<1> QED
  BY <1>3, <1>4, <1>5, <1>6, <1>7, <1>8, <1>9

\* The call the patching loop is at.
LEMMA MatCallCorrect ==
    ASSUME JInv, MatMore
    PROVE  /\ stack # <<>> /\ Top.k = "mat" /\ Top.pc \in DOMAIN code[Top.idx].to
           /\ MatCall \in Names /\ Mentioned(MatCall)
           /\ TargetAddr(MatOwn, MatCall) \in Address \cup {NULL}
           /\ TargetView(MatOwn, MatCall) \in {tab, LookupView(tab, MatCall)}
<1>1. stack # <<>> /\ Top.k = "mat" /\ TypeInv /\ CallsInv
  BY DEF MatMore, At, Idle, JInv
<1>2. Top.pc \in 1 .. Len(code[Top.idx].calls)
  BY <1>1, MatTop DEF MatMore
<1>3. Top.pc \in DOMAIN code[Top.idx].to /\ Top.pc \in DOMAIN code[Top.idx].calls
  BY <1>1, <1>2, MatTop
<1>4. MatCall \in Names
  BY <1>1, <1>3, MatTop DEF MatCall, Code
<1>5. Mentioned(MatCall)
  BY <1>1, <1>3, MatTop DEF MatCall, CallsInv
<1>6. \A x \in DOMAIN MatOwn : MatOwn[x] \in Address
  <2>1. CodeAddr(Top.idx) \in Address
    BY <1>1, MatTop DEF Address
  <2> QED
    BY <2>1 DEF MatOwn
<1> QED
  BY <1>1, <1>3, <1>4, <1>5, <1>6, TargetCorrect

\* A call of the function is bound.
LEMMA MatPatchStep ==
    ASSUME JInv, MatPatch
    PROVE  JInv'
<1> DEFINE f == [Top EXCEPT !.pc = @ + 1]
           l == Len(stack)
           i == Top.idx
<1>1. TypeInv /\ ShapeInv /\ LazyInv /\ MatInv /\ WorkInv /\ CallsInv
  BY DEF JInv
<1>2. MatMore /\ Advance /\ UNCHANGED <<added, failed>>
  BY DEF MatPatch
<1>3. /\ stack # <<>> /\ Top.k = "mat" /\ Top.pc \in DOMAIN code[i].to
      /\ MatCall \in Names /\ Mentioned(MatCall)
  BY <1>2, MatCallCorrect
<1>4. TargetAddr(MatOwn, MatCall) \in Address
  BY <1>2, MatCallCorrect DEF MatPatch
<1>5. Looks
  <2>1. tab' \in {tab, LookupView(tab, MatCall)}
    BY <1>2, MatCallCorrect DEF MatPatch
  <2> QED
    BY <2>1, <1>3 DEF Looks
<1>6. /\ Top.pc \in Nat \ {0} /\ i \in DOMAIN code
      /\ \A c \in DOMAIN code[i].to : c < Top.pc => code[i].to[c] # NULL
      /\ DOMAIN code[i].to = 1 .. Len(code[i].calls) /\ NotPatching
  BY <1>3, MatTop
<1>7. Binds(i, Top.pc, TargetAddr(MatOwn, MatCall))
  BY DEF MatPatch, Binds
<1>8. /\ CodeGrows /\ Len(code') = Len(code) /\ DOMAIN code' = DOMAIN code
      /\ DOMAIN code'[i].to = DOMAIN code[i].to /\ code'[i].to[Top.pc] # NULL
  BY <1>1, <1>3, <1>4, <1>6, <1>7, BindsCorrect
<1>9. tab' \in Tab /\ tab'.lazy = tab.lazy /\ PublishedInv' /\ MissInv'
  BY <1>2, <1>5, <1>8, LooksStep
<1>10. /\ f \in FrameType /\ FrameOK(l, f, l, added) /\ f.k = Top.k /\ f.name = Top.name
       /\ f.mod = Top.mod /\ f.idx = Top.idx /\ f.pc = Top.pc + 1
  BY <1>1, <1>3, AdvanceCorrect
<1>11. stack' = Append(Below, f)
  BY <1>2 DEF Advance
<1> HIDE DEF f
<1>12. Retop(f)
  BY <1>1, <1>3, <1>10, <1>11, RetopMeans
<1>13. stack' \in Seq(FrameType) /\ ShapeInv' /\ NotEager'
  BY <1>1, <1>2, <1>3, <1>10, <1>12, RetopStep
<1>14. /\ DOMAIN stack' = DOMAIN stack
       /\ \A d \in DOMAIN stack : /\ stack'[d].k = stack[d].k /\ stack'[d].name = stack[d].name
                                  /\ stack'[d].idx = stack[d].idx
                                  /\ stack'[d] = stack[d] \/ d = l
       /\ stack[l] = Top /\ stack'[l] = f
  <2>1. l \in Nat \ {0} /\ DOMAIN stack = 1 .. l /\ stack[l] = Top
    BY <1>1, <1>3, StackCorrect DEF TypeInv, Top
  <2>2. DOMAIN stack' = 1 .. l /\ (\A d \in 1 .. l - 1 : stack'[d] = stack[d]) /\ stack'[l] = f
    BY <1>12 DEF Retop
  <2>3. \A d \in 1 .. l : d \in 1 .. l - 1 \/ d = l
    BY <2>1, Positions
  <2> HIDE DEF l
  <2> QED
    BY <2>1, <2>2, <2>3, <1>10
<1>15. LazyInv'
  BY <1>1, <1>2, <1>9, <1>14 DEF LazyInv, Materializes
<1>16. MatInv'
  <2>1. ASSUME NEW d \in DOMAIN stack, stack[d].k = "mat"
        PROVE  \A c \in DOMAIN code'[stack'[d].idx].to :
                  c < stack'[d].pc => code'[stack'[d].idx].to[c] # NULL
    <3>1. CASE d = l
      <4>1. \A c \in 1 .. Len(code[i].calls) : c < Top.pc + 1 => c = Top.pc \/ c < Top.pc
        BY <1>6
      <4>2. \A c \in DOMAIN code'[i].to : c < Top.pc + 1 => code'[i].to[c] # NULL
        BY <4>1, <1>6, <1>8 DEF CodeGrows
      <4> QED
        BY <4>2, <3>1, <1>10, <1>14
    <3>2. CASE d # l
      <4>1. stack'[d] = stack[d] /\ stack[d].idx \in DOMAIN code
        BY <3>2, <2>1, <1>1, <1>14 DEF MatInv
      <4>2. \A c \in DOMAIN code[stack[d].idx].to :
               c < stack[d].pc => code'[stack[d].idx].to[c] # NULL
        BY <4>1, <2>1, <1>1, <1>8 DEF MatInv, CodeGrows
      <4>3. DOMAIN code'[stack[d].idx].to = DOMAIN code[stack[d].idx].to
        BY <4>1, <1>1, <1>8, BoundStays
      <4> QED
        BY <4>1, <4>2, <4>3
    <3> QED
      BY <3>1, <3>2
  <2>2. ASSUME NEW d \in DOMAIN stack, stack[d].k = "mat"
        PROVE  /\ stack'[d].name \in Names /\ stack'[d].idx \in DOMAIN code'
               /\ tab'.lazy[stack'[d].name].st = "compiling"
               /\ tab'.lazy[stack'[d].name].addr = CodeAddr(stack'[d].idx)
    BY <2>2, <1>1, <1>8, <1>9, <1>14 DEF MatInv
  <2>3. \A d, e \in DOMAIN stack :
           stack'[d].k = "mat" /\ stack'[e].k = "mat" /\ stack'[d].name = stack'[e].name => d = e
    BY <1>1, <1>14 DEF MatInv
  <2> QED
    BY <2>1, <2>2, <2>3, <1>14 DEF MatInv
<1>17. EagerInv'
  BY <1>13 DEF EagerInv, NotEager
<1>18. WorkInv'
  <2> SUFFICES ASSUME ~failed, NEW j \in DOMAIN code
               PROVE  Bound(j)' \/ \E d \in DOMAIN stack : stack'[d].k = "mat" /\ stack'[d].idx = j
    BY <1>2, <1>8, <1>14 DEF WorkInv
  <2>1. Bound(j) \/ \E d \in DOMAIN stack : stack[d].k = "mat" /\ stack[d].idx = j
    BY <1>1, <1>6 DEF WorkInv, NotPatching
  <2>2. Bound(j) => Bound(j)'
    BY <1>1, <1>8, BoundStays
  <2> QED
    BY <2>1, <2>2, <1>14
<1>19. CallsInv'
  BY <1>1, <1>2, <1>8, CallsStay
<1>20. TypeInv'
  BY <1>1, <1>2, <1>8, <1>9, <1>13 DEF TypeInv, CodeGrows
<1> QED
  BY <1>9, <1>13, <1>15, <1>16, <1>17, <1>18, <1>19, <1>20 DEF JInv

\* A materialization ends: the function is not COMPILING any more, and its
\* frame is gone.
LEMMA MatLeaves ==
    ASSUME JInv, stack # <<>>, Top.k = "mat", stack' \in Seq(FrameType), NotEager',
           code' = code, added' = added, tab'.lazy \in [Names -> LazyEntry],
           \A d \in 1 .. Len(stack) - 1 : d \in DOMAIN stack' /\ stack'[d] = stack[d],
           \A d \in DOMAIN stack' : stack'[d].k = "mat" => d \in 1 .. Len(stack) - 1,
           \A x \in Names : x # Top.name => tab'.lazy[x] = tab.lazy[x],
           tab'.lazy[Top.name].st # "compiling",
           tab'.lazy[Top.name].mod = tab.lazy[Top.name].mod,
           failed' \/ (Bound(Top.idx) /\ (~failed' => ~failed))
    PROVE  LazyInv' /\ MatInv' /\ EagerInv' /\ WorkInv' /\ CallsInv'
<1> DEFINE l == Len(stack)
<1>1. TypeInv /\ ShapeInv /\ LazyInv /\ MatInv /\ WorkInv /\ CallsInv
  BY DEF JInv
<1>2. /\ l \in Nat \ {0} /\ DOMAIN stack = 1 .. l /\ stack[l] = Top
  BY <1>1, StackCorrect DEF TypeInv, Top
<1>3. /\ \A d \in DOMAIN stack : d \in 1 .. l - 1 \/ d = l
      /\ \A d \in 1 .. l - 1 : d \in DOMAIN stack
  BY <1>2, Positions
<1>4. /\ Top.name \in Names /\ tab.lazy[Top.name].st = "compiling" /\ NotPatching
      /\ \A d \in 1 .. l - 1 : stack[d].k = "mat" => stack[d].name # Top.name
  BY MatTop
<1> HIDE DEF l
<1>5. LazyInv'
  <2> SUFFICES ASSUME NEW n \in Names
               PROVE  /\ tab'.lazy[n].st # "none" =>
                            tab'.lazy[n].mod \in added /\ n \in Defines(tab'.lazy[n].mod)
                      /\ tab'.lazy[n].st = "compiling" =>
                            \E d \in DOMAIN stack' : Materializes(d, n)'
    BY DEF LazyInv
  <2>1. CASE n = Top.name
    BY <2>1, <1>1, <1>4 DEF LazyInv
  <2>2. CASE n # Top.name
    <3>1. tab'.lazy[n] = tab.lazy[n]
      BY <2>2
    <3>2. ASSUME tab.lazy[n].st = "compiling"
          PROVE  \E d \in DOMAIN stack' : Materializes(d, n)'
      <4>1. PICK d \in DOMAIN stack : stack[d].k = "mat" /\ stack[d].name = n
        BY <3>2, <1>1 DEF LazyInv, Materializes
      <4>2. d \in 1 .. l - 1
        BY <4>1, <2>2, <1>2, <1>3
      <4> QED
        BY <4>1, <4>2 DEF l, Materializes
    <3> QED
      BY <3>1, <3>2, <1>1 DEF LazyInv
  <2> QED
    BY <2>1, <2>2
<1>6. MatInv'
  <2>1. ASSUME NEW d \in DOMAIN stack', stack'[d].k = "mat"
        PROVE  /\ d \in DOMAIN stack /\ stack'[d] = stack[d] /\ stack[d].k = "mat"
               /\ stack[d].name \in Names
               /\ tab'.lazy[stack[d].name] = tab.lazy[stack[d].name]
    <3>1. d \in 1 .. l - 1
      BY <2>1 DEF l
    <3>2. d \in DOMAIN stack /\ stack'[d] = stack[d]
      BY <3>1, <1>3 DEF l
    <3> QED
      BY <3>1, <3>2, <2>1, <1>1, <1>4 DEF MatInv
  <2> QED
    BY <2>1, <1>1 DEF MatInv
<1>7. EagerInv'
  BY DEF EagerInv, NotEager
<1>8. WorkInv'
  <2> SUFFICES ASSUME ~failed', NEW i \in DOMAIN code, ~Bound(i)
               PROVE  \E d \in DOMAIN stack' : stack'[d].k = "mat" /\ stack'[d].idx = i
    BY DEF WorkInv, Bound
  <2>1. PICK d \in DOMAIN stack : stack[d].k = "mat" /\ stack[d].idx = i
    BY <1>1, <1>4 DEF WorkInv, NotPatching
  <2>2. d # l
    BY <2>1, <1>2
  <2>3. d \in 1 .. l - 1
    BY <2>2, <1>3
  <2> QED
    BY <2>1, <2>3 DEF l
<1>9. CallsInv'
  BY <1>1 DEF CallsInv, Mentioned
<1> QED
  BY <1>5, <1>6, <1>7, <1>8, <1>9

\* The stack without its top, for MatLeaves.
LEMMA PopMats ==
    ASSUME TypeInv, stack # <<>>, stack' = Below
    PROVE  /\ \A d \in 1 .. Len(stack) - 1 : d \in DOMAIN stack' /\ stack'[d] = stack[d]
           /\ \A d \in DOMAIN stack' : d \in 1 .. Len(stack) - 1
BY StackCorrect DEF TypeInv

\* One function's lazy entry changes.
LEMMA EntryCorrect ==
    ASSUME NEW v \in Tab, NEW n \in Names, NEW e \in LazyEntry
    PROVE  LET w == [v EXCEPT !.lazy[n] = e]
           IN  /\ w \in Tab /\ w.sym = v.sym /\ w.miss = v.miss /\ w.libs = v.libs
               /\ w.mode = v.mode /\ w.lazy[n] = e
               /\ \A x \in Names : x # n => w.lazy[x] = v.lazy[x]
BY DEF Tab

\* A lookup, then a change of a lazy entry.
LEMMA LookedEntry ==
    ASSUME JInv, CodeGrows, added' = added, NEW n \in Names, NEW v,
           v = tab \/ (v = LookupView(tab, n) /\ Mentioned(n)),
           tab'.sym = v.sym, tab'.miss = v.miss, tab'.libs = v.libs
    PROVE  PublishedInv' /\ MissInv'
<1>1. TypeInv /\ LazyInv /\ MatInv /\ PublishedInv /\ MissInv
  BY DEF JInv
<1>2. CASE v = LookupView(tab, n) /\ Mentioned(n)
  <2>1. Looked(tab, v, n)
    BY <1>1, <1>2, LookupViewCorrect DEF TypeInv
  <2> QED
    BY <2>1, <1>1, <1>2, LookedStep
<1>3. CASE v = tab
  <2>1. PublishedInv'
    BY <1>1, <1>3, PublishedStep
  <2>2. \A x \in Names : Provided(tab', x) = Provided(tab, x)
    BY <1>3 DEF Provided, FromLibs
  <2>3. tab.miss \subseteq Names
    BY <1>1 DEF TypeInv, Tab
  <2>4. MissInv'
    BY <2>2, <2>3, <1>1, <1>3 DEF MissInv
  <2> QED
    BY <2>1, <2>4
<1> QED
  BY <1>2, <1>3

\* The error exit.
LEMMA LeaveFailedStep ==
    ASSUME JInv, stack # <<>>, Top.k = "mat", NEW n \in Names, NEW v,
           v = tab \/ (v = LookupView(tab, n) /\ Mentioned(n)),
           LeaveFailed(v), added' = added
    PROVE  JInv'
<1>1. TypeInv /\ ShapeInv
  BY DEF JInv
<1>2. Top.name \in Names
  BY MatTop
<1>3. v \in Tab /\ v.lazy = tab.lazy
  BY <1>1, LookupViewCorrect DEF TypeInv, Looked
<1> DEFINE e == [st |-> "pending", mod |-> v.lazy[Top.name].mod, addr |-> NULL]
<1>4. e \in LazyEntry /\ e.st = "pending" /\ e.mod = tab.lazy[Top.name].mod
  BY <1>2, <1>3 DEF Tab, LazyEntry
<1>5. tab' = [v EXCEPT !.lazy[Top.name] = e]
  BY <1>2, <1>3 DEF LeaveFailed, Tab
<1> HIDE DEF e
<1>6. /\ tab' \in Tab /\ tab'.sym = v.sym /\ tab'.miss = v.miss /\ tab'.libs = v.libs
      /\ tab'.lazy[Top.name] = e /\ \A x \in Names : x # Top.name => tab'.lazy[x] = tab.lazy[x]
  BY <1>2, <1>3, <1>4, <1>5, EntryCorrect
<1>7. code' = code /\ stack' = Below /\ failed'
  BY DEF LeaveFailed
<1>8. stack' \in Seq(FrameType) /\ ShapeInv' /\ NotEager'
  BY <1>1, <1>7, PopStep
<1>9. CodeGrows
  BY <1>1, <1>7, CodeStays
<1>10. PublishedInv' /\ MissInv'
  BY <1>6, <1>9, LookedEntry
<1>11. LazyInv' /\ MatInv' /\ EagerInv' /\ WorkInv' /\ CallsInv'
  <2>1. /\ \A d \in 1 .. Len(stack) - 1 : d \in DOMAIN stack' /\ stack'[d] = stack[d]
        /\ \A d \in DOMAIN stack' : d \in 1 .. Len(stack) - 1
    BY <1>1, <1>7, PopMats
  <2>2. tab'.lazy \in [Names -> LazyEntry]
    BY <1>6 DEF Tab
  <2>3. tab'.lazy[Top.name].st # "compiling" /\ tab'.lazy[Top.name].mod = tab.lazy[Top.name].mod
    BY <1>4, <1>6
  <2> QED
    BY <2>1, <2>2, <2>3, <1>6, <1>7, <1>8, MatLeaves
<1>12. TypeInv'
  BY <1>1, <1>6, <1>7, <1>8 DEF TypeInv
<1> QED
  BY <1>8, <1>10, <1>11, <1>12 DEF JInv

\* The function is published.
LEMMA MatDoneStep ==
    ASSUME JInv, MatDone
    PROVE  JInv'
<1>1. /\ TypeInv /\ ShapeInv /\ stack # <<>> /\ Top.k = "mat"
      /\ Top.pc > Len(code[Top.idx].calls) /\ UNCHANGED <<code, added, failed>>
  BY DEF JInv, MatDone, At, Idle
<1>2. /\ Top.name \in Names /\ Top.idx \in DOMAIN code /\ Top.idx \in 1 .. CodeCap
      /\ Top.mod \in added /\ Top.mod \in Modules
  BY <1>1, MatTop
<1>3. Bound(Top.idx)
  <2>1. \A c \in DOMAIN code[Top.idx].to : code[Top.idx].to[c] # NULL
    BY <1>1, MatTop
  <2> QED
    BY <2>1 DEF Bound, Range
<1>4. CodeGrows
  BY <1>1, CodeStays
<1>5. ASSUME NEW n, n = Top.name, NEW i, i = Top.idx
      PROVE  /\ tab' \in Tab /\ PublishedInv' /\ MissInv'
             /\ tab'.lazy[n].st # "compiling" /\ tab'.lazy[n].mod = tab.lazy[n].mod
             /\ \A x \in Names : x # n => tab'.lazy[x] = tab.lazy[x]
  <2> DEFINE e == [st |-> "ready", mod |-> tab.lazy[n].mod, addr |-> NULL]
             v == [tab EXCEPT !.lazy[n] = e]
  <2>1. n \in Names /\ tab \in Tab
    BY <1>1, <1>2, <1>5 DEF TypeInv
  <2>2. e \in LazyEntry /\ e.st = "ready" /\ e.mod = tab.lazy[n].mod
    BY <2>1 DEF Tab, LazyEntry
  <2>3. tab' = Bind(v, n, CodeAddr(i))
    BY <1>5, <2>1 DEF MatDone, Tab
  <2> HIDE DEF e
  <2>4. /\ v \in Tab /\ v.sym = tab.sym /\ v.miss = tab.miss /\ v.libs = tab.libs
        /\ v.lazy[n] = e /\ \A x \in Names : x # n => v.lazy[x] = tab.lazy[x]
    BY <2>1, <2>2, EntryCorrect
  <2> HIDE DEF v
  <2>5. CodeAddr(i) \in Address
    BY <1>2, <1>5 DEF Address
  <2>6. tab' \in Tab /\ tab'.lazy = v.lazy
    BY <2>1, <2>3, <2>4, <2>5, BindCorrect
  <2>7. \A j \in 1 .. CodeCap : CodeAddr(i) = CodeAddr(j) => j \in DOMAIN code' /\ Bound(j)'
    <3>1. \A j : CodeAddr(i) = CodeAddr(j) => i = j
      BY DEF CodeAddr
    <3> QED
      BY <3>1, <1>1, <1>2, <1>3, <1>4, <1>5, BoundStays
  <2>8. PublishedInv' /\ MissInv'
    BY <2>1, <2>3, <2>4, <2>5, <2>7, <1>1, <1>4, BindStep DEF JInv
  <2> QED
    BY <2>2, <2>4, <2>6, <2>8
<1>6. /\ tab' \in Tab /\ PublishedInv' /\ MissInv'
      /\ tab'.lazy[Top.name].st # "compiling"
      /\ tab'.lazy[Top.name].mod = tab.lazy[Top.name].mod
      /\ \A x \in Names : x # Top.name => tab'.lazy[x] = tab.lazy[x]
  BY <1>5
<1> DEFINE f == GlobFrame(Top.mod)
<1>7. f \in FrameType /\ f.k = "glob" /\ FrameOK(Len(stack), f, Len(stack), added)
  <2>1. Len(stack) # 1
    BY <1>1, TopMeans DEF FrameOK, BaseKinds
  <2> QED
    BY <2>1, <1>2 DEF FrameType, FrameOK, GlobFrame, Frame
<1>8. stack' = Append(Below, f)
  BY DEF MatDone
<1> HIDE DEF f
<1>9. Retop(f)
  BY <1>1, <1>7, <1>8, RetopMeans
<1>10. stack' \in Seq(FrameType) /\ ShapeInv' /\ NotEager'
  BY <1>1, <1>7, <1>9, RetopStep
<1>11. /\ \A d \in 1 .. Len(stack) - 1 : d \in DOMAIN stack' /\ stack'[d] = stack[d]
       /\ \A d \in DOMAIN stack' : stack'[d].k = "mat" => d \in 1 .. Len(stack) - 1
  <2>1. Len(stack) \in Nat \ {0}
    BY <1>1, StackCorrect DEF TypeInv
  <2>2. /\ DOMAIN stack' = 1 .. Len(stack) /\ stack'[Len(stack)] = f
        /\ \A d \in 1 .. Len(stack) - 1 : stack'[d] = stack[d]
    BY <1>9 DEF Retop
  <2>3. /\ \A d \in 1 .. Len(stack) : d \in 1 .. Len(stack) - 1 \/ d = Len(stack)
        /\ \A d \in 1 .. Len(stack) - 1 : d \in 1 .. Len(stack)
    BY <2>1, Positions
  <2> QED
    BY <2>2, <2>3, <1>7
<1>12. LazyInv' /\ MatInv' /\ EagerInv' /\ WorkInv' /\ CallsInv'
  <2>1. tab'.lazy \in [Names -> LazyEntry]
    BY <1>6 DEF Tab
  <2> QED
    BY <2>1, <1>1, <1>3, <1>6, <1>10, <1>11, MatLeaves
<1>13. TypeInv'
  BY <1>1, <1>6, <1>10 DEF TypeInv
<1> QED
  BY <1>6, <1>10, <1>12, <1>13 DEF JInv

\* The stack s has the materializations of the stack, perhaps back at an
\* earlier call.
MatsKept(s) ==
    /\ \A d \in DOMAIN stack : stack[d].k = "mat" =>
          d \in DOMAIN s /\ s[d].k = "mat" /\ s[d].name = stack[d].name /\ s[d].idx = stack[d].idx
    /\ \A d \in DOMAIN s : s[d].k = "mat" =>
          /\ d \in DOMAIN stack /\ stack[d].k = "mat"
          /\ s[d].name = stack[d].name /\ s[d].idx = stack[d].idx
          /\ \A c \in Nat \ {0} : c < s[d].pc => c < stack[d].pc

\* Every frame of a caller's stack s may have one above it.
CallerOK(s) == \A d \in DOMAIN s : FrameOK(d, s[d], Len(s) + 1, added)

\* A caller is in no stage of an eager compilation.
LEMMA CallerMeans ==
    ASSUME NEW s \in Seq(FrameType), s # <<>>, CallerOK(s)
    PROVE  /\ Len(s) \in Nat \ {0} /\ DOMAIN s = 1 .. Len(s) /\ 1 \in DOMAIN s
           /\ \A d \in DOMAIN s : /\ s[d].k \notin {"decls", "patch", "publish"}
                                  /\ FrameOK(d, s[d], Len(s), added)
<1>1. Len(s) \in Nat \ {0} /\ DOMAIN s = 1 .. Len(s)
  BY EmptySeq, LenProperties
<1>2. Len(s) + 1 # 1 /\ 1 \in DOMAIN s
  BY <1>1
<1> QED
  BY <1>1, <1>2 DEF CallerOK, FrameOK

\* There is no room for the code.
LEMMA EnterFails ==
    ASSUME JInv, NotPatching, NEW n \in Names, NEW v, NEW s \in Seq(FrameType), s # <<>>,
           v = tab \/ (v = LookupView(tab, n) /\ Mentioned(n)), CallerOK(s), MatsKept(s),
           tab' = v, code' = code, stack' = s, failed', added' = added
    PROVE  JInv'
<1>1. TypeInv /\ ShapeInv /\ LazyInv /\ MatInv /\ CallsInv
  BY DEF JInv
<1>2. v \in Tab /\ v.lazy = tab.lazy
  BY <1>1, LookupViewCorrect DEF TypeInv, Looked
<1>3. /\ Len(s) \in Nat \ {0} /\ DOMAIN s = 1 .. Len(s) /\ 1 \in DOMAIN s
      /\ \A d \in DOMAIN s : /\ s[d].k \notin {"decls", "patch", "publish"}
                             /\ FrameOK(d, s[d], Len(s), added)
  BY CallerMeans
<1>4. CodeGrows
  BY <1>1, CodeStays
<1>5. PublishedInv' /\ MissInv'
  BY <1>4, LookedEntry
<1>6. ShapeInv' /\ EagerInv'
  BY <1>3 DEF ShapeInv, EagerInv
<1>7. LazyInv'
  <2>1. \A x \in Names : (\E d \in DOMAIN stack : Materializes(d, x)) =>
                         \E d \in DOMAIN s : s[d].k = "mat" /\ s[d].name = x
    BY DEF Materializes, MatsKept
  <2> QED
    BY <2>1, <1>1, <1>2 DEF LazyInv, Materializes
<1>8. MatInv'
  <2>1. ASSUME NEW d \in DOMAIN s, s[d].k = "mat"
        PROVE  /\ s[d].name \in Names /\ s[d].idx \in DOMAIN code
               /\ tab.lazy[s[d].name].st = "compiling"
               /\ tab.lazy[s[d].name].addr = CodeAddr(s[d].idx)
               /\ \A c \in DOMAIN code[s[d].idx].to : c < s[d].pc => code[s[d].idx].to[c] # NULL
    <3>1. /\ d \in DOMAIN stack /\ stack[d].k = "mat"
          /\ s[d].name = stack[d].name /\ s[d].idx = stack[d].idx
          /\ \A c \in Nat \ {0} : c < s[d].pc => c < stack[d].pc
      BY <2>1 DEF MatsKept
    <3>2. /\ stack[d].name \in Names /\ stack[d].idx \in DOMAIN code
          /\ tab.lazy[stack[d].name].st = "compiling"
          /\ tab.lazy[stack[d].name].addr = CodeAddr(stack[d].idx)
          /\ \A c \in DOMAIN code[stack[d].idx].to :
                c < stack[d].pc => code[stack[d].idx].to[c] # NULL
      BY <3>1, <1>1 DEF MatInv
    <3>3. DOMAIN code[stack[d].idx].to \subseteq Nat \ {0}
      BY <3>2, <1>1, TargetsFrom1 DEF TypeInv
    <3> QED
      BY <3>1, <3>2, <3>3
  <2>2. \A d, e \in DOMAIN s :
           s[d].k = "mat" /\ s[e].k = "mat" /\ s[d].name = s[e].name => d = e
    BY <1>1 DEF MatInv, MatsKept
  <2> QED
    BY <2>1, <2>2, <1>2 DEF MatInv
<1>9. WorkInv'
  BY DEF WorkInv
<1>10. CallsInv'
  BY <1>1, <1>4, CallsStay
<1>11. TypeInv'
  BY <1>1, <1>2 DEF TypeInv
<1> QED
  BY <1>5, <1>6, <1>7, <1>8, <1>9, <1>10, <1>11 DEF JInv

\* The function a lazy entry is about.
LEMMA FuncOfCorrect ==
    ASSUME NEW m \in Modules, NEW n \in Defines(m)
    PROVE  /\ FuncOf(m, n) \in [name : Names, calls : Seq(Names)]
           /\ \E k \in DOMAIN ModFuncs[m] : FuncOf(m, n) = ModFuncs[m][k]
<1>1. \E g \in Range(ModFuncs[m]) : g.name = n
  BY DEF Defines, Range
<1>2. FuncOf(m, n) \in Range(ModFuncs[m])
  BY <1>1 DEF FuncOf
<1>3. PICK k \in DOMAIN ModFuncs[m] : FuncOf(m, n) = ModFuncs[m][k]
  BY <1>2 DEF Range
<1> QED
  BY <1>3, ModuleNames

\* One function is placed.
LEMMA PlaceOne ==
    ASSUME TypeInv, NEW f \in [name : Names, calls : Seq(Names)], Len(code) + 1 <= CodeCap,
           code' = Append(code, Unbound(f))
    PROVE  /\ CodeGrows /\ Len(code') = Len(code) + 1 /\ DOMAIN code' = 1 .. Len(code) + 1
           /\ DOMAIN code = 1 .. Len(code) /\ Len(code) \in Nat
           /\ \A i \in DOMAIN code : i \in DOMAIN code' /\ code'[i] = code[i]
           /\ code'[Len(code) + 1].calls = f.calls
<1> DEFINE u == Unbound(f)
           q == Append(code, u)
<1>1. u \in Code /\ u.calls = f.calls /\ Len(u.to) = Len(u.calls)
  BY UnboundCorrect
<1>2. code \in Seq(Code) /\ Len(code) \in Nat /\ DOMAIN code = 1 .. Len(code)
  BY DEF TypeInv
<1>3. code' = q
  OBVIOUS
<1> HIDE DEF u
<1>4. /\ q \in Seq(Code) /\ Len(q) = Len(code) + 1
      /\ \A i \in 1 .. Len(code) : q[i] = code[i]
      /\ q[Len(code) + 1] = u
  BY <1>1, <1>2, AppendProperties
<1> HIDE DEF q
<1>5. DOMAIN q = 1 .. Len(code) + 1
  BY <1>4, LenProperties
<1>6. \A i \in 1 .. Len(code) + 1 : i \in 1 .. Len(code) \/ i = Len(code) + 1
  BY <1>2
<1>7. \A i \in DOMAIN q : Len(q[i].to) = Len(q[i].calls)
  BY <1>1, <1>2, <1>4, <1>5, <1>6 DEF TypeInv
<1>8. \A i \in DOMAIN code : i \in DOMAIN q /\ q[i] = code[i]
  BY <1>2, <1>4, <1>5
<1>9. Len(q) <= CodeCap /\ Len(code) <= Len(q)
  BY <1>2, <1>4
<1>10. CodeGrows
  BY <1>3, <1>4, <1>7, <1>8, <1>9 DEF CodeGrows
<1> QED
  BY <1>1, <1>2, <1>3, <1>4, <1>5, <1>8, <1>10

\* There is room: the function is COMPILING and on the stack.
Enters(n, v, s, m, i) ==
    /\ code' = Append(code, Unbound(FuncOf(m, n)))
    /\ tab' = [v EXCEPT !.lazy[n] = [st |-> "compiling", mod |-> m, addr |-> CodeAddr(i)]]
    /\ stack' = Append(s, MatFrame(n, m, i))
    /\ failed' = failed

\* Its patching loop starts with no call bound.
LEMMA EnterPlaces ==
    ASSUME JInv, NotPatching, NEW n \in Names, NEW v, NEW s \in Seq(FrameType), s # <<>>,
           v = tab \/ (v = LookupView(tab, n) /\ Mentioned(n)), CallerOK(s), MatsKept(s),
           tab.lazy[n].st = "pending", NEW m, m = tab.lazy[n].mod,
           NEW i, i = Len(code) + 1, i <= CodeCap, Enters(n, v, s, m, i), added' = added
    PROVE  JInv'
<1> DEFINE e == [st |-> "compiling", mod |-> m, addr |-> CodeAddr(i)]
           f == MatFrame(n, m, i)
           l == Len(s)
<1>1. TypeInv /\ ShapeInv /\ LazyInv /\ MatInv /\ WorkInv /\ CallsInv
  BY DEF JInv
<1>2. m \in added /\ m \in Modules /\ n \in Defines(m)
  BY <1>1 DEF LazyInv, TypeInv
<1>3. v \in Tab /\ v.lazy = tab.lazy
  BY <1>1, LookupViewCorrect DEF TypeInv, Looked
<1>4. /\ CodeGrows /\ Len(code') = i /\ DOMAIN code' = 1 .. i
      /\ DOMAIN code = 1 .. Len(code) /\ Len(code) \in Nat
      /\ \A j \in DOMAIN code : j \in DOMAIN code' /\ code'[j] = code[j]
      /\ code'[i].calls = FuncOf(m, n).calls
  <2>1. code' = Append(code, Unbound(FuncOf(m, n)))
    BY DEF Enters
  <2>2. FuncOf(m, n) \in [name : Names, calls : Seq(Names)]
    BY <1>2, FuncOfCorrect
  <2> QED
    BY <2>1, <2>2, <1>1, PlaceOne
<1>5. i \in 1 .. CodeCap /\ i \in Nat /\ i \in DOMAIN code'
  BY <1>4, JitAssumption
<1>6. e \in LazyEntry /\ e.st = "compiling" /\ e.mod = m /\ e.addr = CodeAddr(i)
  BY <1>2, <1>5 DEF LazyEntry, Address
<1>7. /\ f \in FrameType /\ f.k = "mat" /\ f.name = n /\ f.mod = m /\ f.idx = i /\ f.pc = 1
  BY <1>2, <1>5 DEF FrameType, MatFrame, Frame
<1> HIDE DEF e, f
<1>8. /\ tab' \in Tab /\ tab'.sym = v.sym /\ tab'.miss = v.miss /\ tab'.libs = v.libs
      /\ tab'.lazy[n] = e /\ \A x \in Names : x # n => tab'.lazy[x] = tab.lazy[x]
  <2>1. tab' = [v EXCEPT !.lazy[n] = e]
    BY DEF Enters, e
  <2> QED
    BY <2>1, <1>3, <1>6, EntryCorrect
<1>9. /\ l \in Nat \ {0} /\ DOMAIN s = 1 .. l /\ 1 \in DOMAIN s
      /\ \A d \in DOMAIN s : s[d].k \notin {"decls", "patch", "publish"}
  BY CallerMeans
<1>10. /\ stack' \in Seq(FrameType) /\ Len(stack') = l + 1 /\ DOMAIN stack' = 1 .. l + 1
       /\ \A d \in DOMAIN s : stack'[d] = s[d]
       /\ stack'[l + 1] = f
  <2>1. stack' = Append(s, f)
    BY DEF Enters, f
  <2> QED
    BY <2>1, <1>7, <1>9, PushCorrect
<1> HIDE DEF l
<1>11. /\ \A d \in DOMAIN stack' : d \in DOMAIN s \/ d = l + 1
       /\ \A d \in DOMAIN s : d \in DOMAIN stack' /\ d # l + 1
       /\ l + 1 \in DOMAIN stack' /\ l + 1 # 1
  BY <1>9, <1>10
<1>12. ShapeInv'
  <2>1. FrameOK(l + 1, f, l + 1, added)
    BY <1>2, <1>7, <1>11 DEF FrameOK
  <2>2. \A d \in DOMAIN s : FrameOK(d, s[d], l + 1, added)
    BY DEF CallerOK, l
  <2>3. \A d \in DOMAIN stack' : FrameOK(d, stack'[d], l + 1, added)
    BY <2>1, <2>2, <1>10, <1>11
  <2> QED
    BY <2>3, <1>10 DEF ShapeInv
<1>13. NotEager'
  <2>1. stack'[1].k \notin {"patch", "publish"}
    BY <1>9, <1>10
  <2> QED
    BY <2>1 DEF NotEager
<1>14. EagerInv'
  BY <1>13 DEF EagerInv, NotEager
<1>15. PublishedInv' /\ MissInv'
  BY <1>4, <1>8, LookedEntry
<1>16. CallsInv'
  <2>1. \A j \in DOMAIN code' : j \notin DOMAIN code => j = i
    BY <1>4
  <2>2. \E k \in DOMAIN ModFuncs[m] : code'[i].calls = ModFuncs[m][k].calls
    <3>1. PICK k \in DOMAIN ModFuncs[m] : FuncOf(m, n) = ModFuncs[m][k]
      BY <1>2, FuncOfCorrect
    <3> QED
      BY <3>1, <1>4
  <2>3. added' = added /\ added \subseteq Modules
    BY <1>1 DEF TypeInv
  <2> QED
    BY <2>1, <2>2, <2>3, <1>1, <1>2, <1>4, PlacedCalls
<1>17. LazyInv'
  <2> SUFFICES ASSUME NEW x \in Names
               PROVE  /\ tab'.lazy[x].st # "none" =>
                            tab'.lazy[x].mod \in added /\ x \in Defines(tab'.lazy[x].mod)
                      /\ tab'.lazy[x].st = "compiling" =>
                            \E d \in DOMAIN stack' : Materializes(d, x)'
    BY DEF LazyInv
  <2>1. CASE x = n
    BY <2>1, <1>2, <1>6, <1>7, <1>8, <1>10, <1>11 DEF Materializes
  <2>2. CASE x # n
    <3>1. tab'.lazy[x] = tab.lazy[x]
      BY <2>2, <1>8
    <3>2. ASSUME tab.lazy[x].st = "compiling"
          PROVE  \E d \in DOMAIN stack' : Materializes(d, x)'
      <4>1. PICK d \in DOMAIN stack : stack[d].k = "mat" /\ stack[d].name = x
        BY <3>2, <1>1 DEF LazyInv, Materializes
      <4>2. d \in DOMAIN s /\ s[d].k = "mat" /\ s[d].name = x
        BY <4>1 DEF MatsKept
      <4> QED
        BY <4>2, <1>10, <1>11 DEF Materializes
    <3> QED
      BY <3>1, <3>2, <1>1 DEF LazyInv
  <2> QED
    BY <2>1, <2>2
<1>18. MatInv'
  <2>1. ASSUME NEW d \in DOMAIN s, s[d].k = "mat"
        PROVE  /\ s[d].name \in Names /\ s[d].name # n /\ s[d].idx \in DOMAIN code'
               /\ tab'.lazy[s[d].name].st = "compiling"
               /\ tab'.lazy[s[d].name].addr = CodeAddr(s[d].idx)
               /\ \A c \in DOMAIN code'[s[d].idx].to : c < s[d].pc => code'[s[d].idx].to[c] # NULL
    <3>1. /\ d \in DOMAIN stack /\ stack[d].k = "mat"
          /\ s[d].name = stack[d].name /\ s[d].idx = stack[d].idx
          /\ \A c \in Nat \ {0} : c < s[d].pc => c < stack[d].pc
      BY <2>1 DEF MatsKept
    <3>2. /\ stack[d].name \in Names /\ stack[d].idx \in DOMAIN code
          /\ tab.lazy[stack[d].name].st = "compiling"
          /\ tab.lazy[stack[d].name].addr = CodeAddr(stack[d].idx)
          /\ \A c \in DOMAIN code[stack[d].idx].to :
                c < stack[d].pc => code[stack[d].idx].to[c] # NULL
      BY <3>1, <1>1 DEF MatInv
    <3>3. DOMAIN code[stack[d].idx].to \subseteq Nat \ {0}
      BY <3>2, <1>1, TargetsFrom1 DEF TypeInv
    <3>4. stack[d].name # n
      BY <3>2
    <3>5. stack[d].idx \in DOMAIN code' /\ code'[stack[d].idx] = code[stack[d].idx]
      BY <3>2, <1>4
    <3>6. tab'.lazy[stack[d].name] = tab.lazy[stack[d].name]
      BY <3>2, <3>4, <1>8
    <3> QED
      BY <3>1, <3>2, <3>3, <3>4, <3>5, <3>6
  <2>2. /\ f.name \in Names /\ f.idx \in DOMAIN code'
        /\ tab'.lazy[f.name].st = "compiling" /\ tab'.lazy[f.name].addr = CodeAddr(f.idx)
        /\ \A c \in DOMAIN code'[f.idx].to : c < f.pc => code'[f.idx].to[c] # NULL
    <3>1. code' \in Seq(Code)
      BY <1>4 DEF CodeGrows
    <3>2. DOMAIN code'[i].to \subseteq Nat \ {0}
      BY <3>1, <1>5, TargetsFrom1
    <3>3. \A c \in DOMAIN code'[i].to : ~(c < 1)
      BY <3>2
    <3> QED
      BY <3>3, <1>5, <1>6, <1>7, <1>8
  <2>3. \A d, c \in DOMAIN s :
           s[d].k = "mat" /\ s[c].k = "mat" /\ s[d].name = s[c].name => d = c
    BY <1>1 DEF MatInv, MatsKept
  <2>4. ASSUME NEW d \in DOMAIN stack', stack'[d].k = "mat"
        PROVE  /\ stack'[d].name \in Names /\ stack'[d].idx \in DOMAIN code'
               /\ tab'.lazy[stack'[d].name].st = "compiling"
               /\ tab'.lazy[stack'[d].name].addr = CodeAddr(stack'[d].idx)
               /\ \A c \in DOMAIN code'[stack'[d].idx].to :
                     c < stack'[d].pc => code'[stack'[d].idx].to[c] # NULL
    <3>1. CASE d = l + 1
      BY <3>1, <2>2, <1>10
    <3>2. CASE d \in DOMAIN s
      BY <3>2, <2>1, <2>4, <1>10
    <3> QED
      BY <3>1, <3>2, <1>11
  <2>5. ASSUME NEW d \in DOMAIN stack', NEW c \in DOMAIN stack', stack'[d].k = "mat",
               stack'[c].k = "mat", stack'[d].name = stack'[c].name
        PROVE  d = c
    <3>1. \A x \in DOMAIN s : s[x].k = "mat" => s[x].name # n
      BY <2>1
    <3>2. stack'[l + 1].name = n
      BY <1>7, <1>10
    <3> QED
      BY <3>1, <3>2, <2>3, <2>5, <1>10, <1>11
  <2> QED
    BY <2>4, <2>5 DEF MatInv
<1>19. WorkInv'
  <2> SUFFICES ASSUME ~failed, NEW j \in DOMAIN code', ~Bound(j)'
               PROVE  \E d \in DOMAIN stack' : stack'[d].k = "mat" /\ stack'[d].idx = j
    BY DEF WorkInv, Enters
  <2>1. CASE j \in DOMAIN code
    <3>1. ~Bound(j)
      BY <2>1, <1>1, <1>4, BoundStays
    <3>2. PICK d \in DOMAIN stack : stack[d].k = "mat" /\ stack[d].idx = j
      BY <3>1, <2>1, <1>1 DEF WorkInv, NotPatching
    <3>3. d \in DOMAIN s /\ s[d].k = "mat" /\ s[d].idx = j
      BY <3>2 DEF MatsKept
    <3> QED
      BY <3>3, <1>10, <1>11
  <2>2. CASE j \notin DOMAIN code
    <3>1. j = i
      BY <2>2, <1>4
    <3> QED
      BY <3>1, <1>7, <1>10, <1>11
  <2> QED
    BY <2>1, <2>2
<1>20. TypeInv'
  BY <1>1, <1>4, <1>8, <1>10 DEF TypeInv, CodeGrows
<1> QED
  BY <1>12, <1>14, <1>15, <1>16, <1>17, <1>18, <1>19, <1>20 DEF JInv

\* materialize_lazy_function up to its patching loop.
LEMMA EnterStep ==
    ASSUME JInv, NotPatching, NEW n \in Names, NEW v, NEW s \in Seq(FrameType), s # <<>>,
           v = tab \/ (v = LookupView(tab, n) /\ Mentioned(n)), CallerOK(s), MatsKept(s),
           tab.lazy[n].st = "pending", Enter(n, v, s), added' = added
    PROVE  JInv'
<1>1. v.lazy = tab.lazy
  BY LookupViewCorrect DEF JInv, TypeInv, Looked
<1>2. CASE Fits(Len(code) + 1)
  <2>1. Len(code) + 1 <= CodeCap /\ Enters(n, v, s, tab.lazy[n].mod, Len(code) + 1)
    BY <1>1, <1>2 DEF Enter, Fits, Enters
  <2> QED
    BY <2>1, EnterPlaces
<1>3. CASE ~Fits(Len(code) + 1)
  BY <1>3, EnterFails DEF Enter
<1> QED
  BY <1>2, <1>3

\* The stack as it is may have a materialization above it.
LEMMA CallerStack ==
    ASSUME JInv, stack # <<>>, Top.k \in {"glob", "def"}
    PROVE  NotPatching /\ CallerOK(stack) /\ MatsKept(stack)
<1>1. TypeInv /\ ShapeInv
  BY DEF JInv
<1>2. Len(stack) \in Nat \ {0} /\ DOMAIN stack = 1 .. Len(stack) /\ Top = stack[Len(stack)]
  BY <1>1, StackCorrect DEF TypeInv, Top
<1>3. ASSUME NEW d \in DOMAIN stack
      PROVE  FrameOK(d, stack[d], Len(stack), added) /\ stack[d].k \notin {"decls", "patch", "publish"}
  <2>1. FrameOK(d, stack[d], Len(stack), added)
    BY <1>1 DEF ShapeInv
  <2>2. ASSUME stack[d].k \in {"decls", "patch", "publish"}
        PROVE  FALSE
    <3>1. Len(stack) = 1
      BY <2>1, <2>2 DEF FrameOK
    <3>2. stack[d] = Top
      BY <3>1, <1>2
    <3> QED
      BY <3>2, <2>2
  <2> QED
    BY <2>1, <2>2
<1>4. CallerOK(stack)
  BY <1>3 DEF CallerOK, FrameOK
<1>5. MatsKept(stack)
  BY DEF MatsKept
<1> QED
  BY <1>1, <1>4, <1>5, NotPatchingTop

\* A function with an entry belongs to a module that was added.
LEMMA EntryMentioned ==
    ASSUME JInv, NEW n \in Names, tab.lazy[n].st = "pending"
    PROVE  Mentioned(n)
BY DEF JInv, LazyInv, Mentioned, Mentions

\* A word of a global and lr_jit_get_defined_function materialize a function.
LEMMA MaterializeStep ==
    ASSUME JInv, GlobMaterialize \/ DefMaterialize
    PROVE  JInv'
<1>1. TypeInv /\ ShapeInv
  BY DEF JInv
<1>2. CASE GlobMaterialize
  <2>1. /\ stack # <<>> /\ Top.k = "glob" /\ tab.lazy[GlobRef].st = "pending"
        /\ Enter(GlobRef, tab, stack) /\ added' = added /\ Top.pc <= Len(ModRefs[Top.mod])
    BY <1>2 DEF GlobMaterialize, GlobMore, At, Idle, lazy
  <2>2. GlobRef \in Names
    <3>1. Top.mod \in Modules /\ Top.pc \in Nat /\ Top.pc # 0
      BY <1>1, <2>1, TopMeans DEF FrameOK
    <3>2. Top.pc \in 1 .. Len(ModRefs[Top.mod])
      BY <3>1, <2>1, JitAssumption
    <3> QED
      BY <3>1, <3>2, ModuleNames DEF GlobRef
  <2>3. NotPatching /\ CallerOK(stack) /\ MatsKept(stack) /\ stack \in Seq(FrameType)
    BY <1>1, <2>1, CallerStack DEF TypeInv
  <2> QED
    BY <2>1, <2>2, <2>3, EnterStep
<1>3. CASE DefMaterialize
  <2>1. /\ stack # <<>> /\ Top.k = "def" /\ tab.lazy[DefName].st = "pending"
        /\ Enter(DefName, tab, stack) /\ added' = added
    BY <1>3 DEF DefMaterialize, At, Idle, lazy
  <2>2. DefName \in Names
    BY <1>1, <2>1, TopMeans, AliasCorrect DEF DefName
  <2>3. NotPatching /\ CallerOK(stack) /\ MatsKept(stack) /\ stack \in Seq(FrameType)
    BY <1>1, <2>1, CallerStack DEF TypeInv
  <2> QED
    BY <2>1, <2>2, <2>3, EnterStep
<1> QED
  BY <1>2, <1>3

\* lr_jit_get_symbol materializes a function.
LEMMA GetLazyStep ==
    ASSUME JInv, NEW n \in GetNames, GetLazy(n)
    PROVE  JInv'
<1> DEFINE f == GetFrame(n)
           s == <<f>>
<1>1. /\ stack = <<>> /\ tab.lazy[n].st = "pending" /\ added' = added
      /\ Enter(n, LookupView(tab, n), s)
  BY DEF GetLazy, Idle, lazy
<1>2. n \in Names
  BY JitAssumption
<1>3. f \in FrameType /\ FrameOK(1, f, 2, added) /\ f.k = "get"
  BY <1>2 DEF FrameType, FrameOK, GetFrame, Frame, BaseKinds
<1> HIDE DEF f
<1>4. s \in Seq(FrameType) /\ s # <<>> /\ Len(s) = 1 /\ DOMAIN s = {1} /\ s[1] = f
  BY <1>3
<1> HIDE DEF s
<1>5. CallerOK(s)
  BY <1>3, <1>4 DEF CallerOK
<1>6. MatsKept(s) /\ NotPatching
  <2>1. DOMAIN stack = {}
    BY <1>1
  <2> QED
    BY <2>1, <1>1, <1>3, <1>4 DEF MatsKept, NotPatching
<1>7. Mentioned(n)
  BY <1>1, <1>2, EntryMentioned
<1> QED
  BY <1>1, <1>2, <1>4, <1>5, <1>6, <1>7, EnterStep

\* A call of a function that is being materialized has no target.
LEMMA MatMissingStep ==
    ASSUME JInv, MatMissing
    PROVE  JInv'
<1> DEFINE v == TargetView(MatOwn, MatCall)
           f == [Top EXCEPT !.pc = 1]
           s == Append(Below, f)
<1>1. TypeInv /\ ShapeInv /\ MatMore /\ added' = added
  BY DEF JInv, MatMissing
<1>2. /\ stack # <<>> /\ Top.k = "mat" /\ MatCall \in Names /\ Mentioned(MatCall)
      /\ v = tab \/ v = LookupView(tab, MatCall)
  BY <1>1, MatCallCorrect
<1>3. v.lazy = tab.lazy
  BY <1>1, <1>2, LookupViewCorrect DEF TypeInv, Looked
<1>4. IF tab.lazy[MatCall].st = "pending" THEN Enter(MatCall, v, s) ELSE LeaveFailed(v)
  BY <1>3 DEF MatMissing
<1> HIDE DEF v
<1>5. CASE tab.lazy[MatCall].st # "pending"
  BY <1>1, <1>2, <1>4, <1>5, LeaveFailedStep
<1>6. CASE tab.lazy[MatCall].st = "pending"
  <2>1. /\ Top \in FrameType /\ FrameOK(Len(stack), Top, Len(stack), added)
        /\ Len(stack) \in Nat \ {0} /\ DOMAIN stack = 1 .. Len(stack) /\ stack[Len(stack)] = Top
    BY <1>1, <1>2, StackCorrect, TopMeans DEF TypeInv, Top
  <2>2. /\ f \in FrameType /\ f.k = "mat" /\ f.name = Top.name /\ f.mod = Top.mod
        /\ f.idx = Top.idx /\ f.pc = 1
    BY <2>1, <1>2 DEF FrameType
  <2>3. Top.mod \in added /\ Top.pc \in Nat \ {0} /\ NotPatching
    BY <1>2, MatTop
  <2>4. Len(stack) # 1
    BY <2>1, <1>2 DEF FrameOK, BaseKinds
  <2> HIDE DEF f
  <2>5. /\ s \in Seq(FrameType) /\ Len(s) = Len(stack) /\ DOMAIN s = 1 .. Len(stack)
        /\ \A d \in 1 .. Len(stack) - 1 : s[d] = stack[d]
        /\ s[Len(stack)] = f
    BY <2>2, <1>1, <1>2, TopCorrect DEF TypeInv
  <2> HIDE DEF s
  <2>6. s # <<>>
    BY <2>1, <2>5, EmptySeq
  <2>7. \A d \in 1 .. Len(stack) : d \in 1 .. Len(stack) - 1 \/ d = Len(stack)
    BY <2>1, Positions
  <2>8. CallerOK(s)
    <3> SUFFICES ASSUME NEW d \in 1 .. Len(stack)
                 PROVE  FrameOK(d, s[d], Len(stack) + 1, added)
      BY <2>5 DEF CallerOK
    <3>1. FrameOK(d, stack[d], Len(stack), added)
      BY <2>1, <1>1 DEF ShapeInv
    <3>2. CASE d = Len(stack)
      BY <3>2, <2>2, <2>3, <2>4, <2>5 DEF FrameOK
    <3>3. CASE d \in 1 .. Len(stack) - 1
      BY <3>1, <3>3, <2>4, <2>5 DEF FrameOK
    <3> QED
      BY <3>2, <3>3, <2>7
  <2>9. MatsKept(s)
    <3>1. \A d \in 1 .. Len(stack) :
             /\ s[d].k = stack[d].k /\ s[d].name = stack[d].name /\ s[d].idx = stack[d].idx
             /\ s[d] = stack[d] \/ s[d].pc = 1
      BY <2>1, <2>2, <2>5, <2>7, <1>2
    <3>2. \A c \in Nat \ {0} : ~(c < 1)
      OBVIOUS
    <3> QED
      BY <3>1, <3>2, <2>1, <2>5 DEF MatsKept
  <2> QED
    BY <2>3, <2>5, <2>6, <2>8, <2>9, <1>1, <1>2, <1>4, <1>6, EnterStep
<1> QED
  BY <1>5, <1>6

\* The dependency of a materialization failed.
LEMMA MatDependencyFailedStep ==
    ASSUME JInv, MatDependencyFailed
    PROVE  JInv'
<1>1. stack # <<>> /\ Top.k = "mat" /\ LeaveFailed(tab) /\ added' = added
  BY DEF MatDependencyFailed, At, Idle
<1>2. Top.name \in Names
  BY <1>1, MatTop
<1> QED
  BY <1>1, <1>2, LeaveFailedStep

-----------------------------------------------------------------------------
(***************************************************************************)
(* The theorems                                                            *)
(***************************************************************************)

\* A JIT that was just created satisfies the invariant.
LEMMA InitJInv ==
    Init => JInv
<1> SUFFICES ASSUME Init
             PROVE  JInv
  OBVIOUS
<1>1. PICK mode \in LazyModes :
         tab = [sym |-> [n \in Names |-> NULL], miss |-> {}, libs |-> FALSE, mode |-> mode,
                lazy |-> [n \in Names |-> [st |-> "none", mod |-> NULL, addr |-> NULL]]]
  BY DEF Init
<1>2. mode \in BOOLEAN
  BY JitAssumption
<1>3. /\ tab \in Tab /\ \A n \in Names : tab.sym[n] = NULL /\ tab.lazy[n].st = "none"
      /\ tab.miss = {}
  BY <1>1, <1>2 DEF Tab, LazyEntry
<1>4. /\ code = <<>> /\ stack = <<>> /\ added = {}
      /\ DOMAIN code = {} /\ DOMAIN stack = {} /\ Len(code) = 0
  BY DEF Init
<1>5. TypeInv
  BY <1>3, <1>4, JitAssumption DEF TypeInv
<1>6. ShapeInv /\ LazyInv /\ MatInv /\ EagerInv /\ WorkInv /\ CallsInv /\ MissInv
  BY <1>3, <1>4 DEF ShapeInv, LazyInv, MatInv, EagerInv, WorkInv, CallsInv, MissInv
<1>7. PublishedInv
  <2>1. \A i \in 1 .. CodeCap : CodeAddr(i) # NULL
    BY JitAssumption DEF Address
  <2> QED
    BY <2>1, <1>3 DEF PublishedInv
<1> QED
  BY <1>5, <1>6, <1>7 DEF JInv

\* A step that changes nothing keeps the invariant.
LEMMA StutterJInv ==
    ASSUME JInv, UNCHANGED vars
    PROVE  JInv'
<1>1. TypeInv' /\ ShapeInv'
  BY DEF JInv, vars, TypeInv, ShapeInv
<1>2. LazyInv' /\ MatInv'
  BY DEF JInv, vars, LazyInv, MatInv, Materializes
<1>3. EagerInv'
  BY DEF JInv, vars, EagerInv, EagerFunc, Last, Bound
<1>4. PublishedInv'
  BY DEF JInv, vars, PublishedInv, Bound, TwoSpellings, Mentioned
<1>5. WorkInv' /\ CallsInv'
  BY DEF JInv, vars, WorkInv, CallsInv, Mentioned, Last, Bound
<1>6. MissInv'
  BY DEF JInv, vars, MissInv
<1> QED
  BY <1>1, <1>2, <1>3, <1>4, <1>5, <1>6 DEF JInv

\* Every step of every call keeps it.
LEMMA StepJInv ==
    JInv /\ [Next]_vars => JInv'
<1> SUFFICES ASSUME JInv, [Next]_vars
             PROVE  JInv'
  OBVIOUS
<1>1. CASE Call
  BY <1>1, AddModuleStep, BindingStep, GetStep, GetLazyStep, DefStep DEF Call
<1>2. CASE Step
  <2>1. CASE MatPatch \/ MatMissing \/ MatDone \/ MatDependencyFailed
    BY <2>1, MatPatchStep, MatMissingStep, MatDoneStep, MatDependencyFailedStep
  <2>2. CASE GlobMaterialize \/ GlobWrite \/ GlobSkip \/ GlobDone
    BY <2>2, MaterializeStep, GlobStep
  <2>3. CASE Register \/ ResolveDecl \/ RegisteredLazy \/ Published \/ AddModuleReturns
    BY <2>3, RegisterStep, DeclStep
  <2>4. CASE CompileEager \/ PatchEager \/ PatchNext \/ Patched \/ PublishEager
    BY <2>4, CompileEagerStep, PatchEagerStep, PatchedStep, PublishEagerStep
  <2>5. CASE GetReturns \/ DefMaterialize \/ DefFound \/ DefNext
    BY <2>5, GetStep, MaterializeStep, DefStep
  <2> QED
    BY <1>2, <2>1, <2>2, <2>3, <2>4, <2>5 DEF Step
<1>3. CASE UNCHANGED vars
  BY <1>3, StutterJInv
<1> QED
  BY <1>1, <1>2, <1>3 DEF Next

\* The invariant holds in every state of a JIT.
LEMMA JitInvariant ==
    Spec => []JInv
<1> QED
  BY InitJInv, StepJInv, PTL DEF Spec

\* Whatever a client adds, binds, looks up and asks for, in lazy and in eager
\* mode, and whatever failed before: the symbol table has no address of code
\* that materialize_lazy_function or lr_jit_add_module left half patched, and
\* as long as nothing failed all code of finished calls is patched.
THEOREM PublishedCodeIsBound ==
    Spec => []PublishedBound
<1>1. JInv => PublishedBound
  <2> SUFFICES ASSUME JInv
               PROVE  PublishedBound
    OBVIOUS
  <2>1. DOMAIN code \subseteq 1 .. CodeCap
    BY JitAssumption DEF JInv, TypeInv
  <2>2. ASSUME NEW n \in Names, NEW i \in DOMAIN code, sym[n] = CodeAddr(i), ~TwoSpellings(n)
        PROVE  Bound(i)
    BY <2>1, <2>2 DEF JInv, PublishedInv, sym
  <2>3. ASSUME Idle, ~failed
        PROVE  \A i \in DOMAIN code : Bound(i)
    <3>1. DOMAIN stack = {}
      BY <2>3 DEF Idle
    <3> QED
      BY <3>1, <2>3 DEF JInv, WorkInv, Idle
  <2> QED
    BY <2>2, <2>3 DEF PublishedBound
<1> QED
  BY <1>1, JitInvariant, PTL

\* The miss cache hides nothing: between calls of the client a name that a
\* loaded library or the process exports, and that no module defines, is found.
THEOREM ProvidersAreFound ==
    Spec => []ProvidedIsFound
<1>1. JInv => ProvidedIsFound
  <2> SUFFICES ASSUME JInv, NEW n \in Names, Provided(tab, n) # NULL,
                      \A m \in added : n \notin Defines(m)
               PROVE  LookupAddr(tab, n) # NULL
    BY DEF ProvidedIsFound
  <2>1. tab.lazy[n].st = "none"
    BY DEF JInv, LazyInv
  <2>2. tab.sym[n] # NULL \/ n \notin tab.miss
    BY DEF JInv, MissInv
  <2>3. ExactAddr(tab, n) # NULL
    BY <2>1, <2>2 DEF ExactAddr
  <2> QED
    BY <2>3 DEF LookupAddr
<1> QED
  BY <1>1, JitInvariant, PTL
=============================================================================
