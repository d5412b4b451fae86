------------------------- MODULE SignatureProofs -------------------------
(***************************************************************************)
(* Signatures as keys of the materialization cache: the signatures of a    *)
(* module and of one of its functions can be read back, so equal           *)
(* signatures mean equal code (SignatureFixesCode).                        *)
(*                                                                         *)
(* A signature is a concatenation of fields without separators.  Splits(a, *)
(* b) says that of two fields at the same place of two signatures neither  *)
(* can be taken for the beginning of the other: numbers, names after their *)
(* lengths and counted lists of such fields have this property, and so has *)
(* what follows a field that agrees.  Types, operands, instructions,       *)
(* blocks, functions and modules come in this order.                       *)
(*                                                                         *)
(* An instruction with indices has an address in its signature, which only *)
(* makes more signatures differ.  What a vector is made of is not in the   *)
(* signature: that there is one vector type (VectorsAlike) is a hypothesis *)
(* of all that follows from equal signatures.  Neither is uses_llvm_abi:   *)
(* that functions of equal signatures agree on it (AbisAlike) is a         *)
(* hypothesis of all that is said about their code.                        *)
(***************************************************************************)
EXTENDS MatCache, WellFoundedInduction, SequenceTheorems, TLAPS

---------------------------------------------------------------------------
(* Reading a signature back.  Two sequences split when none of them can be *)
(* taken for the beginning of the other: then whatever follows, an equal   *)
(* whole has equal parts.                                                  *)

(* Induction on the natural numbers for a set: what the library states for *)
(* an operator.                                                            *)
LEMMA SetInduction ==
    ASSUME NEW S, 0 \in S, \A n \in Nat : n \in S => n + 1 \in S
    PROVE  \A n \in Nat : n \in S
<1> SUFFICES ASSUME \E n \in Nat : n \notin S PROVE FALSE
  OBVIOUS
<1> DEFINE B == {n \in Nat : n \notin S}
<1>1. \E x \in B : \A y \in B : <<y, x>> \notin OpToRel(<, Nat)
  <2>1. B # {} /\ B \subseteq Nat OBVIOUS
  <2> HIDE DEF B
  <2> QED BY <2>1, NatLessThanWellFounded, WFMin, Zenon
<1>2. PICK x \in B : \A y \in B : <<y, x>> \notin OpToRel(<, Nat)
  BY <1>1
<1>3. \A y \in B : ~(y < x)
  BY <1>2 DEF OpToRel
<1>4. x # 0 /\ x - 1 \in Nat
  OBVIOUS
<1>5. x - 1 \in S
  BY <1>3, <1>4
<1> QED BY <1>4, <1>5

(* The table of partial concatenations that FlattenSeq chooses exists.     *)
LEMMA FlatExists ==
    ASSUME NEW seqs, NEW n \in Nat
    PROVE  \E g : g = [i \in 1..n |-> IF i = 1 THEN seqs[i] ELSE g[i-1] \o seqs[i]]
<1> DEFINE Step(g, i) == IF i = 1 THEN seqs[i] ELSE g[i-1] \o seqs[i]
           S == {k \in Nat : \E g : g = [i \in 1..k |-> Step(g, i)]}
<1>1. 0 \in S
  <2>1. [h \in 1..0 |-> 0] = [i \in 1..0 |-> Step([h \in 1..0 |-> 0], i)]
    OBVIOUS
  <2> QED BY <2>1
<1>2. ASSUME NEW k \in Nat, k \in S PROVE k + 1 \in S
  <2>1. PICK g : g = [i \in 1..k |-> Step(g, i)]
    BY <1>2
  <2> DEFINE h == [i \in 1..(k+1) |-> IF i <= k THEN g[i] ELSE Step(g, i)]
  <2>2. h = [i \in 1..(k+1) |-> Step(h, i)]
    <3>1. \A i \in 1..(k+1) : Step(h, i) = Step(g, i)
      OBVIOUS
    <3>2. \A i \in 1..k : g[i] = Step(g, i)
      BY <2>1
    <3>3. \A i \in 1..(k+1) : h[i] = Step(h, i)
      <4> HIDE DEF Step
      <4> QED BY <3>1, <3>2
    <3>4. h = [i \in 1..(k+1) |-> h[i]]
      OBVIOUS
    <3> HIDE DEF h, Step
    <3> QED BY <3>3, <3>4, Zenon
  <2>3. \E x : x = [i \in 1..(k+1) |-> Step(x, i)]
    <3> HIDE DEF h, Step
    <3> QED BY <2>2
  <2>4. k + 1 \in Nat OBVIOUS
  <2> QED BY <2>3, <2>4, Zenon
<1>3. n \in S
  <2> HIDE DEF S
  <2> QED BY <1>1, <1>2, SetInduction
<1> QED BY <1>3

(* FlattenSeq concatenates its sequences from the left.                    *)
LEMMA FlatRec ==
    ASSUME NEW seqs, Len(seqs) \in Nat \ {0}
    PROVE  \E g : /\ FlattenSeq(seqs) = g[Len(seqs)]
                  /\ \A i \in 1..Len(seqs) : g[i] = IF i = 1 THEN seqs[i] ELSE g[i-1] \o seqs[i]
<1> DEFINE Is(g) == g = [i \in 1..Len(seqs) |-> IF i = 1 THEN seqs[i] ELSE g[i-1] \o seqs[i]]
<1>1. \E g : Is(g)
  BY FlatExists
<1> DEFINE fl == CHOOSE g : Is(g)
<1>2. Is(fl)
  BY <1>1
<1>3. FlattenSeq(seqs) = fl[Len(seqs)]
  BY DEF FlattenSeq
<1>4. \A i \in 1..Len(seqs) : fl[i] = IF i = 1 THEN seqs[i] ELSE fl[i-1] \o seqs[i]
  <2> HIDE DEF fl
  <2> QED BY <1>2
<1> HIDE DEF fl
<1> QED BY <1>3, <1>4

(* The pieces of a flattened list of sequences over S, and the list itself. *)
LEMMA FlatIsSeq ==
    ASSUME NEW S, NEW p \in Seq(Seq(S))
    PROVE  FlattenSeq(p) \in Seq(S)
<1>1. CASE Len(p) = 0
  <2>1. p = <<>> BY <1>1
  <2> QED BY <2>1 DEF FlattenSeq
<1>2. CASE Len(p) # 0
  <2>0. Len(p) \in Nat \ {0} BY <1>2
  <2>1. PICK g : /\ FlattenSeq(p) = g[Len(p)]
                 /\ \A i \in 1..Len(p) : g[i] = IF i = 1 THEN p[i] ELSE g[i-1] \o p[i]
    BY <2>0, FlatRec
  <2> DEFINE I == {k \in Nat : k + 1 \in 1..Len(p) => g[k + 1] \in Seq(S)}
  <2>2. 0 \in I BY <2>0, <2>1
  <2>3. ASSUME NEW k \in Nat, k \in I PROVE k + 1 \in I
    <3> SUFFICES ASSUME k + 2 \in 1..Len(p) PROVE g[k + 2] \in Seq(S) OBVIOUS
    <3>1. g[k + 1] \in Seq(S) BY <2>3
    <3>2. g[k + 2] = g[k + 1] \o p[k + 2]
      <4>1. (k + 2) - 1 = k + 1 /\ k + 2 # 1 OBVIOUS
      <4> QED BY <2>1, <4>1, Zenon
    <3>3. p[k + 2] \in Seq(S) OBVIOUS
    <3> QED BY <3>1, <3>2, <3>3, ConcatProperties
  <2>4. Len(p) - 1 \in I
    <3>1. Len(p) - 1 \in Nat BY <2>0
    <3> HIDE DEF I
    <3> QED BY <2>2, <2>3, <3>1, SetInduction
  <2> QED BY <2>0, <2>1, <2>4
<1> QED BY <1>1, <1>2

(* a and b are parts of a signature such that a reader at the same place of *)
(* two equal signatures who finds a in one and b in the other has found the *)
(* same part and stands at the same place again.                           *)
Splits(a, b) == \A r, s \in Seq(Int) : a \o r = b \o s => a = b /\ r = s

(* Sequences of one length split.                                          *)
LEMMA SplitsLen ==
    ASSUME NEW a \in Seq(Int), NEW b \in Seq(Int), Len(a) = Len(b)
    PROVE  Splits(a, b)
<1> SUFFICES ASSUME NEW r \in Seq(Int), NEW s \in Seq(Int), a \o r = b \o s
             PROVE  a = b /\ r = s
  BY DEF Splits
<1>1. \A i \in 1..Len(a) : a[i] = b[i]
  <2> TAKE i \in 1..Len(a)
  <2>1. a[i] = (a \o r)[i] OBVIOUS
  <2>2. b[i] = (b \o s)[i] OBVIOUS
  <2> QED BY <2>1, <2>2
<1>2. a = b BY <1>1, SeqEqual
<1> QED BY <1>2, ConcatSimplifications, Zenon

(* Concatenation is associative.                                           *)
LEMMA Assoc ==
    ASSUME NEW a \in Seq(Int), NEW b \in Seq(Int), NEW c \in Seq(Int)
    PROVE  (a \o b) \o c = a \o (b \o c)
BY ConcatAssociative

(* A pair of fields that split, followed by a pair that does when the      *)
(* first agree, splits.                                                    *)
LEMMA SplitsConcat ==
    ASSUME NEW a \in Seq(Int), NEW b \in Seq(Int), NEW c \in Seq(Int), NEW d \in Seq(Int),
           Splits(a, b), a = b => Splits(c, d)
    PROVE  Splits(a \o c, b \o d)
<1> SUFFICES ASSUME NEW r \in Seq(Int), NEW s \in Seq(Int), (a \o c) \o r = (b \o d) \o s
             PROVE  a \o c = b \o d /\ r = s
  BY DEF Splits
<1>1. a \o (c \o r) = b \o (d \o s)
  <2>1. (a \o c) \o r = a \o (c \o r) BY Assoc, ZenonT(60)
  <2>2. (b \o d) \o s = b \o (d \o s) BY Assoc, ZenonT(60)
  <2> QED BY <2>1, <2>2
<1>2. c \o r \in Seq(Int) /\ d \o s \in Seq(Int)
  OBVIOUS
<1>3. a = b /\ c \o r = d \o s
  BY <1>1, <1>2 DEF Splits
<1>4. c = d /\ r = s
  BY <1>3 DEF Splits
<1> QED BY <1>3, <1>4

(* What splits can be cut off.                                             *)
LEMMA SplitsCut ==
    ASSUME NEW a \in Seq(Int), NEW b \in Seq(Int), NEW c \in Seq(Int), NEW d \in Seq(Int),
           Splits(a, b), a \o c = b \o d
    PROVE  a = b /\ c = d
BY DEF Splits

(* As many fields on both sides, each pair of them split: so do their      *)
(* concatenations, which are equal only if the fields are.                 *)
LEMMA SplitsFlat ==
    ASSUME NEW p \in Seq(Seq(Int)), NEW q \in Seq(Seq(Int)), Len(p) = Len(q),
           \A i \in 1..Len(p) : Splits(p[i], q[i])
    PROVE  /\ Splits(FlattenSeq(p), FlattenSeq(q))
           /\ FlattenSeq(p) = FlattenSeq(q) => p = q
<1>1. CASE Len(p) = 0
  <2>1. p = <<>> /\ q = <<>> BY <1>1, EmptySeq
  <2>2. FlattenSeq(p) = <<>> /\ FlattenSeq(q) = <<>> BY <2>1 DEF FlattenSeq
  <2>3. <<>> \in Seq(Int) OBVIOUS
  <2>4. Splits(<<>>, <<>>) BY <2>3, SplitsLen
  <2> QED BY <2>1, <2>2, <2>4
<1>2. CASE Len(p) # 0
  <2>0. Len(p) \in Nat \ {0} BY <1>2
  <2>1. PICK g : /\ FlattenSeq(p) = g[Len(p)]
                 /\ \A i \in 1..Len(p) : g[i] = IF i = 1 THEN p[i] ELSE g[i-1] \o p[i]
    BY <2>0, FlatRec
  <2>2. PICK h : /\ FlattenSeq(q) = h[Len(p)]
                 /\ \A i \in 1..Len(p) : h[i] = IF i = 1 THEN q[i] ELSE h[i-1] \o q[i]
    <3>1. Len(q) \in Nat \ {0} BY <2>0
    <3>2. \E h : /\ FlattenSeq(q) = h[Len(q)]
                 /\ \A i \in 1..Len(q) : h[i] = IF i = 1 THEN q[i] ELSE h[i-1] \o q[i]
      BY <3>1, FlatRec
    <3> QED BY <3>2, Zenon
  <2> DEFINE I == {k \in Nat : k + 1 \in 1..Len(p) =>
                      /\ g[k + 1] \in Seq(Int) /\ h[k + 1] \in Seq(Int)
                      /\ Splits(g[k + 1], h[k + 1])
                      /\ g[k + 1] = h[k + 1] => \A i \in 1..(k + 1) : p[i] = q[i]}
  <2>3. 0 \in I
    <3>1. 1 \in 1..Len(p) BY <2>0
    <3>2. g[1] = p[1] /\ h[1] = q[1] BY <2>1, <2>2, <3>1
    <3>3. p[1] \in Seq(Int) /\ q[1] \in Seq(Int) BY <3>1
    <3>4. Splits(p[1], q[1]) BY <3>1
    <3>5. \A i \in 1..1 : i = 1 OBVIOUS
    <3> HIDE DEF Splits
    <3> QED BY <3>2, <3>3, <3>4, <3>5
  <2>4. ASSUME NEW k \in Nat, k \in I PROVE k + 1 \in I
    <3> SUFFICES ASSUME k + 2 \in 1..Len(p)
                 PROVE  /\ g[k + 2] \in Seq(Int) /\ h[k + 2] \in Seq(Int)
                        /\ Splits(g[k + 2], h[k + 2])
                        /\ g[k + 2] = h[k + 2] => \A i \in 1..(k + 2) : p[i] = q[i]
      OBVIOUS
    <3>1. /\ g[k + 1] \in Seq(Int) /\ h[k + 1] \in Seq(Int)
          /\ Splits(g[k + 1], h[k + 1])
          /\ g[k + 1] = h[k + 1] => \A i \in 1..(k + 1) : p[i] = q[i]
      BY <2>4
    <3>2. g[k + 2] = g[k + 1] \o p[k + 2] /\ h[k + 2] = h[k + 1] \o q[k + 2]
      <4>1. (k + 2) - 1 = k + 1 /\ k + 2 # 1 OBVIOUS
      <4> QED BY <2>1, <2>2, <4>1, Zenon
    <3>3. p[k + 2] \in Seq(Int) /\ q[k + 2] \in Seq(Int) OBVIOUS
    <3>4. Splits(p[k + 2], q[k + 2]) OBVIOUS
    <3> HIDE DEF I
    <3>5. g[k + 2] \in Seq(Int) /\ h[k + 2] \in Seq(Int)
      BY <3>1, <3>2, <3>3, ConcatProperties
    <3>6. Splits(g[k + 2], h[k + 2])
      BY <3>1, <3>2, <3>3, <3>4, SplitsConcat
    <3>7. ASSUME g[k + 2] = h[k + 2] PROVE \A i \in 1..(k + 2) : p[i] = q[i]
      <4>1. g[k + 1] = h[k + 1] /\ p[k + 2] = q[k + 2]
        <5>1. g[k + 1] \o p[k + 2] = h[k + 1] \o q[k + 2] BY <3>7, <3>2
        <5> DEFINE a == g[k + 1]
                   b == h[k + 1]
                   c == p[k + 2]
                   d == q[k + 2]
        <5>2. a \in Seq(Int) /\ b \in Seq(Int) /\ c \in Seq(Int) /\ d \in Seq(Int) BY <3>1, <3>3
        <5>3. Splits(a, b) /\ a \o c = b \o d BY <3>1, <5>1
        <5> HIDE DEF a, b, c, d
        <5>4. a = b /\ c = d BY <5>2, <5>3, SplitsCut
        <5> QED BY <5>4 DEF a, b, c, d
      <4>2. \A i \in 1..(k + 1) : p[i] = q[i] BY <4>1, <3>1
      <4>3. \A i \in 1..(k + 2) : i \in 1..(k + 1) \/ i = k + 2 OBVIOUS
      <4> QED BY <4>1, <4>2, <4>3
    <3> QED BY <3>5, <3>6, <3>7
  <2>5. Len(p) - 1 \in I
    <3>1. Len(p) - 1 \in Nat BY <2>0
    <3> HIDE DEF I
    <3> QED BY <2>3, <2>4, <3>1, SetInduction
  <2>6. /\ Splits(g[Len(p)], h[Len(p)])
        /\ g[Len(p)] = h[Len(p)] => \A i \in 1..Len(p) : p[i] = q[i]
    <3>1. (Len(p) - 1) + 1 = Len(p) /\ Len(p) \in 1..Len(p) BY <2>0
    <3> QED BY <2>5, <3>1
  <2> QED BY <2>1, <2>2, <2>6, SeqEqual
<1> QED BY <1>1, <1>2

(* A written name is a sequence of numbers.                                *)
LEMMA StrIsSeq ==
    ASSUME NEW n \in Seq(Int)
    PROVE  Str(n) \in Seq(Int)
BY DEF Str

(* A name: its length says where it ends.                                  *)
LEMMA StrSplits ==
    ASSUME NEW n \in Seq(Int), NEW o \in Seq(Int)
    PROVE  /\ Splits(Str(n), Str(o))
           /\ Str(n) = Str(o) => n = o
<1> DEFINE a == <<Len(n)>>
           b == <<Len(o)>>
<1>1. a \in Seq(Int) /\ b \in Seq(Int) /\ Len(a) = Len(b) OBVIOUS
<1>2. Splits(a, b) BY <1>1, SplitsLen
<1>3. a = b => Splits(n, o) BY SplitsLen
<1> HIDE DEF a, b
<1>4. Splits(a \o n, b \o o) BY <1>1, <1>2, <1>3, SplitsConcat
<1>5. a \o n = b \o o => n = o BY <1>1, <1>2, SplitsCut
<1> QED BY <1>4, <1>5 DEF a, b, Str

(* A counted list.                                                         *)
LEMMA ListedSplits ==
    ASSUME NEW p \in Seq(Seq(Int)), NEW q \in Seq(Seq(Int)),
           \A i \in 1..Len(p), h \in 1..Len(q) : Splits(p[i], q[h])
    PROVE  /\ Listed(p) \in Seq(Int) /\ Listed(q) \in Seq(Int)
           /\ Splits(Listed(p), Listed(q))
           /\ Listed(p) = Listed(q) => p = q
<1> DEFINE a == <<Len(p)>>
           b == <<Len(q)>>
           c == FlattenSeq(p)
           d == FlattenSeq(q)
<1>1. a \in Seq(Int) /\ b \in Seq(Int) /\ Len(a) = Len(b) OBVIOUS
<1>2. c \in Seq(Int) /\ d \in Seq(Int) BY FlatIsSeq
<1>3. Splits(a, b) BY <1>1, SplitsLen
<1>4. a = b => Splits(c, d) /\ (c = d => p = q)
  <2> SUFFICES ASSUME Len(p) = Len(q) PROVE Splits(c, d) /\ (c = d => p = q) OBVIOUS
  <2> QED BY SplitsFlat
<1> HIDE DEF a, b, c, d
<1>5. Splits(a \o c, b \o d) BY <1>1, <1>2, <1>3, <1>4, SplitsConcat
<1>6. a \o c = b \o d => p = q BY <1>1, <1>2, <1>3, <1>4, SplitsCut
<1>7. a \o c \in Seq(Int) /\ b \o d \in Seq(Int) BY <1>1, <1>2, ConcatProperties
<1> QED BY <1>5, <1>6, <1>7 DEF a, b, c, d, Listed

---------------------------------------------------------------------------
(* The signature of types.  SigType is a recursive function: it exists     *)
(* because each type stands behind those it is made of.                    *)

SigStep(g, t) ==
    LET all(s) == FlattenSeq([i \in DOMAIN s |-> g[s[i]]])
    IN  <<t.k>> \o (CASE t.k = ARRAY  -> <<t.n>> \o g[t.s[1]]
                      [] t.k = STRUCT -> <<t.n>> \o Str(t.name) \o <<Len(t.s)>> \o all(t.s)
                      [] t.k = FUNC   -> g[t.s[1]] \o <<Len(t.s) - 1, t.n>> \o all(Tail(t.s))
                      [] OTHER -> <<>>)

Upto(k) == {TypeTable[h] : h \in 1..k}

(* What TypesAssumption says of one type.                                  *)
LEMMA TypeFacts ==
    ASSUME NEW i \in 1..Len(TypeTable)
    PROVE  LET t == TypeTable[i]
           IN  /\ t \in Types
               /\ t = [k |-> t.k, n |-> t.n, name |-> t.name, s |-> t.s]
               /\ t.k \in Nat /\ t.n \in Nat /\ t.name \in Seq(Int)
               /\ t.s \in Seq(Upto(i - 1)) /\ t.s \in Seq(Types)
               /\ t.k # STRUCT => t.name = <<>>
               /\ t.k \in {ARRAY, VECTOR} => Len(t.s) = 1
               /\ t.k = FUNC => Len(t.s) > 0
               /\ t.k \notin {ARRAY, VECTOR, STRUCT, FUNC} => t.n = 0 /\ t.s = <<>>
<1> DEFINE t == TypeTable[i]
<1>1. i \in DOMAIN TypeTable BY TypesAssumption
<1>2. t \in Types BY TypesAssumption
<1>3. t \in [k : Nat, n : Nat, name : Names, s : Seq(Upto(i - 1))]
  BY <1>1, TypesAssumption, Zenon DEF Upto
<1>4. /\ t.k # STRUCT => t.name = <<>>
      /\ t.k \in {ARRAY, VECTOR} => Len(t.s) = 1
      /\ t.k = FUNC => Len(t.s) > 0
      /\ t.k \notin {ARRAY, VECTOR, STRUCT, FUNC} => t.n = 0 /\ t.s = <<>>
  BY <1>1, TypesAssumption, Zenon
<1>5. Upto(i - 1) \subseteq Types
  BY TypesAssumption DEF Upto, Types, Range
<1> HIDE DEF t
<1>6. t = [k |-> t.k, n |-> t.n, name |-> t.name, s |-> t.s]
  BY <1>3
<1>7. t.k \in Nat /\ t.n \in Nat /\ t.name \in Names /\ t.s \in Seq(Upto(i - 1))
  BY <1>3
<1>8. t.name \in Seq(Int) BY <1>7 DEF Names
<1>9. t.s \in Seq(Types) BY <1>5, <1>7, SeqMonotonic
<1> QED BY <1>2, <1>4, <1>6, <1>7, <1>8, <1>9 DEF t

(* Every type stands in the table.                                         *)
LEMMA TypesAreIndexed ==
    ASSUME NEW t \in Types
    PROVE  \E i \in 1..Len(TypeTable) : t = TypeTable[i]
BY TypesAssumption DEF Types, Range

(* The first type, and the rest of the types, of a type's parts.           *)
LEMMA TypeParts ==
    ASSUME NEW S, NEW s \in Seq(S), Len(s) > 0
    PROVE  s[1] \in S /\ Tail(s) \in Seq(S) /\ Len(Tail(s)) = Len(s) - 1
<1>1. s # <<>> /\ 1 \in 1..Len(s) OBVIOUS
<1> QED BY <1>1, HeadTailProperties, ElementOfSeq

Parts(g, s) == FlattenSeq([i \in DOMAIN s |-> g[s[i]]])

(* What SigType writes for each kind of type.                              *)
LEMMA SigStepCases ==
    ASSUME NEW g, NEW t
    PROVE  /\ t.k = ARRAY => SigStep(g, t) = <<t.k>> \o (<<t.n>> \o g[t.s[1]])
           /\ t.k = STRUCT => SigStep(g, t) = <<t.k>> \o
                 (<<t.n>> \o Str(t.name) \o <<Len(t.s)>> \o Parts(g, t.s))
           /\ t.k = FUNC => SigStep(g, t) = <<t.k>> \o (g[t.s[1]] \o <<Len(t.s) - 1, t.n>> \o Parts(g,
                  Tail(t.s)))
           /\ t.k \notin {ARRAY, STRUCT, FUNC} => SigStep(g, t) = <<t.k>> \o <<>>
<1>1. t.k = ARRAY => SigStep(g, t) = <<t.k>> \o (<<t.n>> \o g[t.s[1]])
  BY DEF SigStep, ARRAY, STRUCT, FUNC
<1>2. t.k = STRUCT => SigStep(g, t) = <<t.k>> \o (<<t.n>> \o Str(t.name) \o <<Len(t.s)>> \o Parts(g, t.s))
  BY DEF SigStep, Parts, ARRAY, STRUCT, FUNC
<1>3. t.k = FUNC => SigStep(g, t) = <<t.k>> \o (g[t.s[1]] \o <<Len(t.s) - 1, t.n>> \o Parts(g, Tail(t.s)))
  <2> SUFFICES ASSUME t.k = FUNC
               PROVE  SigStep(g, t) = <<t.k>> \o (g[t.s[1]] \o <<Len(t.s) - 1, t.n>> \o Parts(g, Tail(t.s)))
    OBVIOUS
  <2> DEFINE a == <<t.n>> \o g[t.s[1]]
             b == <<t.n>> \o Str(t.name) \o <<Len(t.s)>> \o Parts(g, t.s)
             c == g[t.s[1]] \o <<Len(t.s) - 1, t.n>> \o Parts(g, Tail(t.s))
             d == <<>>
             k == t.k
             body == CASE k = ARRAY -> a [] k = STRUCT -> b [] k = FUNC -> c [] OTHER -> d
  <2>1. SigStep(g, t) = <<t.k>> \o body
    BY Zenon DEF SigStep, Parts
  <2>2. body = c
    <3> HIDE DEF a, b, c, d
    <3>1. k = FUNC OBVIOUS
    <3> HIDE DEF k
    <3> QED BY <3>1 DEF ARRAY, STRUCT, FUNC
  <2> HIDE DEF body
  <2> QED BY <2>1, <2>2
<1>4. t.k \notin {ARRAY, STRUCT, FUNC} => SigStep(g, t) = <<t.k>> \o <<>>
  BY DEF SigStep, ARRAY, STRUCT, FUNC
<1> QED BY <1>1, <1>2, <1>3, <1>4

(* The signature of a type depends only on those of the types before it.   *)
LEMMA SigStepLocal ==
    ASSUME NEW i \in 1..Len(TypeTable), NEW g, NEW h, \A u \in Upto(i - 1) : g[u] = h[u]
    PROVE  SigStep(g, TypeTable[i]) = SigStep(h, TypeTable[i])
<1> DEFINE t == TypeTable[i]
           S == Upto(i - 1)
<1>1. t.s \in Seq(S) BY TypeFacts
<1>2. ASSUME NEW s \in Seq(S) PROVE Parts(g, s) = Parts(h, s)
  <2>1. \A x \in DOMAIN s : s[x] \in S OBVIOUS
  <2>2. \A x \in DOMAIN s : g[s[x]] = h[s[x]] BY <2>1
  <2>3. [x \in DOMAIN s |-> g[s[x]]] = [x \in DOMAIN s |-> h[s[x]]] BY <2>2
  <2> QED BY <2>3 DEF Parts
<1>3. /\ t.k = ARRAY => Len(t.s) > 0
      /\ t.k = FUNC => Len(t.s) > 0
  <2>1. /\ t.k \in {ARRAY, VECTOR} => Len(t.s) = 1
        /\ t.k = FUNC => Len(t.s) > 0
    BY TypeFacts
  <2>2. Len(t.s) = 1 => Len(t.s) > 0 OBVIOUS
  <2> HIDE DEF t
  <2> QED BY <2>1, <2>2, Zenon
<1>4. ASSUME Len(t.s) > 0
      PROVE  g[t.s[1]] = h[t.s[1]] /\ Parts(g, Tail(t.s)) = Parts(h, Tail(t.s))
  <2>1. t.s[1] \in S /\ Tail(t.s) \in Seq(S)
    <3> HIDE DEF S, t
    <3> QED BY <1>1, <1>4, TypeParts
  <2> QED BY <2>1, <1>2
<1>5. Parts(g, t.s) = Parts(h, t.s) BY <1>1, <1>2
<1>6. SigStep(g, t) = SigStep(h, t)
  <2> HIDE DEF t
  <2>1. CASE t.k = ARRAY BY <2>1, <1>3, <1>4, SigStepCases, ZenonT(60)
  <2>2. CASE t.k = STRUCT BY <2>2, <1>5, SigStepCases, ZenonT(60)
  <2>3. CASE t.k = FUNC
    <3>1. Len(t.s) > 0 BY <2>3, <1>3, Zenon
    <3>2. g[t.s[1]] = h[t.s[1]] /\ Parts(g, Tail(t.s)) = Parts(h, Tail(t.s)) BY <3>1, <1>4, Zenon
    <3>3. SigStep(g, t) = <<t.k>> \o (g[t.s[1]] \o <<Len(t.s) - 1, t.n>> \o Parts(g, Tail(t.s)))
      BY <2>3, SigStepCases, Zenon
    <3>4. SigStep(h, t) = <<t.k>> \o (h[t.s[1]] \o <<Len(t.s) - 1, t.n>> \o Parts(h, Tail(t.s)))
      BY <2>3, SigStepCases, Zenon
    <3> QED BY <3>2, <3>3, <3>4, Zenon
  <2>4. CASE t.k \notin {ARRAY, STRUCT, FUNC} BY <2>4, SigStepCases
  <2> QED BY <2>1, <2>2, <2>3, <2>4
<1> QED BY <1>6

(* Hence SigType exists: the table gives the order in which to compute it. *)
LEMMA SigTypeExists == \E g : g = [t \in Types |-> SigStep(g, t)]
<1> DEFINE Is(g, k) == g = [t \in Upto(k) |-> SigStep(g, t)]
           S == {k \in Nat : k <= Len(TypeTable) => \E g : Is(g, k)}
<1>0. Len(TypeTable) \in Nat BY TypesAssumption
<1>1. 0 \in S
  <2>1. Upto(0) = {} BY DEF Upto
  <2>2. Is([t \in Upto(0) |-> 0], 0) BY <2>1
  <2> HIDE DEF Is
  <2> QED BY <2>2
<1>2. ASSUME NEW k \in Nat, k \in S PROVE k + 1 \in S
  <2> SUFFICES ASSUME k + 1 <= Len(TypeTable) PROVE \E g : Is(g, k + 1)
    <3> HIDE DEF Is
    <3> QED OBVIOUS
  <2>1. PICK g : Is(g, k)
    <3>1. k <= Len(TypeTable) BY <1>0
    <3> HIDE DEF Is
    <3> QED BY <3>1, <1>2
  <2> DEFINE h == [t \in Upto(k + 1) |-> IF t \in Upto(k) THEN g[t] ELSE SigStep(g, t)]
  <2>2. \A i \in 1..(k + 1) : SigStep(g, TypeTable[i]) = SigStep(h, TypeTable[i])
    <3> TAKE i \in 1..(k + 1)
    <3>1. i \in 1..Len(TypeTable) BY <1>0
    <3>2. Upto(i - 1) \subseteq Upto(k) /\ Upto(i - 1) \subseteq Upto(k + 1) BY DEF Upto
    <3>3. \A u \in Upto(i - 1) : g[u] = h[u] BY <3>2
    <3> HIDE DEF h
    <3> QED BY <3>1, <3>3, SigStepLocal
  <2>3. \A t \in Upto(k + 1) : SigStep(g, t) = SigStep(h, t)
    <3> HIDE DEF h
    <3> QED BY <2>2 DEF Upto
  <2>4. \A t \in Upto(k) : g[t] = SigStep(g, t)
    BY <2>1
  <2>5. \A t \in Upto(k + 1) : h[t] = SigStep(g, t)
    BY <2>4
  <2>6. \A t \in Upto(k + 1) : h[t] = SigStep(h, t)
    <3> HIDE DEF h
    <3> QED BY <2>3, <2>5
  <2>7. h = [t \in Upto(k + 1) |-> h[t]]
    OBVIOUS
  <2> HIDE DEF h
  <2>8. [t \in Upto(k + 1) |-> h[t]] = [t \in Upto(k + 1) |-> SigStep(h, t)]
    BY <2>6
  <2>9. Is(h, k + 1)
    BY <2>7, <2>8
  <2> HIDE DEF Is
  <2> QED BY <2>9
<1>3. Len(TypeTable) \in S
  <2> HIDE DEF S
  <2> QED BY <1>0, <1>1, <1>2, SetInduction
<1>4. \E g : Is(g, Len(TypeTable))
  <2> HIDE DEF Is
  <2> QED BY <1>0, <1>3
<1>5. Upto(Len(TypeTable)) = Types
  BY TypesAssumption DEF Upto, Types, Range
<1> QED BY <1>4, <1>5

(* So SigType satisfies its equation.                                      *)
LEMMA SigTypeRec ==
    /\ SigType = [t \in Types |-> SigStep(SigType, t)]
    /\ \A t \in Types : SigType[t] = SigStep(SigType, t)
<1> DEFINE Is(g) == g = [t \in Types |-> SigStep(g, t)]
           f == CHOOSE g : Is(g)
<1>1. Is(f) BY SigTypeExists
<1>2. SigType = f BY DEF SigType, SigStep
<1>3. SigType = [t \in Types |-> SigStep(SigType, t)]
  <2> HIDE DEF f
  <2> QED BY <1>1, <1>2
<1> QED BY <1>3

(* The signatures of a list of types.                                      *)
Each(s) == [i \in DOMAIN s |-> SigType[s[i]]]

(* Two ways to write the signatures of a list of types.                    *)
LEMMA PartsAreEach == \A s : Parts(SigType, s) = FlattenSeq(Each(s))
BY DEF Parts, Each

(* Concatenations of sequences of numbers are sequences of numbers.        *)
LEMMA Conc ==
    \A a, b \in Seq(Int) : a \o b \in Seq(Int)
BY ConcatProperties

(* The signatures of a list of types, one by one.                          *)
LEMMA EachIsSeq ==
    ASSUME NEW S, \A t \in S : SigType[t] \in Seq(Int), NEW s \in Seq(S)
    PROVE  /\ Each(s) \in Seq(Seq(Int)) /\ Len(Each(s)) = Len(s)
           /\ \A i \in 1..Len(s) : Each(s)[i] = SigType[s[i]]
<1>1. DOMAIN s = 1..Len(s) /\ Len(s) \in Nat BY LenProperties
<1>2. \A i \in 1..Len(s) : SigType[s[i]] \in Seq(Int) BY ElementOfSeq
<1> QED BY <1>1, <1>2 DEF Each

(* One number, and two numbers, can be read back.                          *)
LEMMA Singles ==
    ASSUME NEW a \in Int, NEW b \in Int, NEW c \in Int, NEW d \in Int
    PROVE  /\ <<a>> \in Seq(Int) /\ <<a, b>> \in Seq(Int)
           /\ Splits(<<a>>, <<b>>) /\ (<<a>> = <<b>> => a = b)
           /\ Splits(<<a, b>>, <<c, d>>) /\ (<<a, b>> = <<c, d>> => a = c /\ b = d)
<1>1. /\ <<a>> \in Seq(Int) /\ <<b>> \in Seq(Int) /\ <<a, b>> \in Seq(Int) /\ <<c, d>> \in Seq(Int)
      /\ Len(<<a>>) = Len(<<b>>) /\ Len(<<a, b>>) = Len(<<c, d>>)
  OBVIOUS
<1>2. Splits(<<a>>, <<b>>) /\ Splits(<<a, b>>, <<c, d>>) BY <1>1, SplitsLen
<1> QED BY <1>1, <1>2

(* Every signature of a type is a sequence of numbers, by the table's order. *)
LEMMA SigTypeIsSeq == \A t \in Types : SigType[t] \in Seq(Int)
<1> DEFINE S == {k \in Nat : k <= Len(TypeTable) => \A t \in Upto(k) : SigType[t] \in Seq(Int)}
<1>0. Len(TypeTable) \in Nat BY TypesAssumption
<1>1. 0 \in S BY DEF Upto
<1>2. ASSUME NEW k \in Nat, k \in S PROVE k + 1 \in S
  <2> SUFFICES ASSUME k + 1 <= Len(TypeTable), NEW t \in Upto(k + 1)
               PROVE  SigType[t] \in Seq(Int)
    OBVIOUS
  <2>1. \A u \in Upto(k) : SigType[u] \in Seq(Int) BY <1>0, <1>2
  <2>2. PICK i \in 1..(k + 1) : t = TypeTable[i] BY DEF Upto
  <2>3. i \in 1..Len(TypeTable) BY <1>0
  <2>4. Upto(i - 1) \subseteq Upto(k) BY DEF Upto
  <2>5. \A u \in Upto(i - 1) : SigType[u] \in Seq(Int) BY <2>1, <2>4
  <2>6. /\ t \in Types /\ t.k \in Nat /\ t.n \in Nat /\ t.name \in Seq(Int) /\ t.s \in Seq(Upto(i - 1))
        /\ t.k \in {ARRAY, VECTOR} => Len(t.s) = 1
        /\ t.k = FUNC => Len(t.s) > 0
    BY <2>2, <2>3, TypeFacts
  <2> DEFINE g == SigType
  <2>7. SigType[t] = SigStep(g, t) BY <2>6, SigTypeRec
  <2>8. <<t.k>> \in Seq(Int) /\ <<t.n>> \in Seq(Int) /\ <<Len(t.s)>> \in Seq(Int) BY <2>6
  <2>9. Parts(g, t.s) \in Seq(Int)
    BY <2>5, <2>6, EachIsSeq, FlatIsSeq, PartsAreEach
  <2>10. ASSUME Len(t.s) > 0
         PROVE  g[t.s[1]] \in Seq(Int) /\ Parts(g, Tail(t.s)) \in Seq(Int) /\
                    <<Len(t.s) - 1, t.n>> \in Seq(Int)
    <3>1. t.s[1] \in Upto(i - 1) /\ Tail(t.s) \in Seq(Upto(i - 1)) BY <2>6, <2>10, TypeParts
    <3>2. Parts(g, Tail(t.s)) \in Seq(Int)
      BY <3>1, <2>5, EachIsSeq, FlatIsSeq, PartsAreEach
    <3>3. <<Len(t.s) - 1, t.n>> \in Seq(Int) BY <2>6
    <3> QED BY <3>1, <3>2, <3>3, <2>5
  <2> HIDE DEF g
  <2>11. CASE t.k = ARRAY
    <3>0. Len(t.s) = 1
      <4>1. t.k \in {ARRAY, VECTOR} BY <2>11, Zenon
      <4> QED BY <4>1, <2>6, Zenon
    <3>1. Len(t.s) > 0 BY <3>0
    <3>2. SigStep(g, t) = <<t.k>> \o (<<t.n>> \o g[t.s[1]]) BY <2>11, SigStepCases
    <3>3. <<t.n>> \o g[t.s[1]] \in Seq(Int) BY <3>1, <2>8, <2>10, Conc
    <3> QED BY <3>2, <3>3, <2>7, <2>8, Conc
  <2>12. CASE t.k = STRUCT
    <3>2. SigStep(g, t) = <<t.k>> \o (<<t.n>> \o Str(t.name) \o <<Len(t.s)>> \o Parts(g, t.s))
      BY <2>12, SigStepCases
    <3>3. <<t.n>> \o Str(t.name) \in Seq(Int) BY <2>6, <2>8, StrIsSeq, Conc
    <3>4. <<t.n>> \o Str(t.name) \o <<Len(t.s)>> \in Seq(Int) BY <3>3, <2>8, Conc
    <3>5. <<t.n>> \o Str(t.name) \o <<Len(t.s)>> \o Parts(g, t.s) \in Seq(Int) BY <3>4, <2>9, Conc
    <3> QED BY <3>2, <3>5, <2>7, <2>8, Conc
  <2>13. CASE t.k = FUNC
    <3>1. Len(t.s) > 0 BY <2>13, <2>6
    <3>2. SigStep(g, t) = <<t.k>> \o (g[t.s[1]] \o <<Len(t.s) - 1, t.n>> \o Parts(g, Tail(t.s)))
      BY <2>13, SigStepCases
    <3>3. g[t.s[1]] \o <<Len(t.s) - 1, t.n>> \in Seq(Int) BY <3>1, <2>10, Conc
    <3>4. g[t.s[1]] \o <<Len(t.s) - 1, t.n>> \o Parts(g, Tail(t.s)) \in Seq(Int) BY <3>3, <3>1, <2>10, Conc
    <3> QED BY <3>2, <3>4, <2>7, <2>8, Conc
  <2>14. CASE t.k \notin {ARRAY, STRUCT, FUNC}
    <3>2. SigStep(g, t) = <<t.k>> \o <<>> BY <2>14, SigStepCases
    <3> QED BY <3>2, <2>7, <2>8, Conc
  <2> QED BY <2>11, <2>12, <2>13, <2>14
<1>3. Len(TypeTable) \in S
  <2> HIDE DEF S
  <2> QED BY <1>0, <1>1, <1>2, SetInduction
<1>5. Upto(Len(TypeTable)) = Types
  BY TypesAssumption DEF Upto, Types, Range
<1> QED BY <1>0, <1>3, <1>5

(* What one can say of two types from their kind and fields.               *)
LEMMA SigTypeForms ==
    ASSUME NEW t \in Types
    PROVE  /\ t.k = ARRAY => /\ SigType[t] = <<t.k>> \o (<<t.n>> \o SigType[t.s[1]])
                             /\ t.s = <<t.s[1]>> /\ t.s[1] \in Types
           /\ t.k = STRUCT => SigType[t] = <<t.k>> \o
                 (<<t.n>> \o Str(t.name) \o <<Len(t.s)>> \o FlattenSeq(Each(t.s)))
           /\ t.k = FUNC => /\ SigType[t] = <<t.k>> \o (SigType[t.s[1]] \o <<Len(t.s) - 1,
                                t.n>> \o FlattenSeq(Each(Tail(t.s))))
                            /\ t.s = <<t.s[1]>> \o Tail(t.s)
                            /\ t.s[1] \in Types /\ Tail(t.s) \in Seq(Types) /\ Len(Tail(t.s)) = Len(t.s) - 1
           /\ t.k \notin {ARRAY, STRUCT, FUNC} => SigType[t] = <<t.k>> \o <<>>
           /\ t.k \notin {ARRAY, STRUCT, FUNC, VECTOR} => t.n = 0 /\ t.s = <<>>
           /\ t.k # STRUCT => t.name = <<>>
           /\ t.k \in Nat /\ t.n \in Nat /\ t.name \in Seq(Int) /\ t.s \in Seq(Types)
           /\ t = [k |-> t.k, n |-> t.n, name |-> t.name, s |-> t.s]
<1>1. PICK i \in 1..Len(TypeTable) : t = TypeTable[i] BY TypesAreIndexed
<1>2. /\ t = [k |-> t.k, n |-> t.n, name |-> t.name, s |-> t.s]
      /\ t.k \in Nat /\ t.n \in Nat /\ t.name \in Seq(Int) /\ t.s \in Seq(Types)
      /\ t.k # STRUCT => t.name = <<>>
      /\ t.k \in {ARRAY, VECTOR} => Len(t.s) = 1
      /\ t.k = FUNC => Len(t.s) > 0
      /\ t.k \notin {ARRAY, VECTOR, STRUCT, FUNC} => t.n = 0 /\ t.s = <<>>
  BY <1>1, TypeFacts
<1>3. SigType[t] = SigStep(SigType, t) BY SigTypeRec
<1>4. Len(t.s) > 0 => t.s[1] \in Types /\ Tail(t.s) \in Seq(Types) /\ Len(Tail(t.s)) = Len(t.s) - 1
  BY <1>2, TypeParts
<1>5. Len(t.s) > 0 => t.s = <<t.s[1]>> \o Tail(t.s)
  <2> DEFINE s == t.s
  <2>1. s \in Seq(Types) BY <1>2
  <2> HIDE DEF s
  <2>2. Len(s) > 0 => s = <<s[1]>> \o Tail(s) BY <2>1
  <2> QED BY <2>2 DEF s
<1>6. Len(t.s) = 1 => t.s = <<t.s[1]>>
  <2> DEFINE s == t.s
  <2>1. s \in Seq(Types) BY <1>2
  <2> HIDE DEF s
  <2>2. Len(s) = 1 => s = <<s[1]>> BY <2>1
  <2> QED BY <2>2 DEF s
<1>7. CASE t.k = ARRAY
  <2>1. Len(t.s) = 1 BY <1>2, <1>7
  <2>2. SigType[t] = <<t.k>> \o (<<t.n>> \o SigType[t.s[1]]) BY <1>3, <1>7, SigStepCases
  <2>3. Len(t.s) > 0 BY <2>1
  <2> QED BY <2>1, <2>2, <2>3, <1>2, <1>4, <1>6, <1>7 DEF ARRAY, STRUCT, FUNC
<1>8. CASE t.k = STRUCT
  <2>2. SigType[t] = <<t.k>> \o (<<t.n>> \o Str(t.name) \o <<Len(t.s)>> \o FlattenSeq(Each(t.s)))
    BY <1>3, <1>8, SigStepCases, PartsAreEach
  <2> QED BY <2>2, <1>2, <1>8 DEF ARRAY, STRUCT, FUNC
<1>9. CASE t.k = FUNC
  <2>1. Len(t.s) > 0 BY <1>2, <1>9
  <2>2. SigType[t] = <<t.k>> \o (SigType[t.s[1]] \o <<Len(t.s) - 1, t.n>> \o FlattenSeq(Each(Tail(t.s))))
    BY <1>3, <1>9, SigStepCases, PartsAreEach
  <2> QED BY <2>1, <2>2, <1>2, <1>4, <1>5, <1>9 DEF ARRAY, STRUCT, FUNC
<1>10. CASE t.k \notin {ARRAY, STRUCT, FUNC}
  <2>2. SigType[t] = <<t.k>> \o <<>> BY <1>3, <1>10, SigStepCases
  <2> QED BY <2>2, <1>2, <1>10
<1> QED BY <1>7, <1>8, <1>9, <1>10

(* There is one vector type.  The signature of a vector is its kind alone, *)
(* so it tells all types apart but vectors.                                *)
VectorsAlike == \A t, u \in Types : t.k = VECTOR /\ u.k = VECTOR => t = u

(* Functions of equal signatures in modules of equal signatures follow the *)
(* same calling convention, as they do when all modules come from front    *)
(* ends that set uses_llvm_abi (LLVM's text and bitcode, the compat        *)
(* builder) or all from front ends that do not (WebAssembly, sessions).    *)
AbisAlike ==
    \A m, n \in AllModules : SigModule(m) = SigModule(n) =>
        \A f \in Range(m.funcs), g \in Range(n.funcs) :
            SigFunction(m, f) = SigFunction(n, g) => f.abi = g.abi

TypeRead(t, u) ==
    /\ Splits(SigType[t], SigType[u])
    /\ VectorsAlike /\ SigType[t] = SigType[u] => t = u

(* A number, then what depends on it.                                      *)
LEMMA HeadSplits ==
    ASSUME NEW h \in Int, NEW k \in Int, NEW x \in Seq(Int), NEW y \in Seq(Int), h = k => Splits(x, y)
    PROVE  /\ Splits(<<h>> \o x, <<k>> \o y)
           /\ <<h>> \o x = <<k>> \o y => h = k /\ x = y
<1>1. /\ <<h>> \in Seq(Int) /\ <<k>> \in Seq(Int)
      /\ Splits(<<h>>, <<k>>) /\ (<<h>> = <<k>> => h = k)
  BY Singles
<1>2. Splits(<<h>> \o x, <<k>> \o y) BY <1>1, SplitsConcat
<1>3. <<h>> \o x = <<k>> \o y => <<h>> = <<k>> /\ x = y BY <1>1, SplitsCut
<1> QED BY <1>1, <1>2, <1>3

(* Two fields, the second read when the first agree.                       *)
LEMMA Join ==
    ASSUME NEW a \in Seq(Int), NEW b \in Seq(Int), NEW c \in Seq(Int), NEW d \in Seq(Int),
           Splits(a, b), a = b => Splits(c, d)
    PROVE  /\ a \o c \in Seq(Int) /\ b \o d \in Seq(Int)
           /\ Splits(a \o c, b \o d)
           /\ a \o c = b \o d => a = b /\ c = d
<1>1. a \o c \in Seq(Int) /\ b \o d \in Seq(Int) BY Conc
<1>2. Splits(a \o c, b \o d) BY SplitsConcat
<1>3. a \o c = b \o d => a = b /\ c = d BY SplitsCut
<1> QED BY <1>1, <1>2, <1>3

(* A common first number can be cancelled.                                 *)
LEMMA HeadCancel ==
    ASSUME NEW k \in Int, NEW r \in Seq(Int), NEW x \in Seq(Int), <<k>> \o r = <<k>> \o x
    PROVE  r = x
<1>1. <<k>> \in Seq(Int) OBVIOUS
<1>2. Splits(<<k>>, <<k>>) BY <1>1, SplitsLen
<1> HIDE DEF Splits
<1> QED BY <1>1, <1>2, SplitsCut

(* A list of types can be read back when each of them can.                 *)
LEMMA EachRead ==
    ASSUME NEW S, S \subseteq Types, \A t \in S, u \in Types : TypeRead(t, u),
           NEW s \in Seq(S), NEW z \in Seq(Types), Len(s) = Len(z)
    PROVE  /\ Splits(FlattenSeq(Each(s)), FlattenSeq(Each(z)))
           /\ VectorsAlike /\ FlattenSeq(Each(s)) = FlattenSeq(Each(z)) => s = z
<1>1. \A t \in S : SigType[t] \in Seq(Int) BY SigTypeIsSeq
<1>2. /\ Each(s) \in Seq(Seq(Int)) /\ Len(Each(s)) = Len(s)
      /\ \A i \in 1..Len(s) : Each(s)[i] = SigType[s[i]]
  BY <1>1, EachIsSeq
<1>3. /\ Each(z) \in Seq(Seq(Int)) /\ Len(Each(z)) = Len(z)
      /\ \A i \in 1..Len(z) : Each(z)[i] = SigType[z[i]]
  BY SigTypeIsSeq, EachIsSeq
<1>4. \A i \in 1..Len(s) : s[i] \in S /\ z[i] \in Types BY ElementOfSeq
<1>5. \A i \in 1..Len(s) : TypeRead(s[i], z[i]) BY <1>4
<1>6. \A i \in 1..Len(Each(s)) : Splits(Each(s)[i], Each(z)[i])
  BY <1>2, <1>3, <1>5 DEF TypeRead
<1>7. /\ Splits(FlattenSeq(Each(s)), FlattenSeq(Each(z)))
      /\ FlattenSeq(Each(s)) = FlattenSeq(Each(z)) => Each(s) = Each(z)
  BY <1>2, <1>3, <1>6, SplitsFlat
<1>8. ASSUME VectorsAlike, Each(s) = Each(z) PROVE s = z
  <2>1. \A i \in 1..Len(s) : SigType[s[i]] = SigType[z[i]] BY <1>2, <1>3, <1>8
  <2>2. \A i \in 1..Len(s) : s[i] = z[i] BY <2>1, <1>5, <1>8 DEF TypeRead
  <2>3. s \in Seq(Types) BY SeqMonotonic
  <2> QED BY <2>2, <2>3, SeqEqual
<1> QED BY <1>7, <1>8

(* The signature of a list of types is a sequence of numbers.              *)
LEMMA FlatEachIsSeq ==
    ASSUME NEW s \in Seq(Types)
    PROVE  FlattenSeq(Each(s)) \in Seq(Int)
BY SigTypeIsSeq, EachIsSeq, FlatIsSeq

(* A type starts with its kind.                                            *)
LEMMA SigTypeHead ==
    ASSUME NEW t \in Types
    PROVE  \E x \in Seq(Int) : SigType[t] = <<t.k>> \o x
<1>1. t.k \in Nat /\ t.n \in Nat /\ t.name \in Seq(Int) /\ t.s \in Seq(Types) BY SigTypeForms
<1>2. <<t.n>> \in Seq(Int) /\ <<Len(t.s)>> \in Seq(Int) /\ <<Len(t.s) - 1, t.n>> \in Seq(Int) BY <1>1
<1>3. CASE t.k = ARRAY
  <2>1. SigType[t] = <<t.k>> \o (<<t.n>> \o SigType[t.s[1]]) /\ t.s[1] \in Types BY <1>3, SigTypeForms
  <2>2. <<t.n>> \o SigType[t.s[1]] \in Seq(Int) BY <2>1, <1>2, SigTypeIsSeq, Conc
  <2> QED BY <2>1, <2>2
<1>4. CASE t.k = STRUCT
  <2> DEFINE r == FlattenSeq(Each(t.s))
  <2>1. SigType[t] = <<t.k>> \o (<<t.n>> \o Str(t.name) \o <<Len(t.s)>> \o r) BY <1>4, SigTypeForms
  <2>2. r \in Seq(Int) BY <1>1, FlatEachIsSeq
  <2> HIDE DEF r
  <2>3. <<t.n>> \o Str(t.name) \in Seq(Int) BY <1>1, <1>2, StrIsSeq, Conc
  <2>4. <<t.n>> \o Str(t.name) \o <<Len(t.s)>> \in Seq(Int) BY <2>3, <1>2, Conc
  <2>5. <<t.n>> \o Str(t.name) \o <<Len(t.s)>> \o r \in Seq(Int) BY <2>2, <2>4, Conc
  <2> QED BY <2>1, <2>5
<1>5. CASE t.k = FUNC
  <2> DEFINE r == FlattenSeq(Each(Tail(t.s)))
  <2>1. /\ SigType[t] = <<t.k>> \o (SigType[t.s[1]] \o <<Len(t.s) - 1, t.n>> \o r)
        /\ t.s[1] \in Types /\ Tail(t.s) \in Seq(Types)
    BY <1>5, SigTypeForms
  <2>2. r \in Seq(Int) BY <2>1, FlatEachIsSeq
  <2> HIDE DEF r
  <2>3. SigType[t.s[1]] \o <<Len(t.s) - 1, t.n>> \in Seq(Int) BY <2>1, <1>2, SigTypeIsSeq, Conc
  <2>4. SigType[t.s[1]] \o <<Len(t.s) - 1, t.n>> \o r \in Seq(Int) BY <2>2, <2>3, Conc
  <2> QED BY <2>1, <2>4
<1>6. CASE t.k \notin {ARRAY, STRUCT, FUNC}
  <2>1. SigType[t] = <<t.k>> \o <<>> BY <1>6, SigTypeForms
  <2>2. <<>> \in Seq(Int) OBVIOUS
  <2> QED BY <2>1, <2>2
<1> QED BY <1>3, <1>4, <1>5, <1>6

(* One step of the induction: t is made of types in S, which are read.     *)
LEMMA TypeReadStep ==
    ASSUME NEW S, S \subseteq Types, \A v \in S, w \in Types : TypeRead(v, w),
           NEW t \in Types, t.s \in Seq(S), NEW u \in Types
    PROVE  TypeRead(t, u)
<1>1. /\ t.k \in Nat /\ t.n \in Nat /\ t.name \in Seq(Int) /\ t.s \in Seq(Types)
      /\ t = [k |-> t.k, n |-> t.n, name |-> t.name, s |-> t.s]
      /\ t.k # STRUCT => t.name = <<>>
  BY SigTypeForms
<1>2. /\ u.k \in Nat /\ u.n \in Nat /\ u.name \in Seq(Int) /\ u.s \in Seq(Types)
      /\ u = [k |-> u.k, n |-> u.n, name |-> u.name, s |-> u.s]
      /\ u.k # STRUCT => u.name = <<>>
  BY SigTypeForms
<1>3. ASSUME t.k = u.k, t.n = u.n, t.name = u.name, t.s = u.s PROVE t = u
  <2>1. t = [k |-> u.k, n |-> u.n, name |-> u.name, s |-> u.s] BY <1>1, <1>3, Zenon
  <2> QED BY <2>1, <1>2
<1>4. SUFFICES ASSUME NEW x \in Seq(Int), NEW y \in Seq(Int),
                      SigType[t] = <<t.k>> \o x, SigType[u] = <<u.k>> \o y,
                      t.k = u.k
               PROVE  Splits(x, y) /\ (VectorsAlike /\ x = y => t = u)
  <2>1. PICK x \in Seq(Int) : SigType[t] = <<t.k>> \o x BY SigTypeHead
  <2>2. PICK y \in Seq(Int) : SigType[u] = <<u.k>> \o y BY SigTypeHead
  <2>3. t.k = u.k => Splits(x, y) /\ (VectorsAlike /\ x = y => t = u) BY <1>4, <2>1, <2>2
  <2> DEFINE h == t.k
             k == u.k
  <2>4. h \in Int /\ k \in Int /\ (h = k => Splits(x, y)) BY <1>1, <1>2, <2>3
  <2> HIDE DEF h, k
  <2>5. /\ Splits(<<h>> \o x, <<k>> \o y)
        /\ <<h>> \o x = <<k>> \o y => h = k /\ x = y
    BY <2>4, HeadSplits, ZenonT(60)
  <2>6. Splits(SigType[t], SigType[u]) BY <2>1, <2>2, <2>5, Zenon DEF h, k
  <2>7. ASSUME VectorsAlike, SigType[t] = SigType[u] PROVE t = u
    <3>1. t.k = u.k /\ x = y BY <2>1, <2>2, <2>5, <2>7, Zenon DEF h, k
    <3> QED BY <3>1, <2>3, <2>7, Zenon
  <2> QED BY <2>6, <2>7, Zenon DEF TypeRead
<1>5. \A r \in Seq(Int) : (SigType[t] = <<t.k>> \o r => r = x) /\ (SigType[u] = <<u.k>> \o r => r = y)
  <2> TAKE r \in Seq(Int)
  <2>1. t.k \in Int /\ u.k \in Int BY <1>1, <1>2
  <2>2. <<t.k>> \o r = <<t.k>> \o x => r = x BY <2>1, HeadCancel
  <2>3. <<u.k>> \o r = <<u.k>> \o y => r = y BY <2>1, HeadCancel
  <2> QED BY <2>2, <2>3, <1>4
<1>6. CASE t.k = ARRAY
  <2> DEFINE v == t.s[1]
             w == u.s[1]
  <2>1. /\ SigType[t] = <<t.k>> \o (<<t.n>> \o SigType[v]) /\ t.s = <<v>> /\ v \in Types
        /\ SigType[u] = <<u.k>> \o (<<u.n>> \o SigType[w]) /\ u.s = <<w>> /\ w \in Types
    BY <1>4, <1>6, SigTypeForms
  <2>2. v \in S
    <3>1. Len(t.s) > 0 BY <2>1
    <3> QED BY <3>1, TypeParts
  <2> HIDE DEF v, w
  <2>3. <<t.n>> \in Seq(Int) /\ <<u.n>> \in Seq(Int) /\ SigType[v] \in Seq(Int) /\ SigType[w] \in Seq(Int)
    BY <1>1, <1>2, <2>1, SigTypeIsSeq
  <2>4. x = <<t.n>> \o SigType[v] /\ y = <<u.n>> \o SigType[w] BY <2>1, <2>3, <1>5, Conc
  <2>5. TypeRead(v, w) BY <2>1, <2>2
  <2>6. t.n \in Int /\ u.n \in Int BY <1>1, <1>2
  <2>7. /\ Splits(x, y)
        /\ x = y => t.n = u.n /\ SigType[v] = SigType[w]
    <3> DEFINE h == t.n
               k == u.n
               p == SigType[v]
               q == SigType[w]
    <3>1. h \in Int /\ k \in Int /\ p \in Seq(Int) /\ q \in Seq(Int) /\ Splits(p, q)
      BY <2>3, <2>5, <2>6 DEF TypeRead
    <3>2. x = <<h>> \o p /\ y = <<k>> \o q BY <2>4
    <3> HIDE DEF h, k, p, q
    <3>3. /\ Splits(<<h>> \o p, <<k>> \o q)
          /\ <<h>> \o p = <<k>> \o q => h = k /\ p = q
      BY <3>1, HeadSplits, ZenonT(60)
    <3>4. Splits(x, y) BY <3>2, <3>3, Zenon
    <3>5. x = y => h = k /\ p = q BY <3>2, <3>3, Zenon
    <3> QED BY <3>4, <3>5, Zenon DEF h, k, p, q
  <2>8. ASSUME VectorsAlike, x = y PROVE t = u
    <3>1. v = w BY <2>5, <2>7, <2>8 DEF TypeRead
    <3>2. t.name = u.name BY <1>1, <1>2, <1>4, <1>6 DEF ARRAY, STRUCT
    <3>3. t.s = u.s BY <3>1, <2>1
    <3> QED BY <3>2, <3>3, <1>3, <1>4, <2>7, <2>8
  <2> QED BY <2>7, <2>8
<1>7. CASE t.k = STRUCT
  <2> DEFINE p == FlattenSeq(Each(t.s))
             q == FlattenSeq(Each(u.s))
             a == <<t.n>>
             b == <<u.n>>
             c == <<Len(t.s)>>
             d == <<Len(u.s)>>
  <2>1. /\ SigType[t] = <<t.k>> \o (a \o Str(t.name) \o c \o p)
        /\ SigType[u] = <<u.k>> \o (b \o Str(u.name) \o d \o q)
    BY <1>4, <1>7, SigTypeForms
  <2>2. p \in Seq(Int) /\ q \in Seq(Int) BY <1>1, <1>2, FlatEachIsSeq
  <2>3. a \in Seq(Int) /\ b \in Seq(Int) /\ c \in Seq(Int) /\ d \in Seq(Int)
    BY <1>1, <1>2
  <2>4. /\ Splits(a, b) /\ (a = b => t.n = u.n)
        /\ Splits(c, d) /\ (c = d => Len(t.s) = Len(u.s))
    <3>1. Len(a) = Len(b) /\ Len(c) = Len(d) OBVIOUS
    <3>2. Splits(a, b) /\ Splits(c, d)
      <4> HIDE DEF a, b, c, d
      <4> QED BY <3>1, <2>3, SplitsLen
    <3> QED BY <3>2
  <2>5. Len(t.s) = Len(u.s) => Splits(p, q) /\ (VectorsAlike /\ p = q => t.s = u.s)
    BY <1>2, EachRead
  <2>6. /\ Splits(Str(t.name), Str(u.name)) /\ (Str(t.name) = Str(u.name) => t.name = u.name)
        /\ Str(t.name) \in Seq(Int) /\ Str(u.name) \in Seq(Int)
    BY <1>1, <1>2, StrSplits, StrIsSeq
  <2> DEFINE e == a \o Str(t.name)
             f == b \o Str(u.name)
  <2> HIDE DEF a, b, c, d, p, q
  <2>7. /\ e \in Seq(Int) /\ f \in Seq(Int) /\ Splits(e, f)
        /\ e = f => t.n = u.n /\ t.name = u.name
    <3>1. /\ e \in Seq(Int) /\ f \in Seq(Int) /\ Splits(e, f)
          /\ e = f => a = b /\ Str(t.name) = Str(u.name)
      <4> DEFINE m == Str(t.name)
                 n == Str(u.name)
      <4>1. m \in Seq(Int) /\ n \in Seq(Int) /\ Splits(m, n) BY <2>6
      <4> HIDE DEF m, n
      <4>2. /\ a \o m \in Seq(Int) /\ b \o n \in Seq(Int) /\ Splits(a \o m, b \o n)
            /\ a \o m = b \o n => a = b /\ m = n
        BY <4>1, <2>3, <2>4, Join, ZenonT(60)
      <4> QED BY <4>2 DEF m, n
    <3> QED BY <3>1, <2>4, <2>6, Zenon
  <2> DEFINE i == e \o c
             j == f \o d
  <2> HIDE DEF e, f
  <2>8. /\ i \in Seq(Int) /\ j \in Seq(Int) /\ Splits(i, j)
        /\ i = j => t.n = u.n /\ t.name = u.name /\ Len(t.s) = Len(u.s)
    <3>1. /\ i \in Seq(Int) /\ j \in Seq(Int) /\ Splits(i, j)
          /\ i = j => e = f /\ c = d
      BY <2>3, <2>4, <2>7, Join, ZenonT(60)
    <3> QED BY <3>1, <2>4, <2>7, Zenon
  <2>9. x = i \o p /\ y = j \o q
    <3>1. /\ SigType[t] = <<t.k>> \o (i \o p)
          /\ SigType[u] = <<u.k>> \o (j \o q)
      BY <2>1 DEF e, f
    <3> HIDE DEF i, j
    <3> QED BY <3>1, <2>2, <2>8, <1>5, Conc
  <2> HIDE DEF i, j
  <2>10. Splits(x, y) BY <2>2, <2>5, <2>8, <2>9, SplitsConcat
  <2>11. x = y => i = j /\ p = q BY <2>2, <2>8, <2>9, SplitsCut
  <2> QED BY <2>5, <2>8, <2>10, <2>11, <1>3, <1>4
<1>8. CASE t.k = FUNC
  <2> DEFINE v == t.s[1]
             w == u.s[1]
             p == FlattenSeq(Each(Tail(t.s)))
             q == FlattenSeq(Each(Tail(u.s)))
             c == <<Len(t.s) - 1, t.n>>
             d == <<Len(u.s) - 1, u.n>>
  <2>1. /\ SigType[t] = <<t.k>> \o (SigType[v] \o c \o p) /\ v \in Types
        /\ t.s = <<v>> \o Tail(t.s) /\ Tail(t.s) \in Seq(Types) /\ Len(Tail(t.s)) = Len(t.s) - 1
        /\ SigType[u] = <<u.k>> \o (SigType[w] \o d \o q) /\ w \in Types
        /\ u.s = <<w>> \o Tail(u.s) /\ Tail(u.s) \in Seq(Types) /\ Len(Tail(u.s)) = Len(u.s) - 1
    BY <1>4, <1>8, SigTypeForms
  <2>2. v \in S /\ Tail(t.s) \in Seq(S)
    <3>1. Len(t.s) > 0 BY <2>1, <1>1
    <3> QED BY <3>1, TypeParts
  <2>3. p \in Seq(Int) /\ q \in Seq(Int) BY <2>1, FlatEachIsSeq
  <2>4. c \in Seq(Int) /\ d \in Seq(Int) /\ Splits(c, d) /\ (c = d =>
            Len(t.s) - 1 = Len(u.s) - 1 /\ t.n = u.n)
    <3>1. Len(t.s) - 1 \in Int /\ Len(u.s) - 1 \in Int /\ t.n \in Int /\ u.n \in Int BY <1>1, <1>2
    <3>2. c \in Seq(Int) /\ d \in Seq(Int) BY <3>1
    <3>3. Len(c) = Len(d) OBVIOUS
    <3>4. Splits(c, d)
      <4> HIDE DEF c, d
      <4> QED BY <3>2, <3>3, SplitsLen
    <3> QED BY <3>2, <3>4
  <2>5. Len(Tail(t.s)) = Len(Tail(u.s)) => Splits(p, q) /\ (VectorsAlike /\ p = q => Tail(t.s) = Tail(u.s))
    BY <2>1, <2>2, EachRead
  <2>6. TypeRead(v, w) BY <2>1, <2>2
  <2>7. SigType[v] \in Seq(Int) /\ SigType[w] \in Seq(Int) BY <2>1, SigTypeIsSeq
  <2> DEFINE i == SigType[v] \o c
             j == SigType[w] \o d
  <2> HIDE DEF c, d, p, q, v, w
  <2>8. /\ i \in Seq(Int) /\ j \in Seq(Int) /\ Splits(i, j)
        /\ i = j => SigType[v] = SigType[w] /\ t.n = u.n /\ Len(t.s) - 1 = Len(u.s) - 1
    <3>1. Splits(SigType[v], SigType[w]) BY <2>6 DEF TypeRead
    <3>2. /\ i \in Seq(Int) /\ j \in Seq(Int) /\ Splits(i, j)
          /\ i = j => SigType[v] = SigType[w] /\ c = d
      <4> DEFINE m == SigType[v]
                 n == SigType[w]
      <4>1. m \in Seq(Int) /\ n \in Seq(Int) /\ Splits(m, n) BY <3>1, <2>7
      <4> HIDE DEF m, n
      <4>2. /\ m \o c \in Seq(Int) /\ n \o d \in Seq(Int) /\ Splits(m \o c, n \o d)
            /\ m \o c = n \o d => m = n /\ c = d
        BY <4>1, <2>4, Join, ZenonT(60)
      <4> QED BY <4>2 DEF m, n
    <3> QED BY <3>2, <2>4, Zenon
  <2>9. x = i \o p /\ y = j \o q
    <3>1. /\ SigType[t] = <<t.k>> \o (i \o p)
          /\ SigType[u] = <<u.k>> \o (j \o q)
      BY <2>1
    <3> HIDE DEF i, j
    <3> QED BY <3>1, <2>3, <2>8, <1>5, Conc
  <2> HIDE DEF i, j
  <2>10. Splits(x, y) BY <2>1, <2>3, <2>5, <2>8, <2>9, SplitsConcat
  <2>11. x = y => i = j /\ p = q BY <2>3, <2>8, <2>9, SplitsCut
  <2>12. ASSUME VectorsAlike, x = y PROVE t = u
    <3>1. v = w BY <2>6, <2>8, <2>11, <2>12 DEF TypeRead
    <3>2. Tail(t.s) = Tail(u.s) BY <2>1, <2>5, <2>8, <2>11, <2>12
    <3>3. t.s = u.s BY <3>1, <3>2, <2>1
    <3>4. t.name = u.name BY <1>1, <1>2, <1>4, <1>8 DEF FUNC, STRUCT
    <3> QED BY <3>3, <3>4, <1>3, <1>4, <2>8, <2>11, <2>12
  <2> QED BY <2>10, <2>12
<1>9. CASE t.k \notin {ARRAY, STRUCT, FUNC}
  <2>1. SigType[t] = <<t.k>> \o <<>> /\ SigType[u] = <<u.k>> \o <<>>
    BY <1>4, <1>9, SigTypeForms
  <2>2. <<>> \in Seq(Int) OBVIOUS
  <2>3. x = <<>> /\ y = <<>> BY <2>1, <2>2, <1>5
  <2>4. Splits(x, y) BY <2>2, <2>3, SplitsLen
  <2>5. CASE t.k = VECTOR BY <2>4, <2>5, <1>4 DEF VectorsAlike
  <2>6. CASE t.k # VECTOR
    <3>1. t.n = 0 /\ t.s = <<>> /\ u.n = 0 /\ u.s = <<>> BY <1>4, <1>9, <2>6, SigTypeForms
    <3>2. t.name = u.name BY <1>1, <1>2, <1>4, <1>9
    <3>3. t = u BY <3>1, <3>2, <1>3, <1>4
    <3> QED BY <3>3, <2>4
  <2> QED BY <2>5, <2>6
<1> QED BY <1>6, <1>7, <1>8, <1>9

(* Equal signatures are of equal types, and no signature of a type starts  *)
(* with another.                                                           *)
LEMMA TypesRead == \A t, u \in Types : TypeRead(t, u)
<1> DEFINE S == {k \in Nat : k <= Len(TypeTable) => \A t \in Upto(k), u \in Types : TypeRead(t, u)}
<1>0. Len(TypeTable) \in Nat BY TypesAssumption
<1>1. 0 \in S BY DEF Upto
<1>2. ASSUME NEW k \in Nat, k \in S PROVE k + 1 \in S
  <2> SUFFICES ASSUME k + 1 <= Len(TypeTable), NEW t \in Upto(k + 1), NEW u \in Types
               PROVE  TypeRead(t, u)
    OBVIOUS
  <2>1. \A v \in Upto(k), w \in Types : TypeRead(v, w) BY <1>0, <1>2
  <2>2. PICK i \in 1..(k + 1) : t = TypeTable[i] BY DEF Upto
  <2>3. i \in 1..Len(TypeTable) BY <1>0
  <2>4. Upto(i - 1) \subseteq Upto(k) BY DEF Upto
  <2>5. \A v \in Upto(i - 1), w \in Types : TypeRead(v, w) BY <2>1, <2>4
  <2>6. t \in Types /\ t.s \in Seq(Upto(i - 1)) BY <2>2, <2>3, TypeFacts
  <2>7. Upto(i - 1) \subseteq Types BY <1>0, <2>3, TypesAssumption DEF Upto, Types, Range
  <2> QED BY <2>5, <2>6, <2>7, TypeReadStep
<1>3. Len(TypeTable) \in S
  <2> HIDE DEF S
  <2> QED BY <1>0, <1>1, <1>2, SetInduction
<1>5. Upto(Len(TypeTable)) = Types
  BY TypesAssumption DEF Upto, Types, Range
<1> QED BY <1>0, <1>3, <1>5

---------------------------------------------------------------------------
(* Fields one after the other.                                             *)

Seqs(a, b) == a \in Seq(Int) /\ b \in Seq(Int)
Read(a, b) == Seqs(a, b) /\ Splits(a, b)

(* What can be read is a pair of sequences.                                *)
LEMMA ReadSeqs ==
    ASSUME NEW a, NEW b, Read(a, b)
    PROVE  Seqs(a, b)
BY DEF Read

(* Two fields, the second read when the first agree.                       *)
LEMMA JoinRead ==
    ASSUME NEW a, NEW b, NEW c, NEW d, Read(a, b), Seqs(c, d), a = b => Read(c, d)
    PROVE  /\ Read(a \o c, b \o d)
           /\ a \o c = b \o d => a = b /\ c = d
BY Join DEF Read, Seqs

Joined3(a1, a2, a3, b1, b2, b3) ==
    /\ Read(a1 \o a2 \o a3, b1 \o b2 \o b3)
    /\ a1 \o a2 \o a3 = b1 \o b2 \o b3 => a1 = b1 /\ a2 = b2 /\ a3 = b3

(* Three fields, each read when those before it agree.                     *)
LEMMA Join3 ==
    ASSUME NEW a1, NEW b1, NEW a2, NEW b2, NEW a3, NEW b3,
           Read(a1, b1), Seqs(a2, b2), Seqs(a3, b3),
           a1 = b1 => Read(a2, b2), a1 = b1 /\ a2 = b2 => Read(a3, b3)
    PROVE  Joined3(a1, a2, a3, b1, b2, b3)
<1> DEFINE c2 == a1 \o a2
           d2 == b1 \o b2
<1>2. Read(c2, d2) /\ (c2 = d2 => a1 = b1 /\ a2 = b2)
  <2>1. Read(c2, d2) /\ (c2 = d2 => a1 = b1 /\ a2 = b2)
    BY ReadSeqs, JoinRead
  <2> HIDE DEF c2, d2
  <2> QED BY <2>1
<1> HIDE DEF c2, d2
<1> DEFINE c3 == c2 \o a3
           d3 == d2 \o b3
<1>3. Read(c3, d3) /\ (c3 = d3 => a1 = b1 /\ a2 = b2 /\ a3 = b3)
  <2>1. Read(c3, d3) /\ (c3 = d3 => c2 = d2 /\ a3 = b3)
    BY <1>2, ReadSeqs, JoinRead
  <2> HIDE DEF c3, d3
  <2> QED BY <1>2, <2>1
<1> HIDE DEF c3, d3
<1> QED BY <1>3 DEF c2, d2, c3, d3, Joined3

Joined4(a1, a2, a3, a4, b1, b2, b3, b4) ==
    /\ Read(a1 \o a2 \o a3 \o a4, b1 \o b2 \o b3 \o b4)
    /\ a1 \o a2 \o a3 \o a4 = b1 \o b2 \o b3 \o b4 => a1 = b1 /\ a2 = b2 /\ a3 = b3 /\ a4 = b4

(* Four fields, the last read when the first agree.                        *)
LEMMA Join4 ==
    ASSUME NEW a1, NEW b1, NEW a2, NEW b2, NEW a3, NEW b3, NEW a4, NEW b4,
           Read(a1, b1), Read(a2, b2), Read(a3, b3), Seqs(a4, b4),
           a1 = b1 => Read(a4, b4)
    PROVE  Joined4(a1, a2, a3, a4, b1, b2, b3, b4)
<1> DEFINE c2 == a1 \o a2
           d2 == b1 \o b2
<1>2. Read(c2, d2) /\ (c2 = d2 => a1 = b1 /\ a2 = b2)
  <2>1. Read(c2, d2) /\ (c2 = d2 => a1 = b1 /\ a2 = b2)
    BY ReadSeqs, JoinRead
  <2> HIDE DEF c2, d2
  <2> QED BY <2>1
<1> HIDE DEF c2, d2
<1> DEFINE c3 == c2 \o a3
           d3 == d2 \o b3
<1>3. Read(c3, d3) /\ (c3 = d3 => a1 = b1 /\ a2 = b2 /\ a3 = b3)
  <2>1. Read(c3, d3) /\ (c3 = d3 => c2 = d2 /\ a3 = b3)
    BY <1>2, ReadSeqs, JoinRead
  <2> HIDE DEF c3, d3
  <2> QED BY <1>2, <2>1
<1> HIDE DEF c3, d3
<1> DEFINE c4 == c3 \o a4
           d4 == d3 \o b4
<1>4. Read(c4, d4) /\ (c4 = d4 => a1 = b1 /\ a2 = b2 /\ a3 = b3 /\ a4 = b4)
  <2>1. Read(c4, d4) /\ (c4 = d4 => c3 = d3 /\ a4 = b4)
    BY <1>3, ReadSeqs, JoinRead
  <2> HIDE DEF c4, d4
  <2> QED BY <1>3, <2>1
<1> HIDE DEF c4, d4
<1> QED BY <1>4 DEF c2, d2, c3, d3, c4, d4, Joined4

Joined5(a1, a2, a3, a4, a5, b1, b2, b3, b4, b5) ==
    /\ Read(a1 \o a2 \o a3 \o a4 \o a5, b1 \o b2 \o b3 \o b4 \o b5)
    /\ a1 \o a2 \o a3 \o a4 \o a5 = b1 \o b2 \o b3 \o b4 \o b5 =>
           a1 = b1 /\ a2 = b2 /\ a3 = b3 /\ a4 = b4 /\ a5 = b5

(* Five fields, the last two read when the third agree.                    *)
LEMMA Join5 ==
    ASSUME NEW a1, NEW b1, NEW a2, NEW b2, NEW a3, NEW b3, NEW a4, NEW b4, NEW a5, NEW b5,
           Read(a1, b1), Read(a2, b2), Read(a3, b3), Seqs(a4, b4), Seqs(a5, b5),
           a3 = b3 => Read(a4, b4), a3 = b3 => Read(a5, b5)
    PROVE  Joined5(a1, a2, a3, a4, a5, b1, b2, b3, b4, b5)
<1> DEFINE c2 == a1 \o a2
           d2 == b1 \o b2
<1>2. Read(c2, d2) /\ (c2 = d2 => a1 = b1 /\ a2 = b2)
  <2>1. Read(c2, d2) /\ (c2 = d2 => a1 = b1 /\ a2 = b2)
    BY ReadSeqs, JoinRead
  <2> HIDE DEF c2, d2
  <2> QED BY <2>1
<1> HIDE DEF c2, d2
<1> DEFINE c3 == c2 \o a3
           d3 == d2 \o b3
<1>3. Read(c3, d3) /\ (c3 = d3 => a1 = b1 /\ a2 = b2 /\ a3 = b3)
  <2>1. Read(c3, d3) /\ (c3 = d3 => c2 = d2 /\ a3 = b3)
    BY <1>2, ReadSeqs, JoinRead
  <2> HIDE DEF c3, d3
  <2> QED BY <1>2, <2>1
<1> HIDE DEF c3, d3
<1> DEFINE c4 == c3 \o a4
           d4 == d3 \o b4
<1>4. Read(c4, d4) /\ (c4 = d4 => a1 = b1 /\ a2 = b2 /\ a3 = b3 /\ a4 = b4)
  <2>1. Read(c4, d4) /\ (c4 = d4 => c3 = d3 /\ a4 = b4)
    BY <1>3, ReadSeqs, JoinRead
  <2> HIDE DEF c4, d4
  <2> QED BY <1>3, <2>1
<1> HIDE DEF c4, d4
<1> DEFINE c5 == c4 \o a5
           d5 == d4 \o b5
<1>5. Read(c5, d5) /\ (c5 = d5 => a1 = b1 /\ a2 = b2 /\ a3 = b3 /\ a4 = b4 /\ a5 = b5)
  <2>1. Read(c5, d5) /\ (c5 = d5 => c4 = d4 /\ a5 = b5)
    BY <1>4, ReadSeqs, JoinRead
  <2> HIDE DEF c5, d5
  <2> QED BY <1>4, <2>1
<1> HIDE DEF c5, d5
<1> QED BY <1>5 DEF c2, d2, c3, d3, c4, d4, c5, d5, Joined5

Joined7(a1, a2, a3, a4, a5, a6, a7, b1, b2, b3, b4, b5, b6, b7) ==
    /\ Read(a1 \o a2 \o a3 \o a4 \o a5 \o a6 \o a7, b1 \o b2 \o b3 \o b4 \o b5 \o b6 \o b7)
    /\ a1 \o a2 \o a3 \o a4 \o a5 \o a6 \o a7 = b1 \o b2 \o b3 \o b4 \o b5 \o b6 \o b7 =>
         a1 = b1 /\ a2 = b2 /\ a3 = b3 /\ a4 = b4 /\ a5 = b5 /\ a6 = b6 /\ a7 = b7

(* Seven fields, the fifth and sixth read when the second agree.           *)
LEMMA Join7 ==
    ASSUME NEW a1, NEW b1, NEW a2, NEW b2, NEW a3, NEW b3, NEW a4, NEW b4, NEW a5, NEW b5, NEW a6,
               NEW b6, NEW a7, NEW b7,
           Read(a1, b1), Read(a2, b2), Read(a3, b3), Read(a4, b4), Seqs(a5, b5), Seqs(a6, b6), Read(a7, b7),
           a2 = b2 => Read(a5, b5), a2 = b2 => Read(a6, b6)
    PROVE  Joined7(a1, a2, a3, a4, a5, a6, a7, b1, b2, b3, b4, b5, b6, b7)
<1> DEFINE c2 == a1 \o a2
           d2 == b1 \o b2
<1>2. Read(c2, d2) /\ (c2 = d2 => a1 = b1 /\ a2 = b2)
  <2>1. Read(c2, d2) /\ (c2 = d2 => a1 = b1 /\ a2 = b2)
    BY ReadSeqs, JoinRead
  <2> HIDE DEF c2, d2
  <2> QED BY <2>1
<1> HIDE DEF c2, d2
<1> DEFINE c3 == c2 \o a3
           d3 == d2 \o b3
<1>3. Read(c3, d3) /\ (c3 = d3 => a1 = b1 /\ a2 = b2 /\ a3 = b3)
  <2>1. Read(c3, d3) /\ (c3 = d3 => c2 = d2 /\ a3 = b3)
    BY <1>2, ReadSeqs, JoinRead
  <2> HIDE DEF c3, d3
  <2> QED BY <1>2, <2>1
<1> HIDE DEF c3, d3
<1> DEFINE c4 == c3 \o a4
           d4 == d3 \o b4
<1>4. Read(c4, d4) /\ (c4 = d4 => a1 = b1 /\ a2 = b2 /\ a3 = b3 /\ a4 = b4)
  <2>1. Read(c4, d4) /\ (c4 = d4 => c3 = d3 /\ a4 = b4)
    BY <1>3, ReadSeqs, JoinRead
  <2> HIDE DEF c4, d4
  <2> QED BY <1>3, <2>1
<1> HIDE DEF c4, d4
<1> DEFINE c5 == c4 \o a5
           d5 == d4 \o b5
<1>5. Read(c5, d5) /\ (c5 = d5 => a1 = b1 /\ a2 = b2 /\ a3 = b3 /\ a4 = b4 /\ a5 = b5)
  <2>1. Read(c5, d5) /\ (c5 = d5 => c4 = d4 /\ a5 = b5)
    BY <1>4, ReadSeqs, JoinRead
  <2> HIDE DEF c5, d5
  <2> QED BY <1>4, <2>1
<1> HIDE DEF c5, d5
<1> DEFINE c6 == c5 \o a6
           d6 == d5 \o b6
<1>6. Read(c6, d6) /\ (c6 = d6 => a1 = b1 /\ a2 = b2 /\ a3 = b3 /\ a4 = b4 /\ a5 = b5 /\ a6 = b6)
  <2>1. Read(c6, d6) /\ (c6 = d6 => c5 = d5 /\ a6 = b6)
    BY <1>5, ReadSeqs, JoinRead, ZenonT(60)
  <2> HIDE DEF c6, d6
  <2>2. ASSUME c6 = d6 PROVE a1 = b1 /\ a2 = b2 /\ a3 = b3 /\ a4 = b4 /\ a5 = b5 /\ a6 = b6
    <3>1. c5 = d5 /\ a6 = b6 BY <2>1, <2>2, Zenon
    <3> QED BY <3>1, <1>5, Zenon
  <2> QED BY <2>1, <2>2, Zenon
<1> HIDE DEF c6, d6
<1> DEFINE c7 == c6 \o a7
           d7 == d6 \o b7
<1>7. Read(c7, d7) /\ (c7 = d7 => a1 = b1 /\ a2 = b2 /\ a3 = b3 /\ a4 = b4 /\ a5 = b5 /\ a6 = b6 /\ a7 = b7)
  <2>1. Read(c7, d7) /\ (c7 = d7 => c6 = d6 /\ a7 = b7)
    BY <1>6, ReadSeqs, JoinRead
  <2> HIDE DEF c7, d7
  <2>2. ASSUME c7 = d7 PROVE a1 = b1 /\ a2 = b2 /\ a3 = b3 /\ a4 = b4 /\ a5 = b5 /\ a6 = b6 /\ a7 = b7
    <3>1. c6 = d6 /\ a7 = b7 BY <2>1, <2>2, Zenon
    <3> QED BY <3>1, <1>6, Zenon
  <2> QED BY <2>1, <2>2, Zenon
<1> HIDE DEF c7, d7
<1> QED BY <1>7 DEF c2, d2, c3, d3, c4, d4, c5, d5, c6, d6, c7, d7, Joined7

(* One number can be read back.                                            *)
LEMMA Num ==
    ASSUME NEW h \in Int, NEW k \in Int
    PROVE  /\ <<h>> \in Seq(Int) /\ <<k>> \in Seq(Int)
           /\ Splits(<<h>>, <<k>>) /\ (<<h>> = <<k>> => h = k)
BY Singles

(* A flag can be read back.                                                *)
LEMMA FlagRead ==
    ASSUME NEW b \in BOOLEAN, NEW c \in BOOLEAN
    PROVE  Flag(b) \in Int /\ Flag(c) \in Int /\ (Flag(b) = Flag(c) => b = c)
BY DEF Flag

(* A function on 1..n is a list of length n.                               *)
LEMMA IsList ==
    ASSUME NEW S, NEW n \in Nat, NEW p, p = [i \in 1..n |-> p[i]], \A i \in 1..n : p[i] \in S
    PROVE  p \in Seq(S) /\ Len(p) = n
OBVIOUS

---------------------------------------------------------------------------

(* A name is a sequence of numbers.                                        *)
LEMMA NamesAreSeqs == \A n \in Names : n \in Seq(Int)
BY DEF Names

(* A module as the signature code walks it.                                *)
GoodInst(m, x) == x \in Instructions /\ \A i \in DOMAIN x.o : x.o[i].k = GLOBAL =>
    x.o[i].n \in DOMAIN SymbolNames(m)
GoodBlock(m, b) == b \in BasicBlocks /\ \A i \in DOMAIN b.insts : GoodInst(m, b.insts[i])
GoodFunc(m, f) == f \in FunctionDefs /\ \A i \in DOMAIN f.blocks : GoodBlock(m, f.blocks[i])
GoodModule(m) == m \in ModuleDefs /\ \A i \in DOMAIN m.funcs : GoodFunc(m, m.funcs[i])

(* The modules are as ModulesAssumption says.                              *)
LEMMA ModulesAreGood == \A m \in AllModules : GoodModule(m)
<1> TAKE m \in AllModules
<1>1. m \in ModuleDefs BY ModulesAssumption
<1>2. \A f \in Range(m.funcs) : \A b \in Range(f.blocks) : \A x \in Range(b.insts) :
           \A o \in Range(x.o) : o.k = GLOBAL => o.n \in DOMAIN SymbolNames(m)
  BY ModulesAssumption
<1>3. m.funcs \in Seq(FunctionDefs) BY <1>1 DEF ModuleDefs
<1>4. ASSUME NEW i \in DOMAIN m.funcs PROVE GoodFunc(m, m.funcs[i])
  <2> DEFINE f == m.funcs[i]
  <2>1. f \in FunctionDefs /\ f \in Range(m.funcs) BY <1>3 DEF Range
  <2>2. f.blocks \in Seq(BasicBlocks) BY <2>1 DEF FunctionDefs
  <2> HIDE DEF f
  <2>3. ASSUME NEW k \in DOMAIN f.blocks PROVE GoodBlock(m, f.blocks[k])
    <3> DEFINE b == f.blocks[k]
    <3>1. b \in BasicBlocks /\ b \in Range(f.blocks) BY <2>2 DEF Range
    <3>2. b.insts \in Seq(Instructions) BY <3>1 DEF BasicBlocks
    <3> HIDE DEF b
    <3>3. ASSUME NEW h \in DOMAIN b.insts PROVE GoodInst(m, b.insts[h])
      <4> DEFINE x == b.insts[h]
      <4>1. x \in Instructions /\ x \in Range(b.insts) BY <3>2 DEF Range
      <4>2. \A o \in Range(x.o) : o.k = GLOBAL => o.n \in DOMAIN SymbolNames(m) BY <1>2, <2>1, <3>1, <4>1
      <4> HIDE DEF x
      <4>3. \A y \in DOMAIN x.o : x.o[y] \in Range(x.o) BY DEF Range
      <4>4. GoodInst(m, x) BY <4>1, <4>2, <4>3 DEF GoodInst
      <4> QED BY <4>4 DEF x
    <3>4. GoodBlock(m, b) BY <3>1, <3>3 DEF GoodBlock
    <3> QED BY <3>4 DEF b
  <2>4. GoodFunc(m, f) BY <2>1, <2>3 DEF GoodFunc
  <2> QED BY <2>4 DEF f
<1> QED BY <1>1, <1>4 DEF GoodModule

(* The symbols of a module are names.                                      *)
LEMMA SymbolNamesAreNames ==
    ASSUME NEW m \in ModuleDefs
    PROVE  SymbolNames(m) \in Seq(Names)
<1> DEFINE a == [i \in DOMAIN m.funcs |-> m.funcs[i].name]
           b == [i \in DOMAIN m.globals |-> m.globals[i].name]
           defs == a \o b
           known(i) == defs[i] \in Range(m.syms) \/ \E h \in 1..(i - 1) : defs[h] = defs[i]
           new == [i \in DOMAIN defs |-> IF known(i) THEN <<>> ELSE <<defs[i]>>]
<1>1. m.funcs \in Seq(FunctionDefs) /\ m.globals \in Seq(GlobalDefs) /\ m.syms \in Seq(Names)
  BY DEF ModuleDefs
<1>2. a \in Seq(Names)
  <2>1. DOMAIN m.funcs = 1..Len(m.funcs) /\ Len(m.funcs) \in Nat BY <1>1, LenProperties
  <2>2. \A i \in 1..Len(m.funcs) : m.funcs[i] \in FunctionDefs BY <1>1, ElementOfSeq
  <2>3. \A f \in FunctionDefs : f.name \in Names BY DEF FunctionDefs
  <2>4. a = [i \in 1..Len(m.funcs) |-> a[i]] /\ \A i \in 1..Len(m.funcs) : a[i] \in Names
    BY <2>1, <2>2, <2>3
  <2> HIDE DEF a
  <2> QED BY <2>1, <2>4, IsList
<1>3. b \in Seq(Names)
  <2>1. DOMAIN m.globals = 1..Len(m.globals) /\ Len(m.globals) \in Nat BY <1>1, LenProperties
  <2>2. \A i \in 1..Len(m.globals) : m.globals[i] \in GlobalDefs BY <1>1, ElementOfSeq
  <2>3. \A g \in GlobalDefs : g.name \in Names BY DEF GlobalDefs
  <2>4. b = [i \in 1..Len(m.globals) |-> b[i]] /\ \A i \in 1..Len(m.globals) : b[i] \in Names
    BY <2>1, <2>2, <2>3
  <2> HIDE DEF b
  <2> QED BY <2>1, <2>4, IsList
<1> HIDE DEF a, b
<1>4. defs \in Seq(Names) BY <1>2, <1>3, ConcatProperties
<1> HIDE DEF defs
<1>5. new \in Seq(Seq(Names))
  <2> HIDE DEF known
  <2>1. DOMAIN defs = 1..Len(defs) /\ Len(defs) \in Nat BY <1>4
  <2>2. \A i \in 1..Len(defs) : defs[i] \in Names BY <1>4
  <2>3. \A i \in 1..Len(defs) : (IF known(i) THEN <<>> ELSE <<defs[i]>>) \in Seq(Names) BY <2>2
  <2>4. \A i \in 1..Len(defs) : new[i] \in Seq(Names) BY <2>1, <2>3
  <2>5. new = [i \in 1..Len(defs) |-> new[i]] BY <2>1
  <2> HIDE DEF new
  <2> QED BY <2>1, <2>4, <2>5, IsList
<1>6. FlattenSeq(new) \in Seq(Names) BY <1>5, FlatIsSeq
<1>7. SymbolNames(m) = m.syms \o FlattenSeq(new) BY DEF SymbolNames, defs, a, b
<1> HIDE DEF new
<1> QED BY <1>1, <1>6, <1>7, ConcatProperties

(* What is written of the value of an operand can be read back, its kind   *)
(* known.                                                                  *)
LEMMA ValueRead ==
    ASSUME NEW m \in ModuleDefs, NEW n \in ModuleDefs, NEW o \in Operands, NEW p \in Operands,
           o.k = GLOBAL => o.n \in DOMAIN SymbolNames(m),
           p.k = GLOBAL => p.n \in DOMAIN SymbolNames(n)
    PROVE  /\ SigValue(m, o) \in Seq(Int) /\ SigValue(n, p) \in Seq(Int)
           /\ o.k = p.k => Splits(SigValue(m, o), SigValue(n, p))
           /\ o.k = p.k /\ SigValue(m, o) = SigValue(n, p) =>
                o.n = p.n /\ (o.k = GLOBAL => SymbolNames(m)[o.n] = SymbolNames(n)[p.n])
<1>1. /\ o.n \in Int /\ p.n \in Int
      /\ o.k = UNDEF => o.n = 0
      /\ p.k = UNDEF => p.n = 0
  BY DEF Operands
<1>2. \A x \in ModuleDefs : \A i \in DOMAIN SymbolNames(x) : SymbolNames(x)[i] \in Seq(Int)
  <2> TAKE x \in ModuleDefs
  <2> TAKE i \in DOMAIN SymbolNames(x)
  <2>1. SymbolNames(x) \in Seq(Names) BY SymbolNamesAreNames
  <2>2. SymbolNames(x)[i] \in Names BY <2>1
  <2> QED BY <2>2, NamesAreSeqs
<1>3. ASSUME NEW x \in ModuleDefs, NEW q \in Operands, q.n \in Int, q.k = GLOBAL =>
                 q.n \in DOMAIN SymbolNames(x)
      PROVE  SigValue(x, q) \in Seq(Int)
  <2>1. CASE q.k = GLOBAL
    <3>1. Str(SymbolNames(x)[q.n]) \in Seq(Int) BY <1>2, <1>3, <2>1, StrIsSeq
    <3>2. <<q.n>> \in Seq(Int) BY <1>3
    <3> QED BY <2>1, <3>1, <3>2, Conc DEF SigValue
  <2>2. CASE q.k # GLOBAL BY <2>2, <1>3 DEF SigValue
  <2> QED BY <2>1, <2>2
<1>4. SigValue(m, o) \in Seq(Int) /\ SigValue(n, p) \in Seq(Int) BY <1>1, <1>3
<1> SUFFICES ASSUME o.k = p.k
             PROVE  /\ Splits(SigValue(m, o), SigValue(n, p))
                    /\ SigValue(m, o) = SigValue(n, p) =>
                        o.n = p.n /\ (o.k = GLOBAL => SymbolNames(m)[o.n] = SymbolNames(n)[p.n])
  BY <1>4
<1>5. CASE o.k = GLOBAL
  <2> DEFINE x == SymbolNames(m)[o.n]
             y == SymbolNames(n)[p.n]
             h == o.n
             k == p.n
  <2>1. x \in Seq(Int) /\ y \in Seq(Int) BY <1>2, <1>5
  <2>2. SigValue(m, o) = <<h>> \o Str(x) /\ SigValue(n, p) = <<k>> \o Str(y) BY <1>5 DEF SigValue
  <2>3. h \in Int /\ k \in Int BY <1>1
  <2> HIDE DEF x, y, h, k
  <2>4. /\ Str(x) \in Seq(Int) /\ Str(y) \in Seq(Int) /\ Splits(Str(x), Str(y))
        /\ Str(x) = Str(y) => x = y
    BY <2>1, StrIsSeq, StrSplits
  <2>5. /\ Splits(<<h>> \o Str(x), <<k>> \o Str(y))
        /\ <<h>> \o Str(x) = <<k>> \o Str(y) => h = k /\ Str(x) = Str(y)
    BY <2>3, <2>4, HeadSplits
  <2>6. Splits(SigValue(m, o), SigValue(n, p)) BY <2>2, <2>5
  <2>7. SigValue(m, o) = SigValue(n, p) => h = k /\ x = y BY <2>2, <2>4, <2>5
  <2> QED BY <2>6, <2>7 DEF x, y, h, k
<1>6. CASE o.k = UNDEF
  <2>1. SigValue(m, o) = <<>> /\ SigValue(n, p) = <<>> BY <1>6 DEF SigValue, UNDEF, GLOBAL
  <2>2. Splits(SigValue(m, o), SigValue(n, p)) BY <2>1, <1>4, SplitsLen
  <2> QED BY <2>2, <1>1, <1>6 DEF UNDEF, GLOBAL
<1>7. CASE o.k # GLOBAL /\ o.k # UNDEF
  <2>1. SigValue(m, o) = <<o.n>> /\ SigValue(n, p) = <<p.n>> BY <1>7 DEF SigValue
  <2>2. Splits(<<o.n>>, <<p.n>>) /\ (<<o.n>> = <<p.n>> => o.n = p.n) BY <1>1, Num
  <2> QED BY <2>1, <2>2, <1>7
<1> QED BY <1>5, <1>6, <1>7

---------------------------------------------------------------------------
(* Reading an instruction.                                                 *)

(* A type can be read back up to its vectors.                              *)
LEMMA TypeReads ==
    ASSUME NEW t \in Types, NEW u \in Types
    PROVE  /\ Read(SigType[t], SigType[u])
           /\ VectorsAlike /\ SigType[t] = SigType[u] => t = u
<1>1. TypeRead(t, u) BY TypesRead
<1>2. SigType[t] \in Seq(Int) /\ SigType[u] \in Seq(Int) BY SigTypeIsSeq
<1> QED BY <1>1, <1>2 DEF TypeRead, Read, Seqs

(* A number can be read back.                                              *)
LEMMA NumReads ==
    ASSUME NEW h \in Int, NEW k \in Int
    PROVE  /\ Read(<<h>>, <<k>>)
           /\ <<h>> = <<k>> => h = k
BY Num DEF Read, Seqs

(* A name can be read back.                                                *)
LEMMA StrReads ==
    ASSUME NEW x \in Seq(Int), NEW y \in Seq(Int)
    PROVE  /\ Read(Str(x), Str(y))
           /\ Str(x) = Str(y) => x = y
BY StrIsSeq, StrSplits DEF Read, Seqs

(* A list written without its length can be read back, its length known.   *)
LEMMA LenReads ==
    ASSUME NEW x \in Seq(Int), NEW y \in Seq(Int), Len(x) = Len(y)
    PROVE  Read(x, y)
BY SplitsLen DEF Read, Seqs

FlatRead(n, p, q) ==
    /\ Read(FlattenSeq(p), FlattenSeq(q))
    /\ FlattenSeq(p) = FlattenSeq(q) => \A i \in 1..n : p[i] = q[i]

(* A list of fields written without its length can be read back, its       *)
(* length known.                                                           *)
LEMMA FlatReads ==
    ASSUME NEW n \in Nat, NEW p, NEW q, p = [i \in 1..n |-> p[i]], q = [i \in 1..n |-> q[i]],
           \A i \in 1..n : Read(p[i], q[i])
    PROVE  FlatRead(n, p, q)
<1>1. \A i \in 1..n : p[i] \in Seq(Int) /\ q[i] \in Seq(Int) /\ Splits(p[i], q[i]) BY DEF Read, Seqs
<1>2. p \in Seq(Seq(Int)) /\ Len(p) = n BY <1>1, IsList
<1>3. q \in Seq(Seq(Int)) /\ Len(q) = n BY <1>1, IsList
<1>4. FlattenSeq(p) \in Seq(Int) /\ FlattenSeq(q) \in Seq(Int) BY <1>2, <1>3, FlatIsSeq
<1>5. /\ Splits(FlattenSeq(p), FlattenSeq(q))
      /\ FlattenSeq(p) = FlattenSeq(q) => p = q
  BY <1>1, <1>2, <1>3, SplitsFlat
<1> QED BY <1>4, <1>5 DEF Read, Seqs, FlatRead

ListRead(n, h, p, q) ==
    /\ Read(Listed(p), Listed(q))
    /\ Listed(p) = Listed(q) => n = h /\ \A i \in 1..n : p[i] = q[i]

(* A counted list of fields can be read back.                              *)
LEMMA ListReads ==
    ASSUME NEW n \in Nat, NEW h \in Nat, NEW p, NEW q, p = [i \in 1..n |-> p[i]], q = [i \in 1..h |-> q[i]],
           \A i \in 1..n, k \in 1..h : Read(p[i], q[k]),
           \A i \in 1..n : p[i] \in Seq(Int), \A k \in 1..h : q[k] \in Seq(Int)
    PROVE  ListRead(n, h, p, q)
<1>2. p \in Seq(Seq(Int)) /\ Len(p) = n BY IsList
<1>3. q \in Seq(Seq(Int)) /\ Len(q) = h BY IsList
<1>4. \A i \in 1..Len(p), k \in 1..Len(q) : Splits(p[i], q[k]) BY <1>2, <1>3 DEF Read
<1>5. /\ Listed(p) \in Seq(Int) /\ Listed(q) \in Seq(Int)
      /\ Splits(Listed(p), Listed(q))
      /\ Listed(p) = Listed(q) => p = q
  BY <1>2, <1>3, <1>4, ListedSplits
<1> QED BY <1>2, <1>3, <1>5 DEF Read, Seqs, ListRead

GoodOperand(m, o) == o \in Operands /\ (o.k = GLOBAL => o.n \in DOMAIN SymbolNames(m))

(* An operand can be read back.                                            *)
LEMMA OperandReads ==
    ASSUME NEW m \in ModuleDefs, NEW n \in ModuleDefs, NEW o, NEW p, GoodOperand(m, o), GoodOperand(n, p)
    PROVE  /\ Read(SigOperand(m, o), SigOperand(n, p))
           /\ VectorsAlike /\ SigOperand(m, o) = SigOperand(n, p) =>
                o = p /\ (o.k = GLOBAL => SymbolNames(m)[o.n] = SymbolNames(n)[p.n])
<1>1. /\ o.k \in Int /\ o.t \in Types /\ o.off \in Int /\ o.n \in Int
      /\ o = [k |-> o.k, t |-> o.t, off |-> o.off, n |-> o.n]
  BY DEF GoodOperand, Operands, VREG, UNDEF
<1>2. /\ p.k \in Int /\ p.t \in Types /\ p.off \in Int /\ p.n \in Int
      /\ p = [k |-> p.k, t |-> p.t, off |-> p.off, n |-> p.n]
  BY DEF GoodOperand, Operands, VREG, UNDEF
<1> DEFINE a1 == <<o.k>>
           b1 == <<p.k>>
           a2 == SigType[o.t]
           b2 == SigType[p.t]
           a3 == <<o.off>>
           b3 == <<p.off>>
           a4 == SigValue(m, o)
           b4 == SigValue(n, p)
<1>3. Read(a1, b1) /\ (a1 = b1 => o.k = p.k) BY <1>1, <1>2, NumReads
<1>4. Read(a2, b2) /\ (VectorsAlike /\ a2 = b2 => o.t = p.t) BY <1>1, <1>2, TypeReads
<1>5. Read(a3, b3) /\ (a3 = b3 => o.off = p.off) BY <1>1, <1>2, NumReads
<1>6. /\ a4 \in Seq(Int) /\ b4 \in Seq(Int)
      /\ o.k = p.k => Splits(a4, b4)
      /\ o.k = p.k /\ a4 = b4 =>
           o.n = p.n /\ (o.k = GLOBAL => SymbolNames(m)[o.n] = SymbolNames(n)[p.n])
  BY ValueRead DEF GoodOperand
<1>7. Seqs(a4, b4) /\ (a1 = b1 => Read(a4, b4)) BY <1>3, <1>6 DEF Read, Seqs
<1>8. /\ SigOperand(m, o) = a1 \o a2 \o a3 \o a4
      /\ SigOperand(n, p) = b1 \o b2 \o b3 \o b4
  BY DEF SigOperand
<1> HIDE DEF a1, a2, a3, a4, b1, b2, b3, b4
<1>9. /\ Read(a1 \o a2 \o a3 \o a4, b1 \o b2 \o b3 \o b4)
      /\ a1 \o a2 \o a3 \o a4 = b1 \o b2 \o b3 \o b4 => a1 = b1 /\ a2 = b2 /\ a3 = b3 /\ a4 = b4
  <2>1. Read(a1, b1) /\ Read(a2, b2) /\ Read(a3, b3) BY <1>3, <1>4, <1>5
  <2>2. Joined4(a1, a2, a3, a4, b1, b2, b3, b4) BY <2>1, <1>7, Join4
  <2> QED BY <2>2 DEF Joined4
<1>10. ASSUME VectorsAlike, SigOperand(m, o) = SigOperand(n, p)
       PROVE  o = p /\ (o.k = GLOBAL => SymbolNames(m)[o.n] = SymbolNames(n)[p.n])
  <2>1. a1 = b1 /\ a2 = b2 /\ a3 = b3 /\ a4 = b4 BY <1>8, <1>9, <1>10
  <2>2. o.k = p.k /\ o.t = p.t /\ o.off = p.off /\ o.n = p.n /\ (o.k = GLOBAL =>
            SymbolNames(m)[o.n] = SymbolNames(n)[p.n])
    BY <2>1, <1>3, <1>4, <1>5, <1>6, <1>10
  <2>3. o = [k |-> p.k, t |-> p.t, off |-> p.off, n |-> p.n] BY <2>2, <1>1, Zenon
  <2>4. o = p BY <2>3, <1>2
  <2> QED BY <2>2, <2>4
<1> QED BY <1>8, <1>9, <1>10

(* What the back ends use of two instructions is the same.                 *)
SameInst(m, x, n, y) ==
    /\ x.op = y.op /\ x.t = y.t /\ x.d = y.d /\ x.o = y.o /\ x.idx = y.idx /\ x.align = y.align
    /\ x.ext = y.ext /\ x.va = y.va /\ x.fixed = y.fixed
    /\ x.idx = <<>> => x.p = y.p
    /\ \A i \in DOMAIN x.o : x.o[i].k = GLOBAL => SymbolNames(m)[x.o[i].n] = SymbolNames(n)[y.o[i].n]

(* The parts of an instruction.                                            *)
LEMMA InstFields ==
    ASSUME NEW m, NEW x, GoodInst(m, x)
    PROVE  /\ x.op \in Int /\ x.t \in Types /\ x.d \in Int /\ x.align \in Int /\ x.fixed \in Int /\
                  x.p \in Int
           /\ x.ext \in BOOLEAN /\ x.va \in BOOLEAN
           /\ x.o \in Seq(Operands) /\ x.idx \in Seq(Int)
           /\ DOMAIN x.o = 1..Len(x.o) /\ Len(x.o) \in Nat
           /\ \A i \in 1..Len(x.o) : GoodOperand(m, x.o[i])
<1>1. x \in Instructions BY DEF GoodInst
<1>2. /\ x.op \in Int /\ x.t \in Types /\ x.d \in Int /\ x.align \in Int /\ x.fixed \in Int /\ x.p \in Int
      /\ x.ext \in BOOLEAN /\ x.va \in BOOLEAN
      /\ x.o \in Seq(Operands) /\ x.idx \in Seq(Nat)
  BY <1>1 DEF Instructions
<1>3. x.idx \in Seq(Int) BY <1>2
<1>4. DOMAIN x.o = 1..Len(x.o) /\ Len(x.o) \in Nat BY <1>2, LenProperties
<1>5. \A i \in 1..Len(x.o) : x.o[i] \in Operands BY <1>2, ElementOfSeq
<1>6. \A i \in 1..Len(x.o) : GoodOperand(m, x.o[i]) BY <1>4, <1>5 DEF GoodInst, GoodOperand
<1> QED BY <1>2, <1>3, <1>4, <1>6

(* An instruction can be read back, but for the address that stands in for *)
(* its predicate when it has indices.                                      *)
LEMMA InstReads ==
    ASSUME NEW m \in ModuleDefs, NEW n \in ModuleDefs, NEW x, NEW y, GoodInst(m, x), GoodInst(n, y)
    PROVE  /\ Read(SigInst(m, x), SigInst(n, y))
           /\ VectorsAlike /\ SigInst(m, x) = SigInst(n, y) => SameInst(m, x, n, y)
<1>1. /\ x.op \in Int /\ x.t \in Types /\ x.d \in Int /\ x.align \in Int /\ x.fixed \in Int /\ x.p \in Int
      /\ x.ext \in BOOLEAN /\ x.va \in BOOLEAN
      /\ x.o \in Seq(Operands) /\ x.idx \in Seq(Int)
      /\ DOMAIN x.o = 1..Len(x.o) /\ Len(x.o) \in Nat
      /\ \A i \in 1..Len(x.o) : GoodOperand(m, x.o[i])
  BY InstFields
<1>2. /\ y.op \in Int /\ y.t \in Types /\ y.d \in Int /\ y.align \in Int /\ y.fixed \in Int /\ y.p \in Int
      /\ y.ext \in BOOLEAN /\ y.va \in BOOLEAN
      /\ y.o \in Seq(Operands) /\ y.idx \in Seq(Int)
      /\ DOMAIN y.o = 1..Len(y.o) /\ Len(y.o) \in Nat
      /\ \A i \in 1..Len(y.o) : GoodOperand(n, y.o[i])
  BY InstFields
<1> DEFINE q == PredOrAddress(m, x)
           r == PredOrAddress(n, y)
           u == Len(x.idx)
           v == Len(y.idx)
           p4 == [i \in DOMAIN x.o |-> SigOperand(m, x.o[i])]
           q4 == [i \in DOMAIN y.o |-> SigOperand(n, y.o[i])]
           a1 == <<x.op>>
           b1 == <<y.op>>
           a2 == SigType[x.t]
           b2 == SigType[y.t]
           a3 == <<x.d, Len(x.o), u, x.align, Flag(x.ext), Flag(x.va), x.fixed, q, q>>
           b3 == <<y.d, Len(y.o), v, y.align, Flag(y.ext), Flag(y.va), y.fixed, r, r>>
           a4 == FlattenSeq(p4)
           b4 == FlattenSeq(q4)
           a5 == x.idx
           b5 == y.idx
<1>3. q \in Int /\ r \in Int /\ u \in Nat /\ v \in Nat
  <2>1. m.at \in Int /\ n.at \in Int BY DEF ModuleDefs
  <2>2. u \in Nat /\ v \in Nat BY <1>1, <1>2, LenProperties
  <2> QED BY <2>1, <2>2, <1>1, <1>2 DEF PredOrAddress
<1>4. /\ Flag(x.ext) \in Int /\ Flag(y.ext) \in Int /\ (Flag(x.ext) = Flag(y.ext) => x.ext = y.ext)
      /\ Flag(x.va) \in Int /\ Flag(y.va) \in Int /\ (Flag(x.va) = Flag(y.va) => x.va = y.va)
  BY <1>1, <1>2, FlagRead
<1>5. /\ SigInst(m, x) = a1 \o a2 \o a3 \o a4 \o a5
      /\ SigInst(n, y) = b1 \o b2 \o b3 \o b4 \o b5
  BY DEF SigInst
<1>6. Read(a1, b1) /\ (a1 = b1 => x.op = y.op) BY <1>1, <1>2, NumReads
<1>7. Read(a2, b2) /\ (VectorsAlike /\ a2 = b2 => x.t = y.t) BY <1>1, <1>2, TypeReads
<1>8. a3 \in Seq(Int) /\ b3 \in Seq(Int) /\ Len(a3) = Len(b3)
  <2> HIDE DEF q, r, u, v
  <2> QED BY <1>1, <1>2, <1>3, <1>4
<1>9. Read(a3, b3)
  <2> HIDE DEF a3, b3
  <2> QED BY <1>8, LenReads
<1>10. a3 = b3 => /\ x.d = y.d /\ Len(x.o) = Len(y.o) /\ u = v /\ x.align = y.align
                  /\ Flag(x.ext) = Flag(y.ext) /\ Flag(x.va) = Flag(y.va) /\ x.fixed = y.fixed /\ q = r
  <2> HIDE DEF q, r, u, v
  <2> QED OBVIOUS
<1>11. /\ p4 = [i \in 1..Len(x.o) |-> p4[i]] /\ \A i \in 1..Len(x.o) : p4[i] = SigOperand(m, x.o[i])
       /\ q4 = [i \in 1..Len(y.o) |-> q4[i]] /\ \A i \in 1..Len(y.o) : q4[i] = SigOperand(n, y.o[i])
  BY <1>1, <1>2
<1>12. Seqs(a4, b4)
  <2>1. \A i \in 1..Len(x.o) : Read(p4[i], p4[i]) BY <1>1, <1>11, OperandReads
  <2>2. \A i \in 1..Len(y.o) : Read(q4[i], q4[i]) BY <1>2, <1>11, OperandReads
  <2> HIDE DEF p4, q4
  <2>3. Read(a4, a4) BY <2>1, <1>1, <1>11, FlatReads DEF FlatRead
  <2>4. Read(b4, b4) BY <2>2, <1>2, <1>11, FlatReads DEF FlatRead
  <2> QED BY <2>3, <2>4 DEF Read, Seqs
<1>13. ASSUME Len(x.o) = Len(y.o)
       PROVE  /\ Read(a4, b4)
              /\ a4 = b4 => \A i \in 1..Len(x.o) : SigOperand(m, x.o[i]) = SigOperand(n, y.o[i])
  <2>1. \A i \in 1..Len(x.o) : Read(p4[i], q4[i]) BY <1>1, <1>2, <1>11, <1>13, OperandReads
  <2>2. q4 = [i \in 1..Len(x.o) |-> q4[i]] BY <1>11, <1>13
  <2>0. p4 = [i \in 1..Len(x.o) |-> p4[i]] /\ Len(x.o) \in Nat BY <1>1, <1>11
  <2> HIDE DEF p4, q4
  <2>3. /\ Read(a4, b4)
        /\ a4 = b4 => \A i \in 1..Len(x.o) : p4[i] = q4[i]
    <3>1. FlatRead(Len(x.o), p4, q4) BY <2>0, <2>1, <2>2, FlatReads
    <3> QED BY <3>1 DEF FlatRead
  <2> QED BY <2>3, <1>11, <1>13
<1>14. Seqs(a5, b5) /\ (u = v => Read(a5, b5)) BY <1>1, <1>2, LenReads DEF Seqs
<1>15. (a3 = b3 => Read(a4, b4)) /\ (a3 = b3 => Read(a5, b5))
  <2> HIDE DEF a3, b3, a4, b4, a5, b5, u, v
  <2> QED BY <1>10, <1>13, <1>14
<1>16. /\ Read(a1 \o a2 \o a3 \o a4 \o a5, b1 \o b2 \o b3 \o b4 \o b5)
       /\ a1 \o a2 \o a3 \o a4 \o a5 = b1 \o b2 \o b3 \o b4 \o b5 =>
            a1 = b1 /\ a2 = b2 /\ a3 = b3 /\ a4 = b4 /\ a5 = b5
  <2> HIDE DEF a1, a2, a3, a4, a5, b1, b2, b3, b4, b5
  <2>1. Read(a1, b1) /\ Read(a2, b2) /\ Read(a3, b3) BY <1>6, <1>7, <1>9
  <2>2. Seqs(a4, b4) /\ Seqs(a5, b5) BY <1>12, <1>14
  <2>3. Joined5(a1, a2, a3, a4, a5, b1, b2, b3, b4, b5) BY <2>1, <2>2, <1>15, Join5
  <2> QED BY <2>3 DEF Joined5
<1>17. ASSUME VectorsAlike, SigInst(m, x) = SigInst(n, y) PROVE SameInst(m, x, n, y)
  <2>1. a1 = b1 /\ a2 = b2 /\ a3 = b3 /\ a4 = b4 /\ a5 = b5
    <3> HIDE DEF a1, a2, a3, a4, a5, b1, b2, b3, b4, b5
    <3> QED BY <1>5, <1>16, <1>17
  <2>2. /\ x.d = y.d /\ Len(x.o) = Len(y.o) /\ x.align = y.align
        /\ Flag(x.ext) = Flag(y.ext) /\ Flag(x.va) = Flag(y.va) /\ x.fixed = y.fixed /\ q = r
    <3> HIDE DEF a3, b3, q, r, u, v
    <3> QED BY <2>1, <1>10
  <2>3. x.op = y.op /\ x.t = y.t /\ x.idx = y.idx /\ x.ext = y.ext /\ x.va = y.va
    <3>1. x.idx = y.idx BY <2>1
    <3> HIDE DEF a1, a2, a3, b1, b2, b3, q, r, u, v
    <3> QED BY <3>1, <2>1, <2>2, <1>4, <1>6, <1>7, <1>17
  <2>4. x.idx = <<>> => x.p = y.p BY <2>2, <2>3 DEF PredOrAddress
  <2>5. \A i \in 1..Len(x.o) : SigOperand(m, x.o[i]) = SigOperand(n, y.o[i])
    <3> HIDE DEF a4, b4
    <3> QED BY <2>1, <2>2, <1>13
  <2>6. \A i \in 1..Len(x.o) : /\ x.o[i] = y.o[i]
                               /\ x.o[i].k = GLOBAL => SymbolNames(m)[x.o[i].n] = SymbolNames(n)[y.o[i].n]
    <3> TAKE i \in 1..Len(x.o)
    <3>1. GoodOperand(m, x.o[i]) /\ GoodOperand(n, y.o[i]) BY <1>1, <1>2, <2>2
    <3> QED BY <3>1, <2>5, <1>17, OperandReads
  <2>7. x.o = y.o BY <2>2, <2>6, <1>1, <1>2, SeqEqual
  <2> QED BY <2>2, <2>3, <2>4, <2>6, <2>7, <1>1 DEF SameInst
<1> QED BY <1>5, <1>16, <1>17

---------------------------------------------------------------------------
(* Reading blocks and functions.                                           *)

SameBlock(m, b, n, c) ==
    /\ b.insts \in Seq(Instructions) /\ c.insts \in Seq(Instructions) /\ Len(b.insts) = Len(c.insts)
    /\ \A i \in 1..Len(b.insts) : SameInst(m, b.insts[i], n, c.insts[i])

(* The parts of a block.                                                   *)
LEMMA BlockFields ==
    ASSUME NEW m, NEW b, GoodBlock(m, b)
    PROVE  /\ b.id \in Int /\ b.name \in Seq(Int) /\ b.insts \in Seq(Instructions)
           /\ DOMAIN b.insts = 1..Len(b.insts) /\ Len(b.insts) \in Nat
           /\ \A i \in 1..Len(b.insts) : GoodInst(m, b.insts[i])
<1>1. b \in BasicBlocks BY DEF GoodBlock
<1>2. b.id \in Int /\ b.name \in Names /\ b.insts \in Seq(Instructions) BY <1>1 DEF BasicBlocks
<1>3. DOMAIN b.insts = 1..Len(b.insts) /\ Len(b.insts) \in Nat BY <1>2, LenProperties
<1> QED BY <1>2, <1>3, NamesAreSeqs DEF GoodBlock

(* A block can be read back.                                               *)
LEMMA BlockReads ==
    ASSUME NEW m \in ModuleDefs, NEW n \in ModuleDefs, NEW b, NEW c, GoodBlock(m, b), GoodBlock(n, c)
    PROVE  /\ Read(SigBlock(m, b), SigBlock(n, c))
           /\ VectorsAlike /\ SigBlock(m, b) = SigBlock(n, c) => SameBlock(m, b, n, c)
<1>1. /\ b.id \in Int /\ b.name \in Seq(Int) /\ b.insts \in Seq(Instructions)
      /\ DOMAIN b.insts = 1..Len(b.insts) /\ Len(b.insts) \in Nat
      /\ \A i \in 1..Len(b.insts) : GoodInst(m, b.insts[i])
  BY BlockFields
<1>2. /\ c.id \in Int /\ c.name \in Seq(Int) /\ c.insts \in Seq(Instructions)
      /\ DOMAIN c.insts = 1..Len(c.insts) /\ Len(c.insts) \in Nat
      /\ \A i \in 1..Len(c.insts) : GoodInst(n, c.insts[i])
  BY BlockFields
<1> DEFINE u == Len(b.insts)
           v == Len(c.insts)
           p == [i \in DOMAIN b.insts |-> SigInst(m, b.insts[i])]
           q == [i \in DOMAIN c.insts |-> SigInst(n, c.insts[i])]
           a1 == <<b.id>>
           b1 == <<c.id>>
           a2 == Str(b.name)
           b2 == Str(c.name)
           a3 == Listed(p)
           b3 == Listed(q)
<1>3. SigBlock(m, b) = a1 \o a2 \o a3 /\ SigBlock(n, c) = b1 \o b2 \o b3 BY DEF SigBlock
<1>4. Read(a1, b1) BY <1>1, <1>2, NumReads
<1>5. Read(a2, b2) BY <1>1, <1>2, StrReads
<1>6. /\ p = [i \in 1..u |-> p[i]] /\ \A i \in 1..u : p[i] = SigInst(m, b.insts[i])
      /\ q = [i \in 1..v |-> q[i]] /\ \A i \in 1..v : q[i] = SigInst(n, c.insts[i])
  BY <1>1, <1>2
<1>7. \A i \in 1..u, k \in 1..v : Read(p[i], q[k]) BY <1>1, <1>2, <1>6, InstReads
<1>8. /\ \A i \in 1..u : p[i] \in Seq(Int)
      /\ \A i \in 1..v : q[i] \in Seq(Int)
  <2>1. \A i \in 1..u : Read(p[i], p[i]) BY <1>1, <1>6, InstReads
  <2>2. \A i \in 1..v : Read(q[i], q[i]) BY <1>2, <1>6, InstReads
  <2> HIDE DEF p, q, u, v
  <2> QED BY <2>1, <2>2 DEF Read, Seqs
<1>9. u \in Nat /\ v \in Nat BY <1>1, <1>2
<1>10. ListRead(u, v, p, q)
  <2> HIDE DEF p, q, u, v
  <2> QED BY <1>6, <1>7, <1>8, <1>9, ListReads
<1>11. Read(a3, b3) /\ (a3 = b3 => u = v /\ \A i \in 1..u : p[i] = q[i])
  BY <1>10 DEF ListRead
<1>12. Joined3(a1, a2, a3, b1, b2, b3)
  <2> HIDE DEF a1, a2, a3, b1, b2, b3
  <2>1. Seqs(a2, b2) /\ Seqs(a3, b3) BY <1>5, <1>11, ReadSeqs
  <2>2. Read(a3, b3) BY <1>11
  <2> QED BY <2>1, <2>2, <1>4, <1>5, Join3
<1>13. ASSUME VectorsAlike, SigBlock(m, b) = SigBlock(n, c) PROVE SameBlock(m, b, n, c)
  <2>1. u = v /\ \A i \in 1..u : p[i] = q[i]
    <3> HIDE DEF a1, a2, a3, b1, b2, b3
    <3> QED BY <1>3, <1>11, <1>12, <1>13 DEF Joined3
  <2>2. \A i \in 1..u : SigInst(m, b.insts[i]) = SigInst(n, c.insts[i]) BY <2>1, <1>6
  <2>3. \A i \in 1..u : SameInst(m, b.insts[i], n, c.insts[i])
    BY <2>1, <2>2, <1>1, <1>2, <1>13, InstReads
  <2> QED BY <2>1, <2>3, <1>1, <1>2 DEF SameBlock
<1> QED BY <1>3, <1>12, <1>13 DEF Joined3

SameFunc(m, f, n, g) ==
    /\ f.name = g.name /\ f.decl = g.decl /\ f.va = g.va /\ f.params = g.params /\ f.ret = g.ret
    /\ f.blocks \in Seq(BasicBlocks) /\ g.blocks \in Seq(BasicBlocks) /\ Len(f.blocks) = Len(g.blocks)
    /\ \A i \in 1..Len(f.blocks) : SameBlock(m, f.blocks[i], n, g.blocks[i])

(* The parts of a function.                                                *)
LEMMA FuncFields ==
    ASSUME NEW m, NEW f, GoodFunc(m, f)
    PROVE  /\ f.name \in Seq(Int) /\ f.decl \in BOOLEAN /\ f.va \in BOOLEAN /\ f.next \in Int
           /\ f.ret \in Types /\ f.type \in Types
           /\ f.params \in Seq(Types) /\ DOMAIN f.params = 1..Len(f.params) /\ Len(f.params) \in Nat
           /\ f.blocks \in Seq(BasicBlocks)
           /\ DOMAIN f.blocks = 1..Len(f.blocks) /\ Len(f.blocks) \in Nat
           /\ \A i \in 1..Len(f.blocks) : GoodBlock(m, f.blocks[i])
<1>1. f \in FunctionDefs BY DEF GoodFunc
<1>2. /\ f.name \in Names /\ f.decl \in BOOLEAN /\ f.va \in BOOLEAN /\ f.next \in Int
      /\ f.ret \in Types /\ f.type \in Types
      /\ f.params \in Seq(Types) /\ f.blocks \in Seq(BasicBlocks)
  BY <1>1 DEF FunctionDefs
<1>3. DOMAIN f.blocks = 1..Len(f.blocks) /\ Len(f.blocks) \in Nat BY <1>2, LenProperties
<1>4. DOMAIN f.params = 1..Len(f.params) /\ Len(f.params) \in Nat BY <1>2, LenProperties
<1> QED BY <1>2, <1>3, <1>4, NamesAreSeqs DEF GoodFunc

(* A function can be read back.                                            *)
LEMMA FuncReads ==
    ASSUME NEW m \in ModuleDefs, NEW n \in ModuleDefs, NEW f, NEW g, GoodFunc(m, f), GoodFunc(n, g)
    PROVE  /\ Read(SigFunction(m, f), SigFunction(n, g))
           /\ VectorsAlike /\ SigFunction(m, f) = SigFunction(n, g) => SameFunc(m, f, n, g)
<1>1. /\ f.name \in Seq(Int) /\ f.decl \in BOOLEAN /\ f.va \in BOOLEAN /\ f.next \in Int
      /\ f.ret \in Types /\ f.type \in Types
      /\ f.params \in Seq(Types) /\ DOMAIN f.params = 1..Len(f.params) /\ Len(f.params) \in Nat
      /\ f.blocks \in Seq(BasicBlocks)
      /\ DOMAIN f.blocks = 1..Len(f.blocks) /\ Len(f.blocks) \in Nat
      /\ \A i \in 1..Len(f.blocks) : GoodBlock(m, f.blocks[i])
  BY FuncFields
<1>2. /\ g.name \in Seq(Int) /\ g.decl \in BOOLEAN /\ g.va \in BOOLEAN /\ g.next \in Int
      /\ g.ret \in Types /\ g.type \in Types
      /\ g.params \in Seq(Types) /\ DOMAIN g.params = 1..Len(g.params) /\ Len(g.params) \in Nat
      /\ g.blocks \in Seq(BasicBlocks)
      /\ DOMAIN g.blocks = 1..Len(g.blocks) /\ Len(g.blocks) \in Nat
      /\ \A i \in 1..Len(g.blocks) : GoodBlock(n, g.blocks[i])
  BY FuncFields
<1> DEFINE u == Len(f.blocks)
           v == Len(g.blocks)
           x == Len(f.params)
           y == Len(g.params)
           r == [i \in DOMAIN f.params |-> SigType[f.params[i]]]
           s == [i \in DOMAIN g.params |-> SigType[g.params[i]]]
           p == [i \in DOMAIN f.blocks |-> SigBlock(m, f.blocks[i])]
           q == [i \in DOMAIN g.blocks |-> SigBlock(n, g.blocks[i])]
           a1 == Str(f.name)
           b1 == Str(g.name)
           a2 == <<Flag(f.decl), Flag(f.va), x, f.next>>
           b2 == <<Flag(g.decl), Flag(g.va), y, g.next>>
           a3 == SigType[f.ret]
           b3 == SigType[g.ret]
           a4 == SigType[f.type]
           b4 == SigType[g.type]
           a5 == FlattenSeq(r)
           b5 == FlattenSeq(s)
           a6 == [i \in DOMAIN f.params |-> i]
           b6 == [i \in DOMAIN g.params |-> i]
           a7 == Listed(p)
           b7 == Listed(q)
<1>3. /\ SigFunction(m, f) = a1 \o a2 \o a3 \o a4 \o a5 \o a6 \o a7
      /\ SigFunction(n, g) = b1 \o b2 \o b3 \o b4 \o b5 \o b6 \o b7
  BY DEF SigFunction
<1>4. Read(a1, b1) /\ (a1 = b1 => f.name = g.name) BY <1>1, <1>2, StrReads
<1>5. /\ Flag(f.decl) \in Int /\ Flag(g.decl) \in Int /\ (Flag(f.decl) = Flag(g.decl) => f.decl = g.decl)
      /\ Flag(f.va) \in Int /\ Flag(g.va) \in Int /\ (Flag(f.va) = Flag(g.va) => f.va = g.va)
  BY <1>1, <1>2, FlagRead
<1>6. Read(a2, b2) /\ (a2 = b2 => Flag(f.decl) = Flag(g.decl) /\ Flag(f.va) = Flag(g.va) /\ x = y)
  <2>1. x \in Int /\ y \in Int BY <1>1, <1>2
  <2> HIDE DEF x, y
  <2>2. a2 \in Seq(Int) /\ b2 \in Seq(Int) /\ Len(a2) = Len(b2) BY <2>1, <1>1, <1>2, <1>5
  <2>3. a2 = b2 => Flag(f.decl) = Flag(g.decl) /\ Flag(f.va) = Flag(g.va) /\ x = y OBVIOUS
  <2> HIDE DEF a2, b2
  <2> QED BY <2>2, <2>3, LenReads
<1>7. Read(a3, b3) /\ Read(a4, b4) /\ (VectorsAlike /\ a3 = b3 => f.ret = g.ret)
  BY <1>1, <1>2, TypeReads
<1>8. /\ r = [i \in 1..x |-> r[i]] /\ \A i \in 1..x : r[i] = SigType[f.params[i]] /\ f.params[i] \in Types
      /\ s = [i \in 1..y |-> s[i]] /\ \A i \in 1..y : s[i] = SigType[g.params[i]] /\ g.params[i] \in Types
      /\ x \in Nat /\ y \in Nat
  BY <1>1, <1>2, ElementOfSeq
<1>9. Seqs(a5, b5)
  <2>1. \A i \in 1..x : Read(r[i], r[i]) BY <1>8, TypeReads
  <2>2. \A i \in 1..y : Read(s[i], s[i]) BY <1>8, TypeReads
  <2> HIDE DEF r, s, x, y
  <2>3. FlatRead(x, r, r) /\ FlatRead(y, s, s) BY <2>1, <2>2, <1>8, FlatReads
  <2> QED BY <2>3 DEF FlatRead, Read, Seqs
<1>10. ASSUME x = y
       PROVE  /\ Read(a5, b5)
              /\ VectorsAlike /\ a5 = b5 => f.params = g.params
  <2>1. \A i \in 1..x : Read(r[i], s[i]) BY <1>8, <1>10, TypeReads
  <2>2. FlatRead(x, r, s)
    <3>1. s = [i \in 1..x |-> s[i]] BY <1>8, <1>10
    <3> HIDE DEF r, s, x, y
    <3> QED BY <3>1, <2>1, <1>8, FlatReads
  <2>3. ASSUME VectorsAlike, a5 = b5 PROVE f.params = g.params
    <3>1. \A i \in 1..x : r[i] = s[i] BY <2>2, <2>3 DEF FlatRead
    <3>2. \A i \in 1..x : f.params[i] = g.params[i] BY <3>1, <1>8, <1>10, <2>3, TypeReads
    <3> QED BY <3>2, <1>1, <1>2, <1>10, SeqEqual
  <2> QED BY <2>2, <2>3 DEF FlatRead
<1>11. Seqs(a6, b6) /\ (x = y => Read(a6, b6))
  <2>1. a6 \in Seq(Int) /\ b6 \in Seq(Int) /\ Len(a6) = x /\ Len(b6) = y BY <1>1, <1>2
  <2> HIDE DEF a6, b6, x, y
  <2> QED BY <2>1, LenReads DEF Seqs
<1>12. /\ p = [i \in 1..u |-> p[i]] /\ \A i \in 1..u : p[i] = SigBlock(m, f.blocks[i])
       /\ q = [i \in 1..v |-> q[i]] /\ \A i \in 1..v : q[i] = SigBlock(n, g.blocks[i])
       /\ u \in Nat /\ v \in Nat
  BY <1>1, <1>2
<1>13. \A i \in 1..u, k \in 1..v : Read(p[i], q[k]) BY <1>1, <1>2, <1>12, BlockReads
<1>14. /\ \A i \in 1..u : p[i] \in Seq(Int)
       /\ \A i \in 1..v : q[i] \in Seq(Int)
  <2>1. \A i \in 1..u : Read(p[i], p[i]) BY <1>1, <1>12, BlockReads
  <2>2. \A i \in 1..v : Read(q[i], q[i]) BY <1>2, <1>12, BlockReads
  <2> HIDE DEF p, q, u, v
  <2> QED BY <2>1, <2>2 DEF Read, Seqs
<1>15. ListRead(u, v, p, q)
  <2> HIDE DEF p, q, u, v
  <2> QED BY <1>12, <1>13, <1>14, ListReads
<1>16. Read(a7, b7) /\ (a7 = b7 => u = v /\ \A i \in 1..u : p[i] = q[i])
  BY <1>15 DEF ListRead
<1>17. Joined7(a1, a2, a3, a4, a5, a6, a7, b1, b2, b3, b4, b5, b6, b7)
  <2> HIDE DEF a1, a2, a3, a4, a5, a6, a7, b1, b2, b3, b4, b5, b6, b7, x, y, u, v
  <2>1. Read(a1, b1) /\ Read(a2, b2) /\ Read(a3, b3) /\ Read(a4, b4) /\ Seqs(a5, b5) /\ Seqs(a6, b6) /\
            Read(a7, b7)
    BY <1>4, <1>6, <1>7, <1>9, <1>11, <1>16
  <2>2. (a2 = b2 => Read(a5, b5)) /\ (a2 = b2 => Read(a6, b6))
    BY <1>6, <1>10, <1>11
  <2> QED BY <2>1, <2>2, Join7
<1>18. ASSUME VectorsAlike, SigFunction(m, f) = SigFunction(n, g) PROVE SameFunc(m, f, n, g)
  <2>1. a1 = b1 /\ a2 = b2 /\ a3 = b3 /\ a5 = b5 /\ a7 = b7
    <3> HIDE DEF a1, a2, a3, a4, a5, a6, a7, b1, b2, b3, b4, b5, b6, b7
    <3> QED BY <1>3, <1>17, <1>18 DEF Joined7
  <2>2. f.name = g.name /\ f.decl = g.decl /\ f.va = g.va /\ f.params = g.params /\ f.ret = g.ret
    <3> HIDE DEF a1, a2, a3, a5, b1, b2, b3, b5, x, y
    <3> QED BY <2>1, <1>4, <1>5, <1>6, <1>7, <1>10, <1>18
  <2>3. u = v /\ \A i \in 1..u : p[i] = q[i]
    <3> HIDE DEF a7, b7
    <3> QED BY <2>1, <1>16
  <2>4. \A i \in 1..u : SigBlock(m, f.blocks[i]) = SigBlock(n, g.blocks[i]) BY <2>3, <1>12
  <2>5. \A i \in 1..u : SameBlock(m, f.blocks[i], n, g.blocks[i])
    BY <2>3, <2>4, <1>1, <1>2, <1>18, BlockReads
  <2> QED BY <2>2, <2>3, <2>5, <1>1, <1>2 DEF SameFunc
<1> QED
  <2> HIDE DEF a1, a2, a3, a4, a5, a6, a7, b1, b2, b3, b4, b5, b6, b7
  <2> QED BY <1>3, <1>17, <1>18 DEF Joined7

---------------------------------------------------------------------------
(* Reading a module, and what follows for the code.                        *)

(* The signature of a global is a sequence of numbers.                     *)
LEMMA GlobalSigIsSeq ==
    ASSUME NEW m, NEW g \in GlobalDefs
    PROVE  SigGlobal(m, g) \in Seq(Int)
<1>1. /\ g.name \in Names /\ g.t \in Types /\ g.const \in BOOLEAN /\ g.external \in BOOLEAN /\ g.id \in Nat
      /\ g.init \in Seq(Nat) /\ g.relocs \in Seq([off : Nat, addend : Int, sym : Names])
  BY DEF GlobalDefs
<1> DEFINE p == [i \in DOMAIN g.relocs |-> SigReloc(g.relocs[i])]
           a1 == Str(g.name)
           a2 == SigType[g.t]
           a3 == <<Flag(g.const), Flag(g.external), g.id>>
           a4 == Str(g.init)
           a5 == Listed(p)
<1>2. a1 \in Seq(Int) BY <1>1, NamesAreSeqs, StrIsSeq
<1>3. a2 \in Seq(Int) BY <1>1, SigTypeIsSeq
<1>4. a3 \in Seq(Int) BY <1>1 DEF Flag
<1>5. a4 \in Seq(Int)
  <2>1. g.init \in Seq(Int) BY <1>1
  <2> QED BY <2>1, StrIsSeq
<1>6. a5 \in Seq(Int)
  <2>1. ASSUME NEW r \in [off : Nat, addend : Int, sym : Names] PROVE SigReloc(r) \in Seq(Int)
    <3>1. <<r.off, r.addend>> \in Seq(Int) OBVIOUS
    <3>2. Str(r.sym) \in Seq(Int) BY NamesAreSeqs, StrIsSeq
    <3> QED BY <3>1, <3>2, Conc DEF SigReloc
  <2>2. DOMAIN g.relocs = 1..Len(g.relocs) /\ Len(g.relocs) \in Nat BY <1>1, LenProperties
  <2>3. \A i \in 1..Len(g.relocs) : g.relocs[i] \in [off : Nat, addend : Int, sym : Names]
    BY <1>1, ElementOfSeq
  <2>4. p = [i \in 1..Len(g.relocs) |-> p[i]] /\ \A i \in 1..Len(g.relocs) : p[i] \in Seq(Int)
    BY <2>1, <2>2, <2>3
  <2> HIDE DEF p
  <2>5. p \in Seq(Seq(Int)) /\ Len(p) = Len(g.relocs) BY <2>2, <2>4, IsList
  <2>6. FlattenSeq(p) \in Seq(Int) BY <2>5, FlatIsSeq
  <2>7. <<Len(p)>> \in Seq(Int) BY <2>2, <2>5
  <2> QED BY <2>6, <2>7, Conc DEF Listed
<1>7. SigGlobal(m, g) = a1 \o a2 \o a3 \o a4 \o a5 BY DEF SigGlobal
<1> HIDE DEF a1, a2, a3, a4, a5
<1>8. a1 \o a2 \in Seq(Int) BY <1>2, <1>3, Conc
<1>9. a1 \o a2 \o a3 \in Seq(Int) BY <1>8, <1>4, Conc
<1>10. a1 \o a2 \o a3 \o a4 \in Seq(Int) BY <1>9, <1>5, Conc
<1>11. a1 \o a2 \o a3 \o a4 \o a5 \in Seq(Int) BY <1>10, <1>6, Conc
<1> QED BY <1>7, <1>11

(* A counted list of sequences is a sequence.                              *)
LEMMA ListedIsSeq ==
    ASSUME NEW n \in Nat, NEW p, p = [i \in 1..n |-> p[i]], \A i \in 1..n : p[i] \in Seq(Int)
    PROVE  Listed(p) \in Seq(Int)
<1>1. p \in Seq(Seq(Int)) /\ Len(p) = n BY IsList
<1>2. FlattenSeq(p) \in Seq(Int) BY <1>1, FlatIsSeq
<1>3. <<Len(p)>> \in Seq(Int) BY <1>1
<1> QED BY <1>2, <1>3, Conc DEF Listed

(* Modules of one signature have the same functions, one by one.           *)
LEMMA ModuleReads ==
    ASSUME NEW m, NEW n, GoodModule(m), GoodModule(n), VectorsAlike, SigModule(m) = SigModule(n)
    PROVE  /\ Len(m.funcs) = Len(n.funcs) /\ DOMAIN m.funcs = 1..Len(m.funcs) /\
                  DOMAIN n.funcs = 1..Len(n.funcs)
           /\ \A i \in 1..Len(m.funcs) : /\ SigFunction(m, m.funcs[i]) = SigFunction(n, n.funcs[i])
                                         /\ SameFunc(m, m.funcs[i], n, n.funcs[i])
<1>0. m \in ModuleDefs /\ n \in ModuleDefs BY DEF GoodModule
<1>1. m.funcs \in Seq(FunctionDefs) /\ m.globals \in Seq(GlobalDefs) BY <1>0 DEF ModuleDefs
<1>2. n.funcs \in Seq(FunctionDefs) /\ n.globals \in Seq(GlobalDefs) BY <1>0 DEF ModuleDefs
<1>3. SymbolNames(m) \in Seq(Names) /\ SymbolNames(n) \in Seq(Names) BY <1>0, SymbolNamesAreNames
<1> DEFINE u == Len(m.funcs)
           v == Len(n.funcs)
           x == Len(SymbolNames(m))
           y == Len(SymbolNames(n))
           r == [i \in DOMAIN SymbolNames(m) |-> Str(SymbolNames(m)[i])]
           s == [i \in DOMAIN SymbolNames(n) |-> Str(SymbolNames(n)[i])]
           p == [i \in DOMAIN m.funcs |-> SigFunction(m, m.funcs[i])]
           q == [i \in DOMAIN n.funcs |-> SigFunction(n, n.funcs[i])]
           a3 == Listed([i \in DOMAIN m.globals |-> SigGlobal(m, m.globals[i])])
           b3 == Listed([i \in DOMAIN n.globals |-> SigGlobal(n, n.globals[i])])
           a1 == Listed(r)
           b1 == Listed(s)
           a2 == Listed(p)
           b2 == Listed(q)
<1>4. SigModule(m) = a1 \o a2 \o a3 /\ SigModule(n) = b1 \o b2 \o b3 BY DEF SigModule
<1>5. Read(a1, b1)
  <2>1. DOMAIN SymbolNames(m) = 1..x /\ DOMAIN SymbolNames(n) = 1..y /\ x \in Nat /\ y \in Nat
    BY <1>3, LenProperties
  <2>2. /\ \A i \in 1..x : SymbolNames(m)[i] \in Seq(Int)
        /\ \A i \in 1..y : SymbolNames(n)[i] \in Seq(Int)
    BY <1>3, ElementOfSeq, NamesAreSeqs
  <2>3. /\ r = [i \in 1..x |-> r[i]] /\ \A i \in 1..x : r[i] = Str(SymbolNames(m)[i])
        /\ s = [i \in 1..y |-> s[i]] /\ \A i \in 1..y : s[i] = Str(SymbolNames(n)[i])
    BY <2>1
  <2>4. /\ \A i \in 1..x, k \in 1..y : Read(r[i], s[k])
        /\ \A i \in 1..x : r[i] \in Seq(Int)
        /\ \A i \in 1..y : s[i] \in Seq(Int)
    BY <2>2, <2>3, StrReads, StrIsSeq
  <2> HIDE DEF r, s, x, y
  <2>5. ListRead(x, y, r, s) BY <2>1, <2>3, <2>4, ListReads
  <2> QED BY <2>5 DEF ListRead
<1>6. DOMAIN m.funcs = 1..u /\ DOMAIN n.funcs = 1..v /\ u \in Nat /\ v \in Nat
  BY <1>1, <1>2, LenProperties
<1>7. /\ \A i \in 1..u : GoodFunc(m, m.funcs[i])
      /\ \A i \in 1..v : GoodFunc(n, n.funcs[i])
  BY <1>6 DEF GoodModule
<1>8. /\ p = [i \in 1..u |-> p[i]] /\ \A i \in 1..u : p[i] = SigFunction(m, m.funcs[i])
      /\ q = [i \in 1..v |-> q[i]] /\ \A i \in 1..v : q[i] = SigFunction(n, n.funcs[i])
  BY <1>6
<1>9. \A i \in 1..u, k \in 1..v : Read(p[i], q[k]) BY <1>0, <1>7, <1>8, FuncReads
<1>10. /\ \A i \in 1..u : p[i] \in Seq(Int)
       /\ \A i \in 1..v : q[i] \in Seq(Int)
  <2>1. \A i \in 1..u : Read(p[i], p[i]) BY <1>0, <1>7, <1>8, FuncReads
  <2>2. \A i \in 1..v : Read(q[i], q[i]) BY <1>0, <1>7, <1>8, FuncReads
  <2> HIDE DEF p, q, u, v
  <2> QED BY <2>1, <2>2 DEF Read, Seqs
<1>11. ListRead(u, v, p, q)
  <2> HIDE DEF p, q, u, v
  <2> QED BY <1>6, <1>8, <1>9, <1>10, ListReads
<1>12. Read(a2, b2) /\ (a2 = b2 => u = v /\ \A i \in 1..u : p[i] = q[i])
  BY <1>11 DEF ListRead
<1>13. \A h \in ModuleDefs : Listed([i \in DOMAIN h.globals |-> SigGlobal(h, h.globals[i])]) \in Seq(Int)
  <2> TAKE h \in ModuleDefs
  <2> DEFINE z == [i \in DOMAIN h.globals |-> SigGlobal(h, h.globals[i])]
  <2>1. h.globals \in Seq(GlobalDefs) BY DEF ModuleDefs
  <2>2. DOMAIN h.globals = 1..Len(h.globals) /\ Len(h.globals) \in Nat BY <2>1, LenProperties
  <2>3. \A i \in 1..Len(h.globals) : h.globals[i] \in GlobalDefs BY <2>1, ElementOfSeq
  <2>4. z = [i \in 1..Len(h.globals) |-> z[i]] /\ \A i \in 1..Len(h.globals) : z[i] \in Seq(Int)
    BY <2>2, <2>3, GlobalSigIsSeq
  <2> HIDE DEF z
  <2>5. Listed(z) \in Seq(Int) BY <2>2, <2>4, ListedIsSeq
  <2> QED BY <2>5 DEF z
<1>14. a3 \in Seq(Int) /\ b3 \in Seq(Int) BY <1>0, <1>13
<1>15. a2 = b2
  <2> HIDE DEF a1, a2, a3, b1, b2, b3
  <2>1. Read(a1 \o a2, b1 \o b2) /\ (a1 \o a2 = b1 \o b2 => a1 = b1 /\ a2 = b2)
    BY <1>5, <1>12, ReadSeqs, JoinRead
  <2> DEFINE c == a1 \o a2
             d == b1 \o b2
  <2>2. c \in Seq(Int) /\ d \in Seq(Int) /\ Splits(c, d) BY <2>1 DEF Read, Seqs
  <2>3. c \o a3 = d \o b3 BY <1>4
  <2> HIDE DEF c, d
  <2>4. c = d BY <2>2, <2>3, <1>14, SplitsCut
  <2> QED BY <2>1, <2>4 DEF c, d
<1>16. u = v /\ \A i \in 1..u : p[i] = q[i]
  <2> HIDE DEF a2, b2
  <2> QED BY <1>12, <1>15
<1>17. \A i \in 1..u : SigFunction(m, m.funcs[i]) = SigFunction(n, n.funcs[i]) BY <1>8, <1>16
<1>18. \A i \in 1..u : SameFunc(m, m.funcs[i], n, n.funcs[i])
  BY <1>0, <1>7, <1>16, <1>17, FuncReads
<1> QED BY <1>6, <1>16, <1>17, <1>18

(* Such modules declare their callees alike.                               *)
LEMMA CalleesSame ==
    ASSUME NEW m, NEW n, NEW name,
           Len(m.funcs) = Len(n.funcs), DOMAIN m.funcs = 1..Len(m.funcs), DOMAIN n.funcs = 1..Len(n.funcs),
           \A i \in 1..Len(m.funcs) : /\ SameFunc(m, m.funcs[i], n, n.funcs[i])
                                      /\ m.funcs[i].abi = n.funcs[i].abi
    PROVE  CalleeOf(m, name) = CalleeOf(n, name)
<1> DEFINE D(g) == [va |-> g.va, decl |-> g.decl, abi |-> g.abi, params |-> g.params, ret |-> g.ret]
<1>1. CalleeOf(m, name) = {D(m.funcs[i]) : i \in {k \in 1..Len(m.funcs) : m.funcs[k].name = name}}
  BY DEF CalleeOf, Range
<1>2. CalleeOf(n, name) = {D(n.funcs[i]) : i \in {k \in 1..Len(m.funcs) : n.funcs[k].name = name}}
  BY DEF CalleeOf, Range
<1>3. \A i \in 1..Len(m.funcs) : D(m.funcs[i]) = D(n.funcs[i]) /\ m.funcs[i].name = n.funcs[i].name
  BY DEF SameFunc
<1> HIDE DEF D
<1> QED BY <1>1, <1>2, <1>3

(* Instructions that read the same compile to the same cells.              *)
LEMMA InstCompilesSame ==
    ASSUME NEW t, NEW m, NEW n, NEW x, NEW y, SameInst(m, x, n, y),
           \A name : CalleeOf(m, name) = CalleeOf(n, name)
    PROVE  CompileInst(t, m, x) = CompileInst(t, n, y)
<1>1. Mentioned(m, x) = Mentioned(n, y)
  <2>1. \A i \in DOMAIN x.o : (IF x.o[i].k = GLOBAL THEN <<SymbolNames(m)[x.o[i].n]>> ELSE <<>>)
                            = (IF y.o[i].k = GLOBAL THEN <<SymbolNames(n)[y.o[i].n]>> ELSE <<>>)
    BY DEF SameInst
  <2>2. x.o = y.o BY DEF SameInst
  <2>3. [i \in DOMAIN x.o |-> IF x.o[i].k = GLOBAL THEN <<SymbolNames(m)[x.o[i].n]>> ELSE <<>>]
        = [i \in DOMAIN y.o |-> IF y.o[i].k = GLOBAL THEN <<SymbolNames(n)[y.o[i].n]>> ELSE <<>>]
    BY <2>1, <2>2
  <2> QED BY <2>3 DEF Mentioned
<1>2. UNION {CalleeOf(m, z) : z \in Range(Mentioned(m, x))} =
          UNION {CalleeOf(n, z) : z \in Range(Mentioned(n, y))}
  BY <1>1
<1>3. (IF x.idx = <<>> THEN x.p ELSE 0) = (IF y.idx = <<>> THEN y.p ELSE 0) BY DEF SameInst
<1>4. Encode(t, m, x) = Encode(t, n, y)
  <2>1. [i \in DOMAIN x.o |-> [x.o[i] EXCEPT !.n = IF x.o[i].k = GLOBAL THEN 0 ELSE x.o[i].n]]
        = [i \in DOMAIN y.o |-> [y.o[i] EXCEPT !.n = IF y.o[i].k = GLOBAL THEN 0 ELSE y.o[i].n]]
    BY DEF SameInst
  <2>2. /\ x.op = y.op /\ x.t = y.t /\ x.d = y.d /\ x.idx = y.idx /\ x.align = y.align
        /\ x.ext = y.ext /\ x.va = y.va /\ x.fixed = y.fixed
    BY DEF SameInst
  <2> QED BY <2>1, <2>2, <1>2, <1>3, Zenon DEF Encode
<1> QED BY <1>1, <1>4, Zenon DEF CompileInst

(* So do blocks.                                                           *)
LEMMA BlockCompilesSame ==
    ASSUME NEW t, NEW m, NEW n, NEW b, NEW c, SameBlock(m, b, n, c),
           \A name : CalleeOf(m, name) = CalleeOf(n, name)
    PROVE  CompileBlock(t, m, b) = CompileBlock(t, n, c)
<1>1. /\ DOMAIN b.insts = DOMAIN c.insts
      /\ \A i \in DOMAIN b.insts : SameInst(m, b.insts[i], n, c.insts[i])
  BY DEF SameBlock
<1>2. \A i \in DOMAIN b.insts : CompileInst(t, m, b.insts[i]) = CompileInst(t, n, c.insts[i])
  BY <1>1, InstCompilesSame
<1>3. [i \in DOMAIN b.insts |-> CompileInst(t, m, b.insts[i])] =
          [i \in DOMAIN c.insts |-> CompileInst(t, n, c.insts[i])]
  BY <1>1, <1>2
<1> QED BY <1>3 DEF CompileBlock

(* When there is one vector type and functions of equal signatures follow  *)
(* one calling convention, the signatures of a module and of a function of *)
(* it (jit.c 353-752) determine the code that every target makes of the    *)
(* function: an equal key of the cache is equal code.                      *)
THEOREM SignatureFixesCode ==
    ASSUME VectorsAlike, AbisAlike,
           NEW m \in AllModules, NEW n \in AllModules, NEW f \in Range(m.funcs), NEW g \in Range(n.funcs),
           SigModule(m) = SigModule(n), SigFunction(m, f) = SigFunction(n, g), NEW t
    PROVE  Compile(t, m, f) = Compile(t, n, g)
<1>1. GoodModule(m) /\ GoodModule(n) BY ModulesAreGood
<1>2. \A name : CalleeOf(m, name) = CalleeOf(n, name)
  <2>1. /\ Len(m.funcs) = Len(n.funcs) /\ DOMAIN m.funcs = 1..Len(m.funcs) /\ DOMAIN n.funcs = 1..Len(n.funcs)
        /\ \A i \in 1..Len(m.funcs) : /\ SigFunction(m, m.funcs[i]) = SigFunction(n, n.funcs[i])
                                      /\ SameFunc(m, m.funcs[i], n, n.funcs[i])
    BY <1>1, ModuleReads
  <2>2. \A i \in 1..Len(m.funcs) : m.funcs[i] \in Range(m.funcs) /\ n.funcs[i] \in Range(n.funcs)
    BY <2>1 DEF Range
  <2>3. \A i \in 1..Len(m.funcs) : m.funcs[i].abi = n.funcs[i].abi BY <2>1, <2>2 DEF AbisAlike
  <2> QED BY <2>1, <2>3, CalleesSame
<1>3. GoodFunc(m, f) /\ GoodFunc(n, g) /\ m \in ModuleDefs /\ n \in ModuleDefs
  BY <1>1 DEF GoodModule, Range
<1>4. SameFunc(m, f, n, g) BY <1>3, FuncReads
<1>5. /\ DOMAIN f.blocks = DOMAIN g.blocks
      /\ \A i \in DOMAIN f.blocks : SameBlock(m, f.blocks[i], n, g.blocks[i])
  BY <1>4 DEF SameFunc
<1>6. PICK c : c = FuncMeta(t, f) OBVIOUS
<1>7. c = FuncMeta(t, g)
  <2>1. f.abi = g.abi BY DEF AbisAlike
  <2> QED BY <2>1, <1>4, <1>6 DEF FuncMeta, SameFunc
<1>8. \A i \in DOMAIN f.blocks : CompileBlock(c, m, f.blocks[i]) = CompileBlock(c, n, g.blocks[i])
  BY <1>2, <1>5, BlockCompilesSame
<1>9. [i \in DOMAIN f.blocks |-> CompileBlock(FuncMeta(t, f), m, f.blocks[i])] =
          [i \in DOMAIN g.blocks |-> CompileBlock(FuncMeta(t, g), n, g.blocks[i])]
  BY <1>5, <1>6, <1>7, <1>8
<1> QED BY <1>9, Zenon DEF Compile
===========================================================================
