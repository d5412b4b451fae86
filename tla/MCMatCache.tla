------------------------------- MODULE MCMatCache -------------------------------
(***************************************************************************)
(* A module with a root that calls a helper of its own and an imported     *)
(* function and reads a global, and modules that differ from it in one     *)
(* detail each, some in one that moves a boundary between two fields.      *)
(***************************************************************************)
EXTENDS MatCache

MCJits == {1, 2}

T(k) == [k |-> k, n |-> 0, name |-> <<>>, s |-> <<>>]
Struct(packed, name, s) == [k |-> STRUCT, n |-> packed, name |-> name, s |-> s]

a == <<1>>
b == <<2>>
g == <<7>>
puts == <<9>>

Vector(n) == [k |-> VECTOR, n |-> n, name |-> <<>>, s |-> <<T(I32)>>]
FnType(params, va) == [k |-> FUNC, n |-> va, name |-> <<>>, s |-> <<T(I32)>> \o params]

MCTypeTable ==
    <<T(VOID), T(I32), T(PTR), Struct(0, a, <<T(I32)>>), Struct(1, a, <<T(I32)>>),
      [k |-> ARRAY, n |-> 3, name |-> <<>>, s |-> <<T(I32)>>],
      FnType(<<>>, 0), FnType(<<T(PTR)>>, 0), FnType(<<T(I32)>>, 0), FnType(<<T(PTR)>>, 1), Vector(2)>>

Opd(k, n, off) == [k |-> k, t |-> T(PTR), off |-> off, n |-> n]
In(op, d, o) == [op |-> op, t |-> T(I32), d |-> d, o |-> o, idx |-> <<>>, align |-> 4, ext |-> FALSE,
                 va |-> FALSE, fixed |-> 0, p |-> 0]
Fn(name, decl, params, insts) ==
    [name |-> name, decl |-> decl, va |-> FALSE, abi |-> TRUE, params |-> params, next |-> 5, ret |-> T(I32),
     type |-> FnType(params, 0),
     blocks |-> IF decl THEN <<>> ELSE <<[id |-> 0, name |-> <<3>>, insts |-> insts]>>]

(* root: call a, load from g, call puts.  a returns a constant.            *)
Base(at) ==
    [at |-> at, syms |-> <<a, g, puts>>,
     funcs |-> <<Fn(b, FALSE, <<>>, <<In(1, 1, <<Opd(GLOBAL, 1, 0)>>), In(2, 2, <<Opd(GLOBAL, 2, 0)>>),
                                       In(1, 3, <<Opd(GLOBAL, 3, 0), Opd(VREG, 2, 0)>>), In(3, 0, <<Opd(VREG, 1, 0)>>)>>),
                 Fn(a, FALSE, <<>>, <<In(3, 0, <<Opd(IMM, 5, 0)>>)>>),
                 Fn(puts, TRUE, <<T(PTR)>>, <<>>)>>,
     globals |-> <<[name |-> g, t |-> T(I32), const |-> FALSE, external |-> FALSE, id |-> 1,
                    init |-> <<4>>, relocs |-> <<>>]>>]

Inst(m, i) == m.funcs[1].blocks[1].insts[i]
With(m, i, inst) == [m EXCEPT !.funcs[1].blocks[1].insts[i] = inst]

(* uses_llvm_abi is set for LLVM text and not for a session, whose blocks  *)
(* have other names.                                                       *)
NoAbi(m) == [m EXCEPT !.funcs = [i \in DOMAIN m.funcs |-> [m.funcs[i] EXCEPT !.abi = FALSE]]]

Variants ==
    LET m == Base(1)
    IN  {m, Base(2),
         With(m, 2, [Inst(m, 2) EXCEPT !.o[1].off = 8]),
         With(m, 2, [Inst(m, 2) EXCEPT !.t = Struct(0, a, <<T(I32)>>)]),
         With(m, 2, [Inst(m, 2) EXCEPT !.t = Struct(1, a, <<T(I32)>>)]),
         With(m, 1, [Inst(m, 1) EXCEPT !.va = TRUE]),
         With(m, 2, [Inst(m, 2) EXCEPT !.align = 1]),
         With(m, 2, [Inst(m, 2) EXCEPT !.idx = <<1>>]),
         With([m EXCEPT !.at = 2], 2, [Inst(m, 2) EXCEPT !.idx = <<1>>]),
         With(m, 3, [Inst(m, 3) EXCEPT !.o[1].n = 1]),
         With(m, 2, [Inst(m, 2) EXCEPT !.t = MCTypeTable[6]]),
         [m EXCEPT !.funcs[3].va = TRUE, !.funcs[3].type = FnType(<<T(PTR)>>, 1)],
         [m EXCEPT !.funcs[3].params = <<T(I32)>>, !.funcs[3].type = FnType(<<T(I32)>>, 0)],
         With(m, 2, [Inst(m, 2) EXCEPT !.t = Vector(2)]),
         With(m, 3, [Inst(m, 3) EXCEPT !.o[2] = Opd(UNDEF, 0, 0)]),
         [m EXCEPT !.funcs[2].blocks[1].insts[1].o[1].n = 6],
         [m EXCEPT !.funcs[1].next = 6],
         NoAbi([m EXCEPT !.funcs[1].blocks[1].name = <<4>>]),
         [m EXCEPT !.funcs[3].abi = FALSE, !.funcs[3].ret = T(VOID)],
         [m EXCEPT !.globals[1].init = <<4, 4>>]}

(* Modules in which a boundary moves: a longer name before a shorter list. *)
Boundary ==
    {[at |-> at, syms |-> <<>>,
      funcs |-> <<[Fn(b, FALSE, <<>>, insts) EXCEPT !.blocks[1].name = name, !.abi = (name # <<>>)]>>,
      globals |-> <<>>]
       : at \in {3, 4}, name \in {<<>>, <<3>>, <<3, 1>>},
         insts \in {<<In(3, 0, <<>>)>>, <<In(3, 0, <<Opd(IMM, 3, 0)>>)>>,
                    <<In(4, 1, <<>>), In(3, 0, <<>>)>>}}

MCModulesOf == <<{Base(1)} \cup {m \in Boundary : m.at = 3 /\ m.funcs[1].blocks[1].name = <<3>>},
                 Variants \cup {m \in Boundary : m.at = 4}>>

(* Two vector types, and two modules that differ in which one a function   *)
(* uses.                                                                   *)
VectorTypeTable == Append(MCTypeTable, Vector(4))
VectorModulesOf ==
    [j \in MCJits |-> {With(Base(j), 2, [Inst(Base(j), 2) EXCEPT !.t = Vector(2 * j)])}]

(* The same module as text and as a session built it.                      *)
AbiModulesOf == <<{Base(1)}, {NoAbi(Base(2))}>>
================================================================================
