------------------------------- MODULE MCLink -------------------------------
(***************************************************************************)
(* Small links.  Letters: 10.. are names of the program, 20.. of the       *)
(* runtime, 30.. shared names, 40 an intrinsic with a libc name, 42 one    *)
(* with machine code of its own.                                           *)
(***************************************************************************)
EXTENDS Link

CONSTANT Kinds      \* which jobs start: subset of {"link", "own", "import"}

main == <<10>>
start == <<19>>
f == <<11>>
g == <<12>>
h == <<13>>
k == <<14>>
v == <<15>>
s == <<16>>
rt == <<20>>
shared == <<30>>

Sc(n, u) == n \o <<Tag, u>>
Call(n, sig) == [to |-> n, sig |-> sig]
Def(n, sig, id, refs) ==
    [name |-> n, internal |-> FALSE, sig |-> sig, def |-> TRUE, refs |-> refs, id |-> id, init |-> TRUE]
Static(n, sig, id, refs) == [Def(n, sig, id, refs) EXCEPT !.internal = TRUE]
Decl(n, sig) == [Def(n, sig, 0, <<>>) EXCEPT !.def = FALSE]
Var(n, init, relocs, id) ==
    [name |-> n, internal |-> FALSE, ext |-> FALSE, sig |-> NoCall, init |-> init, relocs |-> relocs, id |-> id]
Extern(n) == [Var(n, FALSE, <<>>, 0) EXCEPT !.ext = TRUE]
Hidden(n, id) == [Var(n, TRUE, <<>>, id) EXCEPT !.internal = TRUE]

MCTexts == <<
    [globals |-> <<Extern(v)>>,
     funcs |-> <<Decl(f, 1), Decl(g, 1), Def(main, 1, 101, <<Call(f, 1), Call(v, 0), Call(g, 1), Call(f, 1)>>)>>],
    [globals |-> <<Var(v, TRUE, <<f, Sc(h, 2)>>, 102)>>,
     funcs |-> <<Def(f, 1, 103, <<Call(Sc(h, 2), 2), Call(<<40>>, 3)>>), Def(Sc(h, 2), 2, 104, <<>>), Decl(<<40>>, 3)>>],
    [globals |-> <<Hidden(s, 105), Var(v, FALSE, <<>>, 106)>>,
     funcs |-> <<Static(h, 2, 107, <<>>), Def(g, 1, 108, <<Call(h, 2), Call(s, 0), Call(<<42>>, 3)>>)>>],
    [globals |-> <<>>,
     funcs |-> <<Decl(k, 1), Decl(rt, 1), Def(g, 1, 109, <<Call(k, 1), Call(Sc(h, 4), 2), Call(rt, 1)>>),
                 Def(Sc(h, 4), 2, 110, <<>>), Def(shared, 1, 111, <<>>)>>],
    [globals |-> <<Extern(v)>>,
     funcs |-> <<Decl(f, 1), Def(k, 1, 112, <<Call(f, 1), Call(v, 0), Call(shared, 1)>>), Def(shared, 1, 113, <<>>)>>],
    [globals |-> <<>>, funcs |-> <<Def(rt, 1, 114, <<Call(Sc(h, 6), 2)>>), Def(Sc(h, 6), 2, 115, <<>>)>>],
    \* a function of the program with the name of one of libc's
    [globals |-> <<>>,
     funcs |-> <<Decl(f, 2), Def(main, 1, 116, <<Call(f, 1)>>), Def(g, 1, 117, <<Call(f, 2)>>), Def(f, 1, 118, <<>>)>>],
    \* a program of its own
    [globals |-> <<>>,
     funcs |-> <<Def(start, 1, 119, <<Call(main, 1)>>), Def(main, 1, 120, <<Call(start, 1), Call(<<42>>, 3)>>)>>],
    \* a function of the program with the name of a variable of another signature
    [globals |-> <<[Extern(f) EXCEPT !.sig = 2]>>,
     funcs |-> <<Def(main, 1, 121, <<Call(f, 1)>>), Def(f, 1, 122, <<>>)>>]
>>

\* The functions a direct session captured of a text.
Captured(t) ==
    LET fs == SelectSeq(MCTexts[t].funcs, LAMBDA x : x.def)
    IN  [n \in 1..Len(fs) |->
           [name |-> fs[n].name, code |-> <<fs[n].id>>,
            relocs |-> [r \in 1..Len(fs[n].refs) |->
                          [offset |-> r, type |-> 1, symbol |-> fs[n].refs[r].to]]]]

Direct(t) == [text |-> t, pkg |-> Export(Captured(t))]
IrOnly(t) == [text |-> t, pkg |-> Export(<<>>)]
CUnit(t) == [text |-> t, pkg |-> <<>>]
EmptyUnit == [text |-> NoText, pkg |-> <<>>]

Job(kind) == [kind |-> kind, cpu |-> "x86_64", objects |-> <<>>, members |-> <<>>, rt |-> <<>>, own |-> <<>>, blobs |-> <<>>]

MCTarget == <<70>>
Runtime == {<<>>, WriteArchive(1, MCTarget, <<6>>, Export(Captured(6)))}
BadRuntime == {WriteArchive(2, MCTarget, <<6>>, Export(Captured(6))),
               WriteArchive(1, <<71>>, <<6>>, Export(Captured(6))),
               Front(WriteArchive(1, MCTarget, <<6>>, Export(Captured(6))))}

\* Each text is at most once in a link.
Once(q) == \A a, b \in 1..Len(q) : q[a].text = q[b].text => a = b

Arranged(S, n) == UNION {{q \in [1..m -> S] : Once(q)} : m \in 0..n}

Links ==
    {[Job("link") EXCEPT !.objects = o, !.members = m, !.rt = r] :
        o \in Arranged({Direct(1), IrOnly(1), Direct(2), CUnit(3), EmptyUnit}, 3),
        m \in Arranged({Direct(2), CUnit(3), Direct(4), Direct(5)}, 3), r \in Runtime}

Owns ==
    {[Job("own") EXCEPT !.own = <<MCTexts[t]>>, !.blobs = b, !.rt = r] :
        t \in {2, 4, 7, 9}, b \in {<<>>}, r \in Runtime \cup BadRuntime}
    \cup {[Job("own") EXCEPT !.own = <<MCTexts[t]>>, !.blobs = Captured(t), !.rt = r] :
        t \in {2, 4, 5}, r \in Runtime \cup BadRuntime}
    \* other machines; riscv64 only refers to functions
    \cup {[Job("own") EXCEPT !.cpu = "aarch64", !.own = <<MCTexts[t]>>, !.blobs = b] :
        t \in {3, 6, 7}, b \in {<<>>, Captured(6)}}
    \cup {[Job("own") EXCEPT !.cpu = "riscv64", !.own = <<MCTexts[6]>>, !.blobs = b] :
        b \in {<<>>, Captured(6)}}
    \cup {[Job("own") EXCEPT !.cpu = "riscv64", !.own = <<MCTexts[8]>>, !.blobs = b] :
        b \in {<<>>, Captured(8)}}

Whole == Export(Captured(2))
Damaged ==
    {Whole} \cup {SubSeq(Whole, 1, n) : n \in 0..Len(Whole)}
      \cup {Append(Whole, 1)}
      \cup {[Whole EXCEPT ![n] = c] : n \in 1..Len(Whole), c \in {0, 1, 2, 3, 4, 40}}

\* Zero is not a letter: a name that holds one is no name of this format.
Clean(d) == \A n \in 1..Len(d) : n <= Len(Whole) /\ Whole[n] >= FirstLetter => d[n] # 0

MCInit ==
    /\ \/ "link" \in Kinds /\ \E j \in Links : j.objects # <<>> /\ Once(j.objects \o j.members) /\ StartLink(j)
       \/ "own" \in Kinds /\ \E j \in Owns : StartEmit(j)
       \/ "libc" \in Kinds /\ StartEmit([Job("own") EXCEPT !.own = <<MCTexts[7]>>, !.blobs = Captured(7)])
       \/ /\ "import" \in Kinds
          /\ \E d \in Damaged : Clean(d) /\ StartImport([Job("import") EXCEPT !.blobs = Captured(5)], d)
    /\ InitRest

Spec == MCInit /\ [][Next]_vars

MCLibc == (<<40>> :> <<41>>)
MCExit == <<17>>
MCFflush == <<18>>
MCStubs == {<<42>>}
=============================================================================
