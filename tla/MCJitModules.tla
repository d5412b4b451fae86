---------------------------- MODULE MCJitModules ----------------------------
(* Small programs for JitModules: mutual recursion with an external call, a *)
(* redefinition, a table of functions and a name in both spellings.         *)
EXTENDS JitModules, TLC

CONSTANTS f, h, t, u, y, x, m1, m2, m3

Fn(n, calls) == [name |-> n, calls |-> calls]

\* m1: f calls h, then the external x; h calls f.
\* m2: redefines h, which now calls x; with u and y all do not fit when eager.
\* m3: _t calls t, which is itself, and f; its global refers to t and to h.
MCModFuncs ==
    m1 :> <<Fn(Plain(f), <<Plain(h), Plain(x)>>), Fn(Plain(h), <<Plain(f)>>)>> @@
    m2 :> <<Fn(Plain(h), <<Plain(x)>>), Fn(Plain(u), <<>>), Fn(Plain(y), <<>>)>> @@
    m3 :> <<Fn(<<t, TRUE>>, <<Plain(t), Plain(f)>>)>>

MCModDecls == m1 :> <<Plain(x)>> @@ m2 :> <<Plain(x)>> @@ m3 :> <<Plain(t), Plain(f)>>
MCModRefs == m1 :> <<>> @@ m2 :> <<>> @@ m3 :> <<Plain(t), Plain(h)>>

MCUser == {Plain(x)}
MCLib == {Plain(x)}
MCGet == {Plain(f), Plain(h), <<t, TRUE>>}
=============================================================================
