------------------------------- MODULE WasmInputs -------------------------------
(* Small files: loops, conditionals with and without results, branches     *)
(* out of nests, calls, memory, 64-bit words, and bodies at the limits.    *)
(* A file is its tables, with the bodies as trees of instructions, and     *)
(* whether its numbers are written as long as they may be.                 *)
EXTENDS Integers, Sequences

Instr(op, n, t, a, b) == [op |-> op, n |-> n, t |-> t, a |-> a, b |-> b]
Op(o) == Instr(o, 0, 64, <<>>, <<>>)
OpN(o, n) == Instr(o, n, 64, <<>>, <<>>)
Blk(t, a) == Instr(2, 0, t, a, <<>>)
Loop(a) == Instr(3, 0, 64, a, <<>>)
If(t, a, b) == Instr(4, 0, t, a, b)
Get(i) == OpN(32, i)
Set(i) == OpN(33, i)
Tee(i) == OpN(34, i)
C32(n) == OpN(65, n)
C64(n) == OpN(66, n)
BrTo(n) == OpN(12, n)
BrIf(n) == OpN(13, n)
Call(n) == OpN(16, n)
Ret == Op(15)

Type(ps, rs) == [params |-> ps, results |-> rs]
i == 127
l == 126
Group(n, t) == [count |-> n, type |-> t]
Func(groups, body) == [groups |-> groups, body |-> body]
Import(n, t) == [name |-> n, kind |-> 0, type |-> t]
Export(n, k) == [name |-> n, kind |-> 0, index |-> k]

Types == << Type(<<i, i>>, <<i>>), Type(<<i>>, <<>>), Type(<<i, l>>, <<l>>), Type(<<>>, <<i>>), Type(<<i>>, <<i>>) >>
Tables == [types |-> Types, imports |-> <<>>, funcs |-> <<>>, memories |-> <<>>,
           globals |-> <<>>, exports |-> <<>>, codes |-> <<>>, data |-> <<>>]

(* Loops: count a local down to zero, leave from the middle.               *)
Countdown == Func(<< Group(2, i) >>,
    << C32(3), Set(2), Blk(64, << Loop(<<
         Get(2), Op(69), BrIf(1),
         Get(3), Get(0), Op(106), Set(3),
         Get(2), C32(1), Op(107), Tee(2), Call(0),
         Get(3), Get(1), Op(76), BrIf(0) >>), Get(2), Call(0) >>), Get(3) >>)
(* Results of blocks and of conditionals, nested.                          *)
Results == Func(<< >>,
    << Get(0), Get(1), Op(72),
       If(i, << Get(0), C32(-100), Op(107) >>,
             << Get(1), If(i, << C32(5) >>, << Get(0), C32(300), Op(108) >>) >>),
       Blk(i, << Get(1), C32(7), Get(0), Op(27) >>),
       Op(109) >>)
(* An if without else, an early return, a branch out of an if, a trap.     *)
Leaves == Func(<< >>,
    << Get(0), If(64, << Get(1), If(64, << Get(1), Ret >>, <<>>), Get(0), Call(0), BrTo(0) >>, <<>>),
       Get(1), C32(1), Op(70), If(64, << Op(0) >>, << Op(1) >>),
       Get(0), Get(1), Op(71) >>)
(* Branches across several blocks with values below them on the stack.     *)
Across == Func(<< Group(1, i) >>,
    << C32(40), Blk(64, << Get(0), Blk(64, << Get(1), BrIf(1), C32(9), Set(2) >>), Op(26) >>),
       Get(2), Op(106) >>)
(* 64 bits, conversions, locals of two groups, memory.                     *)
Words == Func(<< Group(1, l), Group(1, i) >>,
    << Get(0), Op(172), Get(1), Op(124), Tee(2), Get(0), Op(173), Op(125), C64(-70), Op(126), Set(2),
       Get(0), Get(2), OpN(55, 200), Get(0), OpN(41, 0), Get(2), Op(83), Set(3),
       C32(4), Get(3), OpN(54, 0), Get(2), Op(167), OpN(40, 8), Op(172), Get(2), Op(134) >>)
Constant == Func(<< >>, << Blk(i, << C32(1000000) >>) >>)
Square == Func(<< >>, << Get(0), Get(0), C32(6), Call(1), Op(108) >>)

GlobalImport == [name |-> <<103>>, kind |-> 3, type |-> 0]
MemoryImport == [name |-> <<109>>, kind |-> 2, type |-> 0]
Rich(pad) ==
    [w |-> [Tables EXCEPT
        !.imports = << Import(<<112>>, 1), Import(<<113, 113>>, 4), GlobalImport, MemoryImport >>,
        !.funcs = << 0, 0, 0, 4 >>, !.memories = << <<1>>, <<1, 300>> >>,
        !.globals = << [type |-> i, mutable |-> TRUE, init |-> -129], [type |-> l, mutable |-> FALSE, init |-> 64] >>,
        !.exports = << [name |-> <<103>>, kind |-> 2, index |-> 0], Export(<<120>>, 4), Export(<<121, 122>>, 2) >>,
        !.codes = << Countdown, Results, Leaves, Square >>,
        !.data = << [mem |-> 0, offset |-> 16, bytes |-> <<1, 2, 3>>], [mem |-> 1, offset |-> -1, bytes |-> <<>>] >>],
     pad |-> pad]
Plain(pad) ==
    [w |-> [Tables EXCEPT !.funcs = << 2, 3, 0 >>, !.exports = << Export(<<97>>, 0), Export(<<98>>, 0) >>,
        !.codes = << Words, Constant, Across >>],
     pad |-> pad]

RECURSIVE Nest(_, _)
Nest(n, inner) == IF n = 0 THEN inner ELSE << Blk(64, Nest(n - 1, inner)) >>
RECURSIVE Sum(_)
Sum(n) == IF n = 1 THEN << C32(1) >> ELSE << C32(n) >> \o Sum(n - 1) \o << Op(106) >>
Limit(body) == [w |-> [Tables EXCEPT !.funcs = << 3 >>, !.codes = << Func(<< >>, body) >>], pad |-> FALSE]

(* All ways to put three of these into a block of a block, a loop, a       *)
(* conditional: calls, assignments, branches that do and may leave.        *)
Statements ==
    { << Get(0), Call(0) >>, << Get(1), C32(1), Op(107), Tee(1), BrIf(0) >>,
      << Get(0), BrIf(1) >>, << BrTo(0) >>, << BrTo(1) >>, << Get(1), Ret >> }
Shapes(a, b) == { Blk(64, a \o b), Loop(a \o b), If(64, a, b), If(64, a \o b, <<>>) }
Enumerated ==
    { [w |-> [Tables EXCEPT !.imports = << Import(<<112>>, 1) >>, !.funcs = << 0 >>,
              !.codes = << Func(<< >>, << Blk(64, (IF sh.op = 4 THEN << Get(0) >> ELSE <<>>) \o << sh >> \o d),
                                          Get(0), Get(1), Op(107) >>) >>],
       pad |-> FALSE] : sh \in UNION {Shapes(a, b) : a, b \in Statements}, d \in Statements \ { << Get(0), BrIf(1) >>, << BrTo(1) >> } }

(* Types that are not there.                                               *)
Unknown == { [w |-> [Tables EXCEPT !.imports = << Import(<<112>>, n) >>, !.funcs = << k >>, !.codes = << Constant >>],
              pad |-> FALSE] : <<n, k>> \in {<<5, 3>>, <<1, 5>>} }

(* Functions are imported before anything else.                            *)
GoodFiles == Enumerated \cup Unknown \cup {Rich(p) : p \in BOOLEAN} \cup {Plain(p) : p \in BOOLEAN}
           \cup {Limit(Nest(n, << Op(1) >>) \o << C32(2) >>) : n \in 3..5}
           \cup {Limit(Sum(n)) : n \in {8, 9}}
(* Names the session knows: other ones, and some of the file's.            *)
KnownNames == { << <<200>>, <<121, 122>> >>, << <<256, 0>>, <<120>>, <<1>> >> }
TwoArguments == {<<a, b>> : a \in {0, 1, -3}, b \in {0, 1, 3}}

(* A global is imported before the function that is called.                *)
Mixed == Func(<< >>, << Get(0), Get(1), Call(0) >>)
MixedFiles ==
    { [w |-> [Tables EXCEPT !.imports = imports, !.funcs = << 0 >>, !.codes = << Mixed >>], pad |-> FALSE] :
      imports \in { << GlobalImport, Import(<<112>>, 1) >>, << Import(<<112>>, 1), GlobalImport >> } }
=================================================================================
