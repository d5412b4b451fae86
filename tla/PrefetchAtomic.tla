--------------------------- MODULE PrefetchAtomic ---------------------------
(***************************************************************************)
(* What materialize_prefetch_module_functions (src/src/jit.c) promises its *)
(* caller: the tasks are compiled as if in one step, every task exactly    *)
(* once, and the results that compiled enter the materialization cache     *)
(* once each, in an order it leaves open.  Threads are not visible.        *)
(***************************************************************************)
EXTENDS Integers, Sequences

CONSTANTS Funcs,        \* the functions of the module
          Unsupported   \* functions the backend rejects

VARIABLES phase,   \* "gather", "compiled", "done"
          tasks,   \* the functions to compile, trigger first
          out,     \* result of each task, once phase is "compiled"
          stored   \* functions put in the cache so far

avars == <<phase, tasks, out, stored>>

AInit == phase = "gather" /\ Len(tasks) = 1 /\ out = <<>> /\ stored = <<>>

\* One more function to compile, that is not a task already.
Gather(f) ==
    /\ phase = "gather"
    /\ \A k \in DOMAIN tasks : tasks[k] # f
    /\ tasks' = Append(tasks, f)
    /\ UNCHANGED <<phase, out, stored>>

\* Allowed results: a supported function compiles unless memory runs out.
Results ==
    {r \in [DOMAIN tasks -> {"ok", "fail"}] :
        \A i \in DOMAIN tasks : tasks[i] \in Unsupported => r[i] = "fail"}

\* All tasks are compiled.
CompileAll ==
    /\ phase = "gather"
    /\ phase' = "compiled"
    /\ out' \in Results
    /\ UNCHANGED <<tasks, stored>>

\* The functions that compiled, the trigger not counted.
Compiled == {tasks[k] : k \in {i \in DOMAIN tasks : i > 1 /\ out[i] = "ok"}}

InCache == {stored[k] : k \in DOMAIN stored}

\* One more of them enters the cache.
Store(f) ==
    /\ phase = "compiled"
    /\ f \in Compiled \ InCache
    /\ stored' = Append(stored, f)
    /\ UNCHANGED <<phase, tasks, out>>

\* The call returns when everything that compiled is stored, or it gave up
\* before it compiled anything.
Return ==
    /\ \/ phase = "gather"
       \/ phase = "compiled" /\ InCache = Compiled
    /\ phase' = "done"
    /\ UNCHANGED <<tasks, out, stored>>

ANext ==
    \/ \E f \in Funcs : Gather(f)
    \/ CompileAll
    \/ \E f \in Funcs : Store(f)
    \/ Return

ASpec == AInit /\ [][ANext]_avars
=============================================================================
