------------------------------ MODULE Prefetch ------------------------------
(***************************************************************************)
(* The parallel prefetch of lazy materialization, src/src/jit.c:           *)
(* materialize_prefetch_module_functions collects the functions reachable  *)
(* from the one being materialized, splits them among worker threads that  *)
(* compile into private buffers, joins the threads, and puts the results   *)
(* in the materialization cache.                                           *)
(*                                                                         *)
(* The caller and every worker are processes.  A worker clears a task's    *)
(* result first and fills it in when the function is compiled, so that a   *)
(* task touched by two workers, or read before it is finished, is visible. *)
(***************************************************************************)
EXTENDS Integers, Sequences, FiniteSets

CONSTANTS Funcs,        \* functions of the module
          CallGraph,    \* function -> sequence of the functions it calls
          Trigger,      \* the function being materialized
          Pending,      \* functions whose lazy entry is PENDING
          Cached,       \* functions already in the cache
          Unsupported,  \* functions the backend rejects
          Requested,    \* LIRIC_JIT_MAT_THREADS
          MinPending,   \* MATERIALIZE_PREFETCH_MIN_PENDING
          MaxThreads    \* MATERIALIZE_PREFETCH_MAX_THREADS

ASSUME PrefetchAssumption ==
    /\ Trigger \in Funcs /\ Pending \subseteq Funcs /\ Cached \subseteq Funcs
    /\ CallGraph \in [Funcs -> Seq(Funcs)]
    /\ Requested \in Nat /\ MinPending \in Nat \ {0, 1} /\ MaxThreads \in Nat \ {0}

VARIABLES
    pc,       \* the caller: "collect", "start", "inline", "join", "store", "done"
    tasks,    \* functions to compile, the trigger first
    scan,     \* task whose calls are being collected
    call,     \* next call of that task
    out,      \* result of each task: "new", "busy", "ok", "fail"
    wi,       \* loop variable of the start, join and store loops
    worker,   \* 0 .. MaxThreads - 1 -> [st, i, end, on], on while task i is compiled
    stored,   \* functions put in the cache by this call
    have,     \* have_trigger
    writers   \* history: task -> workers that wrote its result

vars == <<pc, tasks, scan, call, out, wi, worker, stored, have, writers>>

Workers == 0 .. MaxThreads - 1

\* Trigger and the other functions with a body.
TaskCap == Cardinality(Funcs)

SmallestOf(a, b) == IF a <= b THEN a ELSE b

\* materialize_prefetch_thread_count
ThreadCount(pending) ==
    IF pending < MinPending \/ Requested <= 1 THEN 1
    ELSE SmallestOf(Requested, SmallestOf(MaxThreads, pending))

NThreads == ThreadCount(Len(tasks))

\* Mutant: the chunk size is rounded down.
MutChunk == Len(tasks) \div NThreads

Chunk == (Len(tasks) + NThreads - 1) \div NThreads

\* Tasks are numbered from 0 in the code; worker w has [Begin(w), End(w)).
Begin(w) == w * Chunk

End(w) == SmallestOf(Begin(w) + Chunk, Len(tasks))

Init ==
    /\ pc = "collect" /\ tasks = <<Trigger>> /\ scan = 1 /\ call = 1
    /\ out = <<>> /\ wi = 0
    /\ worker = [w \in Workers |-> [st |-> "none", i |-> 0, end |-> 0, on |-> FALSE]]
    /\ stored = <<>> /\ have = FALSE /\ writers = <<>>

-----------------------------------------------------------------------------
(***************************************************************************)
(* Collecting the call graph                                               *)
(***************************************************************************)
More == pc = "collect" /\ scan <= Len(tasks) /\ Len(tasks) < TaskCap
InTasks(f) == \E k \in DOMAIN tasks : tasks[k] = f

\* materialize_prefetch_maybe_add_target
Wanted(f) == f \in Pending /\ f \notin Cached /\ ~InTasks(f)

\* The next call of the task being scanned.
CollectCall ==
    /\ More /\ call <= Len(CallGraph[tasks[scan]])
    /\ LET f == CallGraph[tasks[scan]][call]
       IN  tasks' = IF Wanted(f) THEN Append(tasks, f) ELSE tasks
    /\ call' = call + 1
    /\ UNCHANGED <<pc, scan, out, wi, worker, stored, have, writers>>

\* The next task.
CollectNext ==
    /\ More /\ call > Len(CallGraph[tasks[scan]])
    /\ scan' = scan + 1 /\ call' = 1
    /\ UNCHANGED <<pc, tasks, out, wi, worker, stored, have, writers>>

\* Too little to do, one thread, or finalisation failed: no prefetch.
GiveUp ==
    /\ pc = "collect" /\ ~More
    /\ pc' = "done"
    /\ UNCHANGED <<tasks, scan, call, out, wi, worker, stored, have, writers>>

\* The targets are finalised on the caller's thread; calloc leaves every task
\* with rc = 0 and no code.
StartThreads ==
    /\ pc = "collect" /\ ~More
    /\ Len(tasks) >= MinPending /\ NThreads > 1
    /\ pc' = "start" /\ wi' = 0
    /\ out' = [k \in DOMAIN tasks |-> "new"]
    /\ writers' = [k \in DOMAIN tasks |-> {}]
    /\ UNCHANGED <<tasks, scan, call, worker, stored, have>>

-----------------------------------------------------------------------------
(***************************************************************************)
(* Starting, running and joining the workers                               *)
(***************************************************************************)
Starting == pc = "start" /\ wi < NThreads /\ Begin(wi) < Len(tasks)

\* The range given to worker wi.
Assigned(st) == [st |-> st, i |-> Begin(wi), end |-> End(wi), on |-> FALSE]

\* pthread_create succeeds.
CreateWorker ==
    /\ Starting
    /\ worker' = [worker EXCEPT ![wi] = Assigned("thread")]
    /\ wi' = wi + 1
    /\ UNCHANGED <<pc, tasks, scan, call, out, stored, have, writers>>

\* pthread_create fails: the caller runs the worker's loop itself.
RunInline ==
    /\ Starting
    /\ worker' = [worker EXCEPT ![wi] = Assigned("inline")]
    /\ pc' = "inline"
    /\ UNCHANGED <<tasks, scan, call, out, wi, stored, have, writers>>

InlineDone ==
    /\ pc = "inline" /\ worker[wi].i = worker[wi].end
    /\ worker' = [worker EXCEPT ![wi].st = "exited"]
    /\ pc' = "start" /\ wi' = wi + 1
    /\ UNCHANGED <<tasks, scan, call, out, stored, have, writers>>

StartDone ==
    /\ pc = "start" /\ ~Starting
    /\ pc' = "join" /\ wi' = 0
    /\ UNCHANGED <<tasks, scan, call, out, worker, stored, have, writers>>

\* The worker clears the next task of its range.
BeginTask(w) ==
    /\ worker[w].st \in {"thread", "inline"} /\ worker[w].i < worker[w].end
    /\ ~worker[w].on
    /\ LET k == worker[w].i + 1
       IN  /\ out' = [out EXCEPT ![k] = "busy"]
           /\ writers' = [writers EXCEPT ![k] = @ \cup {w}]
    /\ worker' = [worker EXCEPT ![w].on = TRUE]
    /\ UNCHANGED <<pc, tasks, scan, call, wi, stored, have>>

\* Mutant: a task that failed is tried again.
MutEndTaskRetries(w, r) ==
    /\ worker[w].on
    /\ LET k == worker[w].i + 1
       IN  /\ tasks[k] \in Unsupported => r = "fail"
           /\ out' = [out EXCEPT ![k] = r]
    /\ worker' = [worker EXCEPT ![w].i = IF r = "ok" THEN @ + 1 ELSE @, ![w].on = FALSE]
    /\ UNCHANGED <<pc, tasks, scan, call, wi, stored, have, writers>>

\* It compiles it; a failed allocation is possible for every function.
EndTask(w, r) ==
    /\ worker[w].on
    /\ LET k == worker[w].i + 1
       IN  /\ tasks[k] \in Unsupported => r = "fail"
           /\ out' = [out EXCEPT ![k] = r]
    /\ worker' = [worker EXCEPT ![w].i = @ + 1, ![w].on = FALSE]
    /\ UNCHANGED <<pc, tasks, scan, call, wi, stored, have, writers>>

\* The thread function returns.
ExitThread(w) ==
    /\ worker[w].st = "thread" /\ worker[w].i = worker[w].end
    /\ worker' = [worker EXCEPT ![w].st = "exited"]
    /\ UNCHANGED <<pc, tasks, scan, call, out, wi, stored, have, writers>>

\* Mutant: only the last thread started is waited for.
MutJoin ==
    /\ pc = "join"
    /\ wi < NThreads - 1 \/ worker[wi].st \in {"none", "exited"}
    /\ IF wi + 1 < NThreads
       THEN wi' = wi + 1 /\ UNCHANGED <<pc, have>>
       ELSE /\ pc' = "store" /\ wi' = 1
            /\ have' = (out[1] = "ok")
    /\ UNCHANGED <<tasks, scan, call, out, worker, stored, writers>>

\* pthread_join of every started thread, then the trigger's own result is taken.
Join ==
    /\ pc = "join"
    /\ worker[wi].st \in {"none", "exited"}
    /\ IF wi + 1 < NThreads
       THEN wi' = wi + 1 /\ UNCHANGED <<pc, have>>
       ELSE /\ pc' = "store" /\ wi' = 1
            /\ have' = (out[1] = "ok")
    /\ UNCHANGED <<tasks, scan, call, out, worker, stored, writers>>

\* materialize_cache_insert of the other tasks that compiled, in task order.
StoreTask ==
    /\ pc = "store" /\ wi < Len(tasks)
    /\ stored' = IF out[wi + 1] = "ok" THEN Append(stored, tasks[wi + 1]) ELSE stored
    /\ wi' = wi + 1
    /\ UNCHANGED <<pc, tasks, scan, call, out, worker, have, writers>>

StoreDone ==
    /\ pc = "store" /\ wi = Len(tasks)
    /\ pc' = "done"
    /\ UNCHANGED <<tasks, scan, call, out, wi, worker, stored, have, writers>>

Caller ==
    \/ CollectCall \/ CollectNext \/ GiveUp \/ StartThreads
    \/ CreateWorker \/ RunInline \/ InlineDone \/ StartDone
    \/ Join \/ StoreTask \/ StoreDone

Worker(w) ==
    \/ BeginTask(w)
    \/ \E r \in {"ok", "fail"} : EndTask(w, r)
    \/ ExitThread(w)

\* The call has returned.
Finished == pc = "done" /\ UNCHANGED vars

Next == Caller \/ (\E w \in Workers : Worker(w)) \/ Finished

\* The scheduler runs the caller and every thread; compiling one function ends.
Fairness == WF_vars(Caller) /\ \A w \in Workers : WF_vars(Worker(w))

Spec == Init /\ [][Next]_vars /\ Fairness
-----------------------------------------------------------------------------
(***************************************************************************)
(* Properties                                                              *)
(***************************************************************************)

\* "Worker threads compile into private" state: no function is a task twice and
\* a task's result is written by one worker only, the caller's inline runs
\* included; once the caller reads the results every task is finished and no
\* worker runs, whatever threads could not be created.
ResultsComplete ==
    /\ \A k, l \in DOMAIN tasks : tasks[k] = tasks[l] => k = l
    /\ \A k \in DOMAIN writers : Cardinality(writers[k]) <= 1
    /\ pc \in {"store", "done"} /\ out # <<>> =>
          /\ \A k \in DOMAIN out : out[k] \in {"ok", "fail"}
          /\ \A w \in Workers : worker[w].st \in {"none", "exited"}

\* The parallel section looks to the caller like one atomic step.
Atomic == INSTANCE PrefetchAtomic WITH
    phase <- CASE pc \in {"collect", "start", "inline", "join"} -> "gather"
               [] pc = "store" -> "compiled"
               [] pc = "done" -> "done",
    out <- IF pc \in {"store", "done"} THEN out ELSE <<>>

\* Prefetch implements PrefetchAtomic.
AtomicSpec == Atomic!ASpec

\* The call returns: threads finish, joins succeed, failures to create a thread
\* do not leave work undone.
Returns == <>(pc = "done")
=============================================================================
