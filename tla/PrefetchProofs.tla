--------------------------- MODULE PrefetchProofs ---------------------------
(***************************************************************************)
(* Proofs for Prefetch: whatever the call graph, the number of threads     *)
(* asked for and the threads that could not be created, the results are    *)
(* complete when the caller reads them, and the parallel section is one    *)
(* atomic step to the caller.                                              *)
(*                                                                         *)
(* ResultsComplete is not inductive: that every task is finished when the  *)
(* joins are over rests on the ranges of the workers, which cover the      *)
(* tasks without overlap, and on what each worker has done of its range.   *)
(***************************************************************************)
EXTENDS Prefetch, FiniteSetTheorems, TLAPS

Parallel == {"start", "inline", "join", "store"}

\* The threads exist: StartThreads was taken.
Split == pc \in Parallel \/ (pc = "done" /\ out # <<>>)

\* The tasks: functions of the module, the trigger among them, none twice.
TasksOK ==
    /\ tasks \in Seq(Funcs) /\ tasks # <<>>
    /\ \A k, l \in DOMAIN tasks : tasks[k] = tasks[l] => k = l

WorkerState == [st : {"none", "thread", "inline", "exited"}, i : Nat, end : Nat, on : BOOLEAN]

ControlOK ==
    /\ pc \in {"collect", "start", "inline", "join", "store", "done"}
    /\ scan \in Nat \ {0} /\ call \in Nat \ {0} /\ wi \in Nat
    /\ worker \in [Workers -> WorkerState]

\* Before the split there is nothing to read.
NothingYet ==
    /\ out = <<>> /\ writers = <<>> /\ stored = <<>>
    /\ \A w \in Workers : worker[w].st = "none" /\ ~worker[w].on

\* Worker w has been given its range.
Launched(w) ==
    /\ w < NThreads /\ Begin(w) < Len(tasks)
    /\ pc = "start" => w < wi
    /\ pc = "inline" => w <= wi

\* Worker w is inside its range and has finished what lies before i.
RangeOK(w) ==
    /\ worker[w].st # "none"
    /\ worker[w].end = End(w)
    /\ Begin(w) <= worker[w].i /\ worker[w].i <= End(w)
    /\ worker[w].on => worker[w].i < End(w)
    /\ worker[w].st = "exited" => worker[w].i = End(w)
    /\ \A k \in Begin(w) + 1 .. worker[w].i : out[k] \in {"ok", "fail"}

WorkersOK ==
    \A w \in Workers :
        /\ Launched(w) => RangeOK(w)
        /\ ~Launched(w) => worker[w].st = "none" /\ ~worker[w].on
        /\ worker[w].st = "inline" => pc = "inline" /\ w = wi

ResultsOK ==
    /\ out \in [DOMAIN tasks -> {"new", "busy", "ok", "fail"}]
    /\ writers \in [DOMAIN tasks -> SUBSET Workers]
    /\ \A k \in DOMAIN tasks : tasks[k] \in Unsupported => out[k] # "ok"
    /\ \A k \in DOMAIN tasks : \A w \in writers[k] : Begin(w) < k /\ k <= End(w)

\* Results that are stored: those of the tasks 2 .. n that compiled.
Compiled(n) == {tasks[k] : k \in {i \in 2 .. n : out[i] = "ok"}}

Elements(s) == {s[k] : k \in DOMAIN s}

\* Where the loops of the caller are.
LoopsOK ==
    /\ pc = "start" => wi <= NThreads /\ \A w \in 0 .. wi - 1 : Begin(w) < Len(tasks)
    /\ pc = "inline" => /\ wi < NThreads /\ worker[wi].st = "inline"
                        /\ \A w \in 0 .. wi : Begin(w) < Len(tasks)
    /\ pc = "join" => wi < NThreads /\ \A w \in 0 .. wi - 1 : worker[w].st \in {"none", "exited"}
    /\ pc \in {"store", "done"} =>
          /\ \A w \in Workers : worker[w].st \in {"none", "exited"}
          /\ 1 <= wi /\ wi <= Len(tasks)
          /\ stored \in Seq(Funcs)
          /\ Elements(stored) = Compiled(wi)
    /\ pc \in {"start", "inline", "join"} => stored = <<>>
    /\ pc = "done" => wi = Len(tasks)

\* The inductive invariant.
IInv ==
    /\ TasksOK /\ ControlOK
    /\ ~Split => pc \in {"collect", "done"} /\ NothingYet
    /\ Split => NThreads > 1 /\ WorkersOK /\ ResultsOK /\ LoopsOK

-----------------------------------------------------------------------------
(***************************************************************************)
(* Arithmetic of the ranges                                                *)
(***************************************************************************)

\* n tasks in pieces of (n + m - 1) / m: m pieces are enough.
LEMMA DivUp ==
    ASSUME NEW n \in Nat \ {0}, NEW m \in Nat \ {0}
    PROVE  /\ (n + m - 1) \div m \in Nat \ {0}
           /\ n <= m * ((n + m - 1) \div m)
<1> DEFINE a == n + m - 1
           q == a \div m
<1>1. a \in Nat /\ a >= m
  OBVIOUS
<1>2. q \in Nat /\ a % m \in 0 .. m - 1 /\ a = m * q + (a % m)
  BY <1>1
<1>3. q # 0
  BY <1>1, <1>2
<1> QED
  BY <1>2, <1>3

\* A multiple of c is at least c away from a smaller one.
LEMMA MulGap ==
    ASSUME NEW v \in Nat, NEW w \in Nat, NEW c \in Nat, v < w
    PROVE  v * c + c <= w * c
<1>1. w * c = v * c + (w - v) * c
  OBVIOUS
<1>2. (w - v) * c >= c
  OBVIOUS
<1>3. v * c \in Nat /\ w * c \in Nat /\ (w - v) * c \in Nat
  OBVIOUS
<1> QED
  BY <1>1, <1>2, <1>3

\* Rounding down to a multiple of c.
LEMMA DivDown ==
    ASSUME NEW k \in Nat, NEW c \in Nat \ {0}
    PROVE  /\ k \div c \in Nat
           /\ (k \div c) * c <= k
           /\ k < (k \div c) * c + c
OBVIOUS

\* The number of threads never exceeds the array of workers, and the pieces
\* they are given cover the tasks.
LEMMA SplitFacts ==
    ASSUME TasksOK, NThreads > 1
    PROVE  /\ Len(tasks) \in Nat \ {0} /\ DOMAIN tasks = 1 .. Len(tasks)
           /\ NThreads \in Nat /\ NThreads <= MaxThreads
           /\ Chunk \in Nat \ {0}
           /\ Len(tasks) <= NThreads * Chunk
<1>1. Len(tasks) \in Nat \ {0} /\ DOMAIN tasks = 1 .. Len(tasks)
  BY DEF TasksOK
<1>2. NThreads \in Nat /\ NThreads <= MaxThreads
  BY <1>1, PrefetchAssumption DEF NThreads, ThreadCount, SmallestOf
<1>3. Chunk \in Nat \ {0} /\ Len(tasks) <= NThreads * Chunk
  BY <1>1, <1>2, DivUp DEF Chunk
<1> QED
  BY <1>1, <1>2, <1>3

\* The range of a worker: empty when it begins behind the tasks, otherwise
\* nonempty, inside the tasks and before the range of every later worker.
LEMMA RangeFacts ==
    ASSUME TasksOK, NThreads > 1, NEW w \in Nat
    PROVE  /\ Begin(w) \in Nat /\ End(w) \in Nat
           /\ End(w) <= Len(tasks) /\ End(w) <= Begin(w) + Chunk
           /\ Begin(w) < Len(tasks) => Begin(w) < End(w)
           /\ \A v \in Nat : v < w => End(v) <= Begin(w) /\ Begin(v) <= Begin(w)
<1>1. /\ Len(tasks) \in Nat \ {0} /\ Chunk \in Nat \ {0}
  BY SplitFacts
<1> HIDE DEF Chunk
<1>2. \A v \in Nat : v * Chunk \in Nat
  BY <1>1
<1>3. \A v \in Nat : v < w => v * Chunk + Chunk <= w * Chunk
  BY <1>1, MulGap
<1> QED
  BY <1>1, <1>2, <1>3 DEF Begin, End, SmallestOf

\* Every task lies in the range of a worker.
LEMMA RangesCover ==
    ASSUME TasksOK, NThreads > 1, NEW k \in DOMAIN tasks
    PROVE  \E w \in Workers : w < NThreads /\ Begin(w) < k /\ k <= End(w)
<1> DEFINE w == (k - 1) \div Chunk
<1>1. /\ Len(tasks) \in Nat \ {0} /\ Chunk \in Nat \ {0} /\ k \in 1 .. Len(tasks)
      /\ NThreads \in Nat /\ NThreads <= MaxThreads
      /\ Len(tasks) <= NThreads * Chunk
  BY SplitFacts
<1> HIDE DEF Chunk, NThreads
<1>a. k - 1 \in Nat
  BY <1>1
<1>2. w \in Nat /\ w * Chunk <= k - 1 /\ k - 1 < w * Chunk + Chunk
  BY <1>1, <1>a, DivDown
<1>3. w < NThreads
  <2> SUFFICES ASSUME NThreads <= w
               PROVE  FALSE
    BY <1>1, <1>2
  <2> HIDE DEF w
  <2>1. NThreads * Chunk <= w * Chunk
    <3>1. CASE NThreads = w
      BY <3>1, <1>1, <1>2
    <3>2. CASE NThreads < w
      BY <3>2, <1>1, <1>2, MulGap
    <3> QED
      BY <3>1, <3>2, <1>1, <1>2
  <2> QED
    BY <2>1, <1>1, <1>2
<1>4. w \in Workers
  BY <1>1, <1>2, <1>3, PrefetchAssumption DEF Workers
<1> HIDE DEF w
<1>5. Begin(w) < k /\ k <= End(w)
  BY <1>1, <1>2 DEF Begin, End, SmallestOf
<1> QED
  BY <1>3, <1>4, <1>5

\* The ranges do not overlap.
LEMMA RangesDisjoint ==
    ASSUME TasksOK, NThreads > 1, NEW v \in Workers, NEW w \in Workers, NEW k \in Nat,
           Begin(v) < k, k <= End(v), Begin(w) < k, k <= End(w)
    PROVE  v = w
<1>1. v \in Nat /\ w \in Nat
  BY PrefetchAssumption DEF Workers
<1>2. /\ Begin(v) \in Nat /\ End(v) \in Nat /\ Begin(w) \in Nat /\ End(w) \in Nat
      /\ v < w => End(v) <= Begin(w)
      /\ w < v => End(w) <= Begin(v)
  BY <1>1, RangeFacts
<1> QED
  BY <1>1, <1>2

\* As long as the tasks stay, so do the ranges.
LEMMA RangesKept ==
    ASSUME tasks' = tasks
    PROVE  /\ NThreads' = NThreads /\ Chunk' = Chunk
           /\ \A w : Begin(w)' = Begin(w) /\ End(w)' = End(w)
BY DEF NThreads, ThreadCount, Chunk, Begin, End, SmallestOf

-----------------------------------------------------------------------------
(***************************************************************************)
(* The inductive invariant                                                 *)
(***************************************************************************)

\* At the start only the trigger is a task.
LEMMA InitIInv == Init => IInv
<1> SUFFICES ASSUME Init
             PROVE  IInv
  OBVIOUS
<1>1. TasksOK
  BY PrefetchAssumption DEF Init, TasksOK
<1>2. ControlOK
  BY DEF Init, ControlOK, WorkerState
<1>3. ~Split /\ NothingYet /\ pc = "collect"
  BY DEF Init, Split, Parallel, NothingYet
<1> QED
  BY <1>1, <1>2, <1>3 DEF IInv

\* Collecting only adds functions that are not tasks yet.
LEMMA CollectStep ==
    ASSUME IInv, CollectCall \/ CollectNext
    PROVE  IInv'
<1>1. /\ pc = "collect" /\ pc' = pc /\ ~Split /\ ~Split'
      /\ UNCHANGED <<out, writers, stored, worker, wi>>
  BY DEF CollectCall, CollectNext, More, Split, Parallel
<1>2. TasksOK /\ ControlOK /\ NothingYet
  BY <1>1 DEF IInv
<1>3. NothingYet'
  BY <1>1, <1>2 DEF NothingYet
<1>4. ControlOK'
  BY <1>1, <1>2 DEF ControlOK, CollectCall, CollectNext
<1>5. TasksOK'
  <2>1. CASE CollectNext
    BY <2>1, <1>2 DEF TasksOK, CollectNext
  <2>2. CASE CollectCall
    <3> DEFINE f == CallGraph[tasks[scan]][call]
    <3>1. scan \in DOMAIN tasks /\ tasks[scan] \in Funcs
      BY <2>2, <1>2 DEF CollectCall, More, TasksOK, ControlOK
    <3>2. CallGraph[tasks[scan]] \in Seq(Funcs)
      BY <3>1, PrefetchAssumption
    <3>3. f \in Funcs
      BY <3>2, <2>2, <1>2 DEF CollectCall, ControlOK
    <3> HIDE DEF f
    <3>4. CASE ~Wanted(f)
      BY <3>4, <2>2, <1>2 DEF CollectCall, TasksOK, f
    <3>5. CASE Wanted(f)
      <4>1. tasks' = Append(tasks, f)
        BY <3>5, <2>2 DEF CollectCall, f
      <4>2. \A k \in DOMAIN tasks : tasks[k] # f
        BY <3>5 DEF Wanted, InTasks
      <4> QED
        BY <4>1, <4>2, <3>3, <1>2 DEF TasksOK
    <3> QED
      BY <3>4, <3>5
  <2> QED
    BY <2>1, <2>2
<1> QED
  BY <1>1, <1>3, <1>4, <1>5 DEF IInv

\* Giving up leaves nothing behind.
LEMMA GiveUpStep ==
    ASSUME IInv, GiveUp
    PROVE  IInv'
<1>1. /\ pc = "collect" /\ pc' = "done" /\ ~Split
      /\ UNCHANGED <<tasks, scan, call, out, writers, stored, worker, wi>>
  BY DEF GiveUp, Split, Parallel
<1>2. TasksOK /\ ControlOK /\ NothingYet
  BY <1>1 DEF IInv
<1>3. NothingYet' /\ ~Split'
  BY <1>1, <1>2 DEF NothingYet, Split, Parallel
<1>4. ControlOK' /\ TasksOK'
  BY <1>1, <1>2 DEF ControlOK, TasksOK
<1> QED
  BY <1>1, <1>3, <1>4 DEF IInv

\* Nobody has a range when the start loop begins.
LEMMA StartThreadsStep ==
    ASSUME IInv, StartThreads
    PROVE  IInv'
<1>1. /\ pc = "collect" /\ pc' = "start" /\ wi' = 0 /\ ~Split /\ Split' /\ NThreads > 1
      /\ UNCHANGED <<tasks, scan, call, stored, worker>>
      /\ out' = [k \in DOMAIN tasks |-> "new"]
      /\ writers' = [k \in DOMAIN tasks |-> {}]
  BY DEF StartThreads, Split, Parallel
<1>2. TasksOK /\ ControlOK /\ NothingYet
  BY <1>1 DEF IInv
<1>3. ControlOK' /\ TasksOK'
  BY <1>1, <1>2 DEF ControlOK, TasksOK
<1>4. NThreads' = NThreads
  BY <1>1, RangesKept
<1>5. WorkersOK'
  <2>1. \A w \in Workers : ~Launched(w)'
    BY <1>1, PrefetchAssumption DEF Launched, Workers
  <2> QED
    BY <2>1, <1>1, <1>2 DEF WorkersOK, NothingYet
<1>6. ResultsOK'
  BY <1>1 DEF ResultsOK
<1>7. LoopsOK'
  <2>1. NThreads \in Nat
    BY <1>1, <1>2, SplitFacts
  <2> QED
    BY <2>1, <1>1, <1>2, <1>4 DEF LoopsOK, NothingYet
<1> QED
  BY <1>1, <1>3, <1>4, <1>5, <1>6, <1>7 DEF IInv

\* The parts of the invariant in the parallel section.
LEMMA SplitParts ==
    ASSUME IInv, Split
    PROVE  /\ TasksOK /\ ControlOK /\ NThreads > 1
           /\ WorkersOK /\ ResultsOK /\ LoopsOK
           /\ NThreads \in Nat /\ NThreads <= MaxThreads
           /\ Len(tasks) \in Nat \ {0} /\ DOMAIN tasks = 1 .. Len(tasks)
BY SplitFacts DEF IInv

\* What is known of one worker and its range.
LEMMA WorkerFacts ==
    ASSUME TasksOK, ControlOK, NThreads > 1, NEW w \in Workers
    PROVE  /\ w \in Nat /\ worker[w] \in WorkerState
           /\ Begin(w) \in Nat /\ End(w) \in Nat /\ End(w) <= Len(tasks)
           /\ Begin(w) < Len(tasks) => Begin(w) < End(w)
<1>1. w \in Nat
  BY PrefetchAssumption DEF Workers
<1>2. worker[w] \in WorkerState
  BY DEF ControlOK
<1> QED
  BY <1>1, <1>2, RangeFacts

\* The threads are workers.
LEMMA ThreadIsWorker ==
    ASSUME NEW w \in Nat, NThreads \in Nat, NThreads <= MaxThreads, w < NThreads
    PROVE  w \in Workers
BY PrefetchAssumption DEF Workers

\* A step that leaves tasks and results alone keeps ResultsOK.
LEMMA ResultsKept ==
    ASSUME ResultsOK, UNCHANGED <<tasks, out, writers>>
    PROVE  ResultsOK'
<1>1. \A w : Begin(w)' = Begin(w) /\ End(w)' = End(w)
  BY RangesKept
<1> QED
  BY <1>1 DEF ResultsOK

\* A worker nobody touched stays inside its range.
LEMMA RangeKept ==
    ASSUME UNCHANGED <<tasks, out>>, NEW w \in Workers, worker'[w] = worker[w], RangeOK(w)
    PROVE  RangeOK(w)'
<1>1. Begin(w)' = Begin(w) /\ End(w)' = End(w)
  BY RangesKept
<1> QED
  BY <1>1 DEF RangeOK

\* A worker is given its range; nothing of it is done.
LEMMA LaunchStep ==
    ASSUME IInv, CreateWorker \/ RunInline
    PROVE  IInv'
<1>1. /\ pc = "start" /\ wi < NThreads /\ Begin(wi) < Len(tasks) /\ Split
      /\ UNCHANGED <<tasks, scan, call, out, stored, writers>>
  BY DEF CreateWorker, RunInline, Starting, Split, Parallel
<1>2. /\ TasksOK /\ ControlOK /\ NThreads > 1
      /\ WorkersOK /\ ResultsOK /\ LoopsOK
      /\ NThreads \in Nat /\ NThreads <= MaxThreads
  BY <1>1, SplitParts
<1>3. wi \in Nat /\ wi \in Workers
  BY <1>1, <1>2, ThreadIsWorker DEF ControlOK
<1>4. NThreads' = NThreads /\ \A w : Begin(w)' = Begin(w) /\ End(w)' = End(w)
  BY <1>1, RangesKept
<1>5. PICK st \in {"thread", "inline"} :
         /\ worker' = [worker EXCEPT ![wi] = Assigned(st)]
         /\ st = "thread" => pc' = "start" /\ wi' = wi + 1
         /\ st = "inline" => pc' = "inline" /\ wi' = wi
  <2>1. CASE CreateWorker
    BY <2>1, <1>1 DEF CreateWorker
  <2>2. CASE RunInline
    BY <2>2, <1>1 DEF RunInline
  <2> QED
    BY <2>1, <2>2
<1>6. /\ Begin(wi) \in Nat /\ End(wi) \in Nat /\ Begin(wi) < End(wi)
  BY <1>1, <1>2, <1>3, WorkerFacts
<1>7. /\ worker'[wi] = [st |-> st, i |-> Begin(wi), end |-> End(wi), on |-> FALSE]
      /\ \A w \in Workers : w # wi => worker'[w] = worker[w]
  BY <1>2, <1>3, <1>5 DEF Assigned, ControlOK
<1>8. worker' \in [Workers -> WorkerState]
  BY <1>2, <1>3, <1>5, <1>6 DEF Assigned, ControlOK, WorkerState
<1>9. Split' /\ pc' \in {"start", "inline"}
  BY <1>5 DEF Split, Parallel
<1>10. ControlOK' /\ TasksOK'
  BY <1>1, <1>2, <1>3, <1>5, <1>8, <1>9 DEF ControlOK, TasksOK
<1>11. WorkersOK'
  <2> SUFFICES ASSUME NEW w \in Workers
               PROVE  /\ Launched(w)' => RangeOK(w)'
                      /\ ~Launched(w)' => worker'[w].st = "none" /\ ~worker'[w].on
                      /\ worker'[w].st = "inline" => pc' = "inline" /\ w = wi'
    BY DEF WorkersOK
  <2>1. CASE w = wi
    <3>1. Launched(w)'
      BY <2>1, <1>1, <1>3, <1>4, <1>5 DEF Launched
    <3>2. RangeOK(w)'
      BY <2>1, <1>4, <1>6, <1>7 DEF RangeOK
    <3>3. worker'[w].st = "inline" => pc' = "inline" /\ w = wi'
      BY <2>1, <1>5, <1>7
    <3> QED
      BY <3>1, <3>2, <3>3
  <2>2. CASE w # wi
    <3>0. w \in Nat
      BY <1>2, WorkerFacts
    <3>1. worker'[w] = worker[w]
      BY <2>2, <1>7
    <3>2. Launched(w)' <=> Launched(w)
      BY <2>2, <3>0, <1>1, <1>3, <1>4, <1>5 DEF Launched
    <3>3. RangeOK(w) => RangeOK(w)'
      BY <3>1, <1>1, RangeKept
    <3>4. worker[w].st # "inline"
      BY <2>2, <1>1, <1>2 DEF WorkersOK
    <3> QED
      BY <3>1, <3>2, <3>3, <3>4, <1>2 DEF WorkersOK
  <2> QED
    BY <2>1, <2>2
<1>12. ResultsOK'
  BY <1>1, <1>2, ResultsKept
<1>13. LoopsOK'
  <2>1. \A w \in 0 .. wi : Begin(w) < Len(tasks)
    BY <1>1, <1>2, <1>3 DEF LoopsOK
  <2>2. \A w \in 0 .. wi : Begin(w)' < Len(tasks)'
    BY <2>1, <1>1, <1>4
  <2>3. stored' = <<>>
    BY <1>1, <1>2 DEF LoopsOK
  <2>4. CASE st = "thread"
    BY <2>2, <2>3, <2>4, <1>1, <1>2, <1>3, <1>4, <1>5 DEF LoopsOK
  <2>5. CASE st = "inline"
    BY <2>2, <2>3, <2>5, <1>1, <1>2, <1>3, <1>4, <1>5, <1>7 DEF LoopsOK
  <2> QED
    BY <2>4, <2>5
<1> QED
  BY <1>2, <1>4, <1>9, <1>10, <1>11, <1>12, <1>13 DEF IInv

\* The caller has run a worker's loop to its end.
LEMMA InlineDoneStep ==
    ASSUME IInv, InlineDone
    PROVE  IInv'
<1>1. /\ pc = "inline" /\ pc' = "start" /\ wi' = wi + 1 /\ Split /\ Split'
      /\ worker[wi].i = worker[wi].end
      /\ worker' = [worker EXCEPT ![wi].st = "exited"]
      /\ UNCHANGED <<tasks, scan, call, out, stored, writers>>
  BY DEF InlineDone, Split, Parallel
<1>2. /\ TasksOK /\ ControlOK /\ NThreads > 1
      /\ WorkersOK /\ ResultsOK /\ LoopsOK
      /\ NThreads \in Nat /\ NThreads <= MaxThreads
  BY <1>1, SplitParts
<1>3. wi \in Nat /\ wi < NThreads
  BY <1>1, <1>2 DEF ControlOK, LoopsOK
<1>4. wi \in Workers
  BY <1>2, <1>3, ThreadIsWorker
<1>5. NThreads' = NThreads /\ \A w : Begin(w)' = Begin(w) /\ End(w)' = End(w)
  BY <1>1, RangesKept
<1>6. /\ worker'[wi] = [worker[wi] EXCEPT !.st = "exited"]
      /\ \A w \in Workers : w # wi => worker'[w] = worker[w]
  BY <1>1, <1>2, <1>4 DEF ControlOK
<1>7. ControlOK' /\ TasksOK'
  BY <1>1, <1>2, <1>3, <1>4 DEF ControlOK, TasksOK, WorkerState
<1>8. WorkersOK'
  <2> SUFFICES ASSUME NEW w \in Workers
               PROVE  /\ Launched(w)' => RangeOK(w)'
                      /\ ~Launched(w)' => worker'[w].st = "none" /\ ~worker'[w].on
                      /\ worker'[w].st = "inline" => pc' = "inline" /\ w = wi'
    BY DEF WorkersOK
  <2>1. w \in Nat /\ worker[w] \in WorkerState
    BY <1>2, WorkerFacts
  <2>2. Launched(w)' <=> Launched(w)
    BY <2>1, <1>1, <1>3, <1>5 DEF Launched
  <2>3. CASE w = wi
    <3>1. Launched(w)
      BY <2>3, <1>1, <1>2, <1>3 DEF Launched, LoopsOK
    <3>2. RangeOK(w) /\ worker[w].i = worker[w].end
      BY <2>3, <3>1, <1>1, <1>2 DEF WorkersOK
    <3>3. /\ worker'[w].i = worker[w].i /\ worker'[w].end = worker[w].end
          /\ worker'[w].on = worker[w].on /\ worker'[w].st = "exited"
      BY <2>3, <2>1, <1>6 DEF WorkerState
    <3>4. RangeOK(w)'
      BY <3>2, <3>3, <1>1, <1>5 DEF RangeOK
    <3> QED
      BY <3>1, <3>3, <3>4, <2>2
  <2>4. CASE w # wi
    <3>1. worker'[w] = worker[w] /\ worker[w].st # "inline"
      BY <2>4, <1>2, <1>6 DEF WorkersOK
    <3>2. RangeOK(w) => RangeOK(w)'
      BY <3>1, <1>1, RangeKept
    <3> QED
      BY <3>1, <3>2, <2>2, <1>2 DEF WorkersOK
  <2> QED
    BY <2>3, <2>4
<1>9. ResultsOK'
  BY <1>1, <1>2, ResultsKept
<1>10. LoopsOK'
  <2>1. \A w \in 0 .. wi : Begin(w) < Len(tasks)
    BY <1>1, <1>2 DEF LoopsOK
  <2>2. \A w \in 0 .. wi : Begin(w)' < Len(tasks)'
    BY <2>1, <1>1, <1>5
  <2>3. stored' = <<>>
    BY <1>1, <1>2 DEF LoopsOK
  <2> QED
    BY <2>2, <2>3, <1>1, <1>2, <1>3, <1>5 DEF LoopsOK
<1> QED
  BY <1>1, <1>2, <1>5, <1>7, <1>8, <1>9, <1>10 DEF IInv

\* When the start loop ends, every worker whose range is not empty has it.
LEMMA StartDoneStep ==
    ASSUME IInv, StartDone
    PROVE  IInv'
<1>1. /\ pc = "start" /\ pc' = "join" /\ wi' = 0 /\ Split /\ Split'
      /\ ~(wi < NThreads /\ Begin(wi) < Len(tasks))
      /\ UNCHANGED <<tasks, scan, call, out, worker, stored, writers>>
  BY DEF StartDone, Starting, Split, Parallel
<1>2. /\ TasksOK /\ ControlOK /\ NThreads > 1
      /\ WorkersOK /\ ResultsOK /\ LoopsOK
      /\ NThreads \in Nat /\ NThreads <= MaxThreads
      /\ Len(tasks) \in Nat
  BY <1>1, SplitParts
<1>3. wi \in Nat
  BY <1>2 DEF ControlOK
<1>4. NThreads' = NThreads /\ \A w : Begin(w)' = Begin(w) /\ End(w)' = End(w)
  BY <1>1, RangesKept
<1>5. ControlOK' /\ TasksOK'
  BY <1>1, <1>2 DEF ControlOK, TasksOK
<1>6. WorkersOK'
  <2> SUFFICES ASSUME NEW w \in Workers
               PROVE  /\ Launched(w)' => RangeOK(w)'
                      /\ ~Launched(w)' => worker'[w].st = "none" /\ ~worker'[w].on
                      /\ worker'[w].st = "inline" => pc' = "inline" /\ w = wi'
    BY DEF WorkersOK
  <2>1. w \in Nat /\ Begin(w) \in Nat /\ Begin(wi) \in Nat
    BY <1>2, <1>3, WorkerFacts, RangeFacts
  <2>2. wi < w => Begin(wi) <= Begin(w)
    BY <2>1, <1>2, <1>3, RangeFacts
  <2>3. Launched(w)' <=> Launched(w)
    BY <2>1, <2>2, <1>1, <1>2, <1>3, <1>4 DEF Launched
  <2>4. worker'[w] = worker[w] /\ worker[w].st # "inline"
    BY <1>1, <1>2 DEF WorkersOK
  <2>5. RangeOK(w) => RangeOK(w)'
    BY <2>4, <1>1, RangeKept
  <2> QED
    BY <2>3, <2>4, <2>5, <1>2 DEF WorkersOK
<1>7. ResultsOK'
  BY <1>1, <1>2, ResultsKept
<1>8. LoopsOK'
  <2>1. stored' = <<>>
    BY <1>1, <1>2 DEF LoopsOK
  <2> QED
    BY <2>1, <1>1, <1>2, <1>4 DEF LoopsOK
<1> QED
  BY <1>1, <1>2, <1>4, <1>5, <1>6, <1>7, <1>8 DEF IInv

\* A worker that is at work has been given a range, and the caller has not
\* joined it.
LEMMA AtWork ==
    ASSUME IInv, NEW w \in Workers,
           worker[w].on \/ worker[w].st \in {"thread", "inline"}
    PROVE  /\ Split /\ pc \in {"start", "inline", "join"}
           /\ Launched(w) /\ RangeOK(w)
           /\ worker[w].st \in {"thread", "inline"}
<1>1. Split
  BY DEF IInv, NothingYet
<1>2. ControlOK /\ WorkersOK /\ LoopsOK /\ TasksOK /\ NThreads > 1
  BY <1>1, SplitParts
<1>3. Launched(w) /\ RangeOK(w)
  BY <1>2 DEF WorkersOK
<1>4. /\ worker[w].st \in {"none", "thread", "inline", "exited"}
      /\ worker[w].i \in Nat /\ worker[w].end \in Nat
  BY <1>2, WorkerFacts DEF WorkerState
<1>5. worker[w].st \in {"thread", "inline"}
  BY <1>3, <1>4 DEF RangeOK
<1>6. pc \in {"start", "inline", "join"}
  BY <1>1, <1>2, <1>5 DEF Split, Parallel, LoopsOK
<1> QED
  BY <1>1, <1>3, <1>5, <1>6

\* What one worker writes is in no other worker's range.
LEMMA OthersKept ==
    ASSUME TasksOK, ControlOK, NThreads > 1, ResultsOK,
           NEW v \in Workers, NEW w \in Workers, v # w,
           NEW k \in Nat, Begin(w) < k, k <= End(w), NEW r,
           tasks' = tasks, out' = [out EXCEPT ![k] = r],
           worker'[v] = worker[v], RangeOK(v)
    PROVE  RangeOK(v)'
<1>1. Begin(v)' = Begin(v) /\ End(v)' = End(v)
  BY RangesKept
<1>2. /\ worker[v] \in WorkerState /\ Begin(v) \in Nat /\ End(v) \in Nat
      /\ End(v) <= Len(tasks)
  BY WorkerFacts
<1>3. DOMAIN out = 1 .. Len(tasks) /\ Len(tasks) \in Nat
  BY SplitFacts DEF ResultsOK
<1>4. ASSUME NEW l \in Begin(v) + 1 .. worker[v].i
      PROVE  out'[l] = out[l]
  <2>1. l \in Nat /\ Begin(v) < l /\ l <= End(v) /\ l \in DOMAIN out
    BY <1>2, <1>3 DEF RangeOK, WorkerState
  <2>2. l # k
    BY <2>1, RangesDisjoint
  <2> QED
    BY <2>1, <2>2
<1> QED
  BY <1>1, <1>4 DEF RangeOK

\* A worker at work on one task: what BeginTask and EndTask have in common.
LEMMA TaskStep ==
    ASSUME IInv, NEW w \in Workers, RangeOK(w), Launched(w), Split,
           pc \in {"start", "inline", "join"}, worker[w].i < End(w),
           NEW r \in {"busy", "ok", "fail"}, NEW i2 \in Nat, NEW on2 \in BOOLEAN,
           tasks[worker[w].i + 1] \in Unsupported => r # "ok",
           \/ i2 = worker[w].i
           \/ i2 = worker[w].i + 1 /\ r # "busy" /\ ~on2,
           worker[w].st \in {"thread", "inline"},
           out' = [out EXCEPT ![worker[w].i + 1] = r],
           worker' = [worker EXCEPT ![w] = [@ EXCEPT !.i = i2, !.on = on2]],
           \/ writers' = writers
           \/ writers' = [writers EXCEPT ![worker[w].i + 1] = @ \cup {w}],
           UNCHANGED <<pc, tasks, scan, call, wi, stored>>
    PROVE  IInv'
<1> DEFINE k == worker[w].i + 1
<1>1. /\ TasksOK /\ ControlOK /\ NThreads > 1
      /\ WorkersOK /\ ResultsOK /\ LoopsOK
      /\ NThreads \in Nat /\ NThreads <= MaxThreads
      /\ Len(tasks) \in Nat \ {0} /\ DOMAIN tasks = 1 .. Len(tasks)
  BY SplitParts
<1>2. NThreads' = NThreads /\ \A v : Begin(v)' = Begin(v) /\ End(v)' = End(v)
  BY RangesKept
<1>3. /\ worker[w] \in WorkerState /\ worker[w].i \in Nat /\ worker[w].end \in Nat
      /\ Begin(w) \in Nat /\ End(w) \in Nat /\ End(w) <= Len(tasks)
  BY <1>1, WorkerFacts DEF WorkerState
<1>4. /\ k \in Nat /\ Begin(w) < k /\ k <= End(w) /\ k \in DOMAIN tasks
  BY <1>1, <1>3 DEF RangeOK
<1>5. /\ worker'[w].i = i2 /\ worker'[w].on = on2 /\ worker'[w].end = worker[w].end
      /\ worker'[w].st = worker[w].st
      /\ \A v \in Workers : v # w => worker'[v] = worker[v]
      /\ worker' \in [Workers -> WorkerState]
  BY <1>1, <1>3 DEF ControlOK, WorkerState
<1>6. ControlOK' /\ TasksOK' /\ Split'
  BY <1>1, <1>5 DEF ControlOK, TasksOK, Split, Parallel
<1>7. DOMAIN out = DOMAIN tasks /\ out'[k] = r /\ \A l \in DOMAIN tasks : l # k => out'[l] = out[l]
  BY <1>1, <1>4 DEF ResultsOK
<1> HIDE DEF k
<1>8. WorkersOK'
  <2> SUFFICES ASSUME NEW v \in Workers
               PROVE  /\ Launched(v)' => RangeOK(v)'
                      /\ ~Launched(v)' => worker'[v].st = "none" /\ ~worker'[v].on
                      /\ worker'[v].st = "inline" => pc' = "inline" /\ v = wi'
    BY DEF WorkersOK
  <2>1. Launched(v)' <=> Launched(v)
    BY <1>2 DEF Launched
  <2>2. CASE v = w
    <3>1. \A l \in Begin(w) + 1 .. i2 : out'[l] \in {"ok", "fail"}
      <4> SUFFICES ASSUME NEW l \in Begin(w) + 1 .. i2
                   PROVE  out'[l] \in {"ok", "fail"}
        OBVIOUS
      <4>1. CASE l = k
        BY <4>1, <1>3, <1>7 DEF k
      <4>2. CASE l # k
        <5>1. l \in Begin(w) + 1 .. worker[w].i /\ l \in DOMAIN tasks
          BY <4>2, <1>1, <1>3, <1>4 DEF k
        <5> QED
          BY <5>1, <4>2, <1>7 DEF RangeOK
      <4> QED
        BY <4>1, <4>2
    <3>2. RangeOK(w)'
      BY <3>1, <1>2, <1>3, <1>5 DEF RangeOK
    <3> QED
      BY <2>1, <2>2, <3>2, <1>1, <1>5 DEF WorkersOK
  <2>3. CASE v # w
    <3>1. worker'[v] = worker[v]
      BY <2>3, <1>5
    <3>2. RangeOK(v) => RangeOK(v)'
      BY <2>3, <3>1, <1>1, <1>4, OthersKept DEF k
    <3> QED
      BY <2>1, <3>1, <3>2, <1>1 DEF WorkersOK
  <2> QED
    BY <2>2, <2>3
<1>9. ResultsOK'
  <2>1. out' \in [DOMAIN tasks -> {"new", "busy", "ok", "fail"}]
    BY <1>1, <1>4 DEF ResultsOK, k
  <2>2. \A l \in DOMAIN tasks : tasks[l] \in Unsupported => out'[l] # "ok"
    BY <1>1, <1>7 DEF ResultsOK, k
  <2>3. writers' \in [DOMAIN tasks -> SUBSET Workers]
    BY <1>1, <1>4 DEF ResultsOK, k
  <2>4. \A l \in DOMAIN tasks : \A v \in writers'[l] : Begin(v) < l /\ l <= End(v)
    BY <1>1, <1>4 DEF ResultsOK, k
  <2> QED
    BY <2>1, <2>2, <2>3, <2>4, <1>2 DEF ResultsOK
<1>10. LoopsOK'
  <2>1. \A v \in Workers : worker'[v].st = worker[v].st
    BY <1>5
  <2>2. \A v \in Nat : v < NThreads => v \in Workers
    BY <1>1, ThreadIsWorker
  <2>3. wi \in Nat /\ stored = <<>>
    BY <1>1 DEF ControlOK, LoopsOK
  <2>4. CASE pc = "start"
    BY <2>3, <2>4, <1>1, <1>2 DEF LoopsOK
  <2>5. CASE pc = "inline"
    BY <2>1, <2>2, <2>3, <2>5, <1>1, <1>2 DEF LoopsOK
  <2>6. CASE pc = "join"
    BY <2>1, <2>2, <2>3, <2>6, <1>1, <1>2 DEF LoopsOK
  <2> QED
    BY <2>4, <2>5, <2>6
<1> QED
  BY <1>1, <1>2, <1>6, <1>8, <1>9, <1>10 DEF IInv

\* A worker clears the next task of its range.
LEMMA BeginTaskStep ==
    ASSUME IInv, NEW w \in Workers, BeginTask(w)
    PROVE  IInv'
<1>1. /\ worker[w].st \in {"thread", "inline"} /\ worker[w].i < worker[w].end
      /\ out' = [out EXCEPT ![worker[w].i + 1] = "busy"]
      /\ writers' = [writers EXCEPT ![worker[w].i + 1] = @ \cup {w}]
      /\ worker' = [worker EXCEPT ![w].on = TRUE]
      /\ UNCHANGED <<pc, tasks, scan, call, wi, stored>>
  BY DEF BeginTask
<1>2. /\ Split /\ pc \in {"start", "inline", "join"}
      /\ Launched(w) /\ RangeOK(w)
  BY <1>1, AtWork
<1>3. worker[w] \in WorkerState /\ worker[w].i \in Nat
  BY DEF IInv, ControlOK, WorkerState
<1>4. worker[w].i < End(w)
  BY <1>1, <1>2 DEF RangeOK
<1>5. worker' = [worker EXCEPT ![w] = [@ EXCEPT !.i = worker[w].i, !.on = TRUE]]
  BY <1>1, <1>3 DEF WorkerState
<1> QED
  BY <1>1, <1>2, <1>3, <1>4, <1>5, TaskStep

\* A worker has compiled a task, or failed to.
LEMMA EndTaskStep ==
    ASSUME IInv, NEW w \in Workers, NEW r \in {"ok", "fail"}, EndTask(w, r)
    PROVE  IInv'
<1>1. /\ worker[w].on
      /\ tasks[worker[w].i + 1] \in Unsupported => r = "fail"
      /\ out' = [out EXCEPT ![worker[w].i + 1] = r]
      /\ worker' = [worker EXCEPT ![w].i = @ + 1, ![w].on = FALSE]
      /\ UNCHANGED <<pc, tasks, scan, call, wi, stored, writers>>
  BY DEF EndTask
<1>2. /\ Split /\ pc \in {"start", "inline", "join"}
      /\ Launched(w) /\ RangeOK(w) /\ worker[w].st \in {"thread", "inline"}
  BY <1>1, AtWork
<1>3. worker[w] \in WorkerState /\ worker[w].i \in Nat
  BY DEF IInv, ControlOK, WorkerState
<1>4. worker[w].i < End(w)
  BY <1>1, <1>2 DEF RangeOK
<1>5. worker' = [worker EXCEPT ![w] = [@ EXCEPT !.i = worker[w].i + 1, !.on = FALSE]]
  BY <1>1, <1>3 DEF WorkerState
<1>6. /\ worker[w].i + 1 \in Nat /\ FALSE \in BOOLEAN
      /\ r \in {"busy", "ok", "fail"} /\ r # "busy"
      /\ tasks[worker[w].i + 1] \in Unsupported => r # "ok"
  BY <1>1, <1>3
<1> QED
  BY <1>1, <1>2, <1>4, <1>5, <1>6, TaskStep

\* A thread returns at the end of its range.
LEMMA ExitThreadStep ==
    ASSUME IInv, NEW w \in Workers, ExitThread(w)
    PROVE  IInv'
<1>1. /\ worker[w].st = "thread" /\ worker[w].i = worker[w].end
      /\ worker' = [worker EXCEPT ![w].st = "exited"]
      /\ UNCHANGED <<pc, tasks, scan, call, out, wi, stored, writers>>
  BY DEF ExitThread
<1>2. /\ Split /\ pc \in {"start", "inline", "join"}
      /\ Launched(w) /\ RangeOK(w)
  BY <1>1, AtWork
<1>3. /\ TasksOK /\ ControlOK /\ NThreads > 1
      /\ WorkersOK /\ ResultsOK /\ LoopsOK
      /\ NThreads \in Nat /\ NThreads <= MaxThreads
  BY <1>2, SplitParts
<1>4. NThreads' = NThreads /\ \A v : Begin(v)' = Begin(v) /\ End(v)' = End(v)
  BY <1>1, RangesKept
<1>5. /\ worker'[w].i = worker[w].i /\ worker'[w].on = worker[w].on
      /\ worker'[w].end = worker[w].end /\ worker'[w].st = "exited"
      /\ \A v \in Workers : v # w => worker'[v] = worker[v]
      /\ worker' \in [Workers -> WorkerState]
  BY <1>1, <1>3 DEF ControlOK, WorkerState
<1>6. ControlOK' /\ TasksOK' /\ Split'
  BY <1>1, <1>2, <1>3, <1>5 DEF ControlOK, TasksOK, Split, Parallel
<1>7. WorkersOK'
  <2> SUFFICES ASSUME NEW v \in Workers
               PROVE  /\ Launched(v)' => RangeOK(v)'
                      /\ ~Launched(v)' => worker'[v].st = "none" /\ ~worker'[v].on
                      /\ worker'[v].st = "inline" => pc' = "inline" /\ v = wi'
    BY DEF WorkersOK
  <2>1. Launched(v)' <=> Launched(v)
    BY <1>1, <1>4 DEF Launched
  <2>2. CASE v = w
    <3>1. RangeOK(w)'
      BY <1>1, <1>2, <1>4, <1>5 DEF RangeOK
    <3> QED
      BY <2>1, <2>2, <3>1, <1>2, <1>5
  <2>3. CASE v # w
    <3>1. worker'[v] = worker[v]
      BY <2>3, <1>5
    <3>2. RangeOK(v) => RangeOK(v)'
      BY <3>1, <1>1, RangeKept
    <3> QED
      BY <2>1, <3>1, <3>2, <1>1, <1>3 DEF WorkersOK
  <2> QED
    BY <2>2, <2>3
<1>8. ResultsOK'
  BY <1>1, <1>3, ResultsKept
<1>9. LoopsOK'
  <2>1. \A v \in Nat : v < NThreads => v \in Workers
    BY <1>3, ThreadIsWorker
  <2>2. wi \in Nat /\ stored = <<>>
    BY <1>2, <1>3 DEF ControlOK, LoopsOK
  <2>3. CASE pc = "start"
    BY <2>2, <2>3, <1>1, <1>3, <1>4 DEF LoopsOK
  <2>4. CASE pc = "inline"
    <3>1. wi # w /\ wi \in Workers
      BY <2>1, <2>2, <2>4, <1>1, <1>3 DEF LoopsOK
    <3> QED
      BY <3>1, <2>2, <2>4, <1>1, <1>3, <1>4, <1>5 DEF LoopsOK
  <2>5. CASE pc = "join"
    <3>1. \A v \in 0 .. wi - 1 : v \in Workers /\ worker'[v].st \in {"none", "exited"}
      BY <2>1, <2>2, <2>5, <1>3, <1>5 DEF LoopsOK
    <3> QED
      BY <3>1, <2>2, <2>5, <1>1, <1>3, <1>4 DEF LoopsOK
  <2> QED
    BY <2>3, <2>4, <2>5, <1>2
<1> QED
  BY <1>3, <1>4, <1>6, <1>7, <1>8, <1>9 DEF IInv

\* One more task is stored when it compiled; it was not stored before.
LEMMA CompiledNext ==
    ASSUME TasksOK, NEW n \in Nat \ {0}, n < Len(tasks)
    PROVE  /\ Compiled(1) = {}
           /\ Compiled(n + 1) =
                 IF out[n + 1] = "ok" THEN Compiled(n) \cup {tasks[n + 1]} ELSE Compiled(n)
           /\ tasks[n + 1] \notin Compiled(n)
<1>1. Compiled(1) = {}
  BY DEF Compiled
<1>2. 2 .. n + 1 = (2 .. n) \cup {n + 1}
  OBVIOUS
<1>3. Compiled(n + 1) =
         IF out[n + 1] = "ok" THEN Compiled(n) \cup {tasks[n + 1]} ELSE Compiled(n)
  BY <1>2 DEF Compiled
<1>4. tasks[n + 1] \notin Compiled(n)
  BY DEF Compiled, TasksOK
<1> QED
  BY <1>1, <1>3, <1>4

\* What a sequence holds after one more element.
LEMMA ElementsAppend ==
    ASSUME NEW s \in Seq(Funcs), NEW f \in Funcs
    PROVE  Elements(Append(s, f)) = Elements(s) \cup {f}
<1>1. DOMAIN Append(s, f) = DOMAIN s \cup {Len(s) + 1}
  OBVIOUS
<1>2. \A k \in DOMAIN s : Append(s, f)[k] = s[k]
  OBVIOUS
<1>3. Append(s, f)[Len(s) + 1] = f
  OBVIOUS
<1> QED
  BY <1>1, <1>2, <1>3 DEF Elements

\* When the last worker is joined, nobody runs.
LEMMA JoinStep ==
    ASSUME IInv, Join
    PROVE  IInv'
<1>1. /\ pc = "join" /\ worker[wi].st \in {"none", "exited"} /\ Split
      /\ UNCHANGED <<tasks, scan, call, out, worker, stored, writers>>
      /\ \/ wi + 1 < NThreads /\ wi' = wi + 1 /\ pc' = "join"
         \/ ~(wi + 1 < NThreads) /\ wi' = 1 /\ pc' = "store"
  BY DEF Join, Split, Parallel
<1>2. /\ TasksOK /\ ControlOK /\ NThreads > 1
      /\ WorkersOK /\ ResultsOK /\ LoopsOK
      /\ NThreads \in Nat /\ NThreads <= MaxThreads
      /\ Len(tasks) \in Nat \ {0}
  BY <1>1, SplitParts
<1>3. NThreads' = NThreads /\ \A v : Begin(v)' = Begin(v) /\ End(v)' = End(v)
  BY <1>1, RangesKept
<1>4. wi \in Nat /\ wi < NThreads /\ stored = <<>>
  BY <1>1, <1>2 DEF ControlOK, LoopsOK
<1>5. ControlOK' /\ TasksOK' /\ Split'
  BY <1>1, <1>2, <1>4 DEF ControlOK, TasksOK, Split, Parallel
<1>6. WorkersOK'
  <2> SUFFICES ASSUME NEW v \in Workers
               PROVE  /\ Launched(v)' => RangeOK(v)'
                      /\ ~Launched(v)' => worker'[v].st = "none" /\ ~worker'[v].on
                      /\ worker'[v].st = "inline" => pc' = "inline" /\ v = wi'
    BY DEF WorkersOK
  <2>1. Launched(v)' <=> Launched(v)
    BY <1>1, <1>3 DEF Launched
  <2>2. RangeOK(v) => RangeOK(v)'
    BY <1>1, RangeKept
  <2> QED
    BY <2>1, <2>2, <1>1, <1>2 DEF WorkersOK
<1>7. ResultsOK'
  BY <1>1, <1>2, ResultsKept
<1>8. \A v \in 0 .. wi : worker[v].st \in {"none", "exited"}
  BY <1>1, <1>2, <1>4 DEF LoopsOK
<1>9. LoopsOK'
  <2>1. CASE wi + 1 < NThreads
    BY <2>1, <1>1, <1>2, <1>3, <1>4, <1>8 DEF LoopsOK
  <2>2. CASE ~(wi + 1 < NThreads)
    <3>1. ASSUME NEW v \in Workers
          PROVE  worker[v].st \in {"none", "exited"}
      <4>0. v \in Nat
        BY <1>2, WorkerFacts
      <4>1. CASE v < NThreads
        BY <4>0, <4>1, <2>2, <1>2, <1>4, <1>8
      <4>2. CASE ~(v < NThreads)
        BY <4>2, <1>2 DEF WorkersOK, Launched
      <4> QED
        BY <4>1, <4>2
    <3>2. Compiled(1)' = {}
      BY DEF Compiled
    <3>4. stored' \in Seq(Funcs) /\ Elements(stored)' = {}
      BY <1>1, <1>4 DEF Elements
    <3> QED
      BY <2>2, <3>1, <3>2, <3>4, <1>1, <1>2 DEF LoopsOK
  <2> QED
    BY <2>1, <2>2
<1> QED
  BY <1>2, <1>3, <1>5, <1>6, <1>7, <1>9 DEF IInv

\* One more result enters the cache.
LEMMA StoreTaskStep ==
    ASSUME IInv, StoreTask
    PROVE  IInv'
<1>1. /\ pc = "store" /\ pc' = pc /\ wi < Len(tasks) /\ wi' = wi + 1 /\ Split /\ Split'
      /\ stored' = IF out[wi + 1] = "ok" THEN Append(stored, tasks[wi + 1]) ELSE stored
      /\ UNCHANGED <<tasks, scan, call, out, worker, writers>>
  BY DEF StoreTask, Split, Parallel
<1>2. /\ TasksOK /\ ControlOK /\ NThreads > 1
      /\ WorkersOK /\ ResultsOK /\ LoopsOK
      /\ Len(tasks) \in Nat \ {0} /\ DOMAIN tasks = 1 .. Len(tasks)
  BY <1>1, SplitParts
<1>3. NThreads' = NThreads
  BY <1>1, RangesKept
<1>4. /\ wi \in Nat \ {0} /\ stored \in Seq(Funcs)
      /\ Elements(stored) = Compiled(wi)
      /\ \A w \in Workers : worker[w].st \in {"none", "exited"}
  BY <1>1, <1>2 DEF ControlOK, LoopsOK
<1>5. ControlOK' /\ TasksOK'
  BY <1>1, <1>2, <1>4 DEF ControlOK, TasksOK
<1>6. WorkersOK'
  <2> SUFFICES ASSUME NEW v \in Workers
               PROVE  /\ Launched(v)' => RangeOK(v)'
                      /\ ~Launched(v)' => worker'[v].st = "none" /\ ~worker'[v].on
                      /\ worker'[v].st = "inline" => pc' = "inline" /\ v = wi'
    BY DEF WorkersOK
  <2>1. Launched(v)' <=> Launched(v)
    BY <1>1, <1>3, RangesKept DEF Launched
  <2>2. RangeOK(v) => RangeOK(v)'
    BY <1>1, RangeKept
  <2> QED
    BY <2>1, <2>2, <1>1, <1>2, <1>4 DEF WorkersOK
<1>7. ResultsOK'
  BY <1>1, <1>2, ResultsKept
<1>8. /\ stored' \in Seq(Funcs)
      /\ Elements(stored') =
            IF out[wi + 1] = "ok" THEN Elements(stored) \cup {tasks[wi + 1]} ELSE Elements(stored)
  <2>1. tasks[wi + 1] \in Funcs
    BY <1>1, <1>2, <1>4 DEF TasksOK
  <2>2. CASE out[wi + 1] = "ok"
    <3>1. stored' = Append(stored, tasks[wi + 1])
      BY <2>2, <1>1
    <3>2. stored' \in Seq(Funcs)
      BY <3>1, <2>1, <1>4
    <3>3. Elements(stored') = Elements(stored) \cup {tasks[wi + 1]}
      BY <3>1, <2>1, <1>4, ElementsAppend
    <3> QED
      BY <3>2, <3>3, <2>2
  <2>3. CASE out[wi + 1] # "ok"
    <3>1. stored' = stored
      BY <2>3, <1>1
    <3> QED
      BY <3>1, <2>3, <1>4
  <2> QED
    BY <2>2, <2>3
<1>9. Elements(stored') = Compiled(wi + 1)
  BY <1>1, <1>2, <1>4, <1>8, CompiledNext
<1>10. Compiled(wi)' = Compiled(wi + 1)
  BY <1>1 DEF Compiled
<1>11. LoopsOK'
  BY <1>1, <1>2, <1>4, <1>8, <1>9, <1>10 DEF LoopsOK
<1> QED
  BY <1>1, <1>2, <1>3, <1>5, <1>6, <1>7, <1>11 DEF IInv

\* The call returns with everything stored.
LEMMA StoreDoneStep ==
    ASSUME IInv, StoreDone
    PROVE  IInv'
<1>1. /\ pc = "store" /\ pc' = "done" /\ wi = Len(tasks) /\ Split
      /\ UNCHANGED <<tasks, scan, call, out, wi, worker, stored, writers>>
  BY DEF StoreDone, Split, Parallel
<1>2. /\ TasksOK /\ ControlOK /\ NThreads > 1
      /\ WorkersOK /\ ResultsOK /\ LoopsOK
      /\ Len(tasks) \in Nat \ {0} /\ DOMAIN tasks = 1 .. Len(tasks)
  BY <1>1, SplitParts
<1>3. out # <<>>
  BY <1>2 DEF ResultsOK
<1>4. Split' /\ NThreads' = NThreads
  BY <1>1, <1>3, RangesKept DEF Split
<1>5. ControlOK' /\ TasksOK'
  BY <1>1, <1>2 DEF ControlOK, TasksOK
<1>6. WorkersOK'
  <2> SUFFICES ASSUME NEW v \in Workers
               PROVE  /\ Launched(v)' => RangeOK(v)'
                      /\ ~Launched(v)' => worker'[v].st = "none" /\ ~worker'[v].on
                      /\ worker'[v].st = "inline" => pc' = "inline" /\ v = wi'
    BY DEF WorkersOK
  <2>1. Launched(v)' <=> Launched(v)
    BY <1>1, RangesKept DEF Launched
  <2>2. RangeOK(v) => RangeOK(v)'
    BY <1>1, RangeKept
  <2> QED
    BY <2>1, <2>2, <1>1, <1>2 DEF WorkersOK, LoopsOK
<1>7. ResultsOK'
  BY <1>1, <1>2, ResultsKept
<1>8. Compiled(wi)' = Compiled(wi)
  BY <1>1 DEF Compiled
<1>9. LoopsOK'
  BY <1>1, <1>2, <1>8 DEF LoopsOK
<1> QED
  BY <1>2, <1>4, <1>5, <1>6, <1>7, <1>9 DEF IInv

\* A step that changes nothing.
LEMMA StutterStep ==
    ASSUME IInv, UNCHANGED vars
    PROVE  IInv'
<1>1. UNCHANGED <<pc, tasks, scan, call, out, wi, worker, stored, have, writers>>
  BY DEF vars
<1>2. TasksOK' /\ ControlOK'
  BY <1>1 DEF IInv, TasksOK, ControlOK
<1>3. Split' <=> Split
  BY <1>1 DEF Split
<1>4. CASE ~Split
  BY <1>1, <1>2, <1>3, <1>4 DEF IInv, NothingYet
<1>5. CASE Split
  <2>1. /\ NThreads > 1 /\ WorkersOK /\ ResultsOK /\ LoopsOK
    BY <1>5, SplitParts
  <2>2. NThreads' = NThreads /\ \A v : Begin(v)' = Begin(v) /\ End(v)' = End(v)
    BY <1>1, RangesKept
  <2>3. ResultsOK'
    BY <1>1, <2>1, ResultsKept
  <2>4. \A w \in Workers : /\ RangeOK(w) => RangeOK(w)'
                           /\ Launched(w)' <=> Launched(w)
    BY <1>1, <2>2, RangeKept DEF Launched
  <2>5. WorkersOK'
    BY <1>1, <2>1, <2>4 DEF WorkersOK
  <2>6. Compiled(wi)' = Compiled(wi)
    BY <1>1 DEF Compiled
  <2>7. LoopsOK'
    BY <1>1, <2>1, <2>2, <2>6 DEF LoopsOK
  <2> QED
    BY <1>2, <1>3, <1>5, <2>1, <2>2, <2>3, <2>5, <2>7 DEF IInv
<1> QED
  BY <1>4, <1>5

\* Every step of the caller and of the workers preserves the invariant.
LEMMA StepIInv == IInv /\ [Next]_vars => IInv'
<1> SUFFICES ASSUME IInv, [Next]_vars
             PROVE  IInv'
  OBVIOUS
<1>1. CASE Caller
  BY <1>1, CollectStep, GiveUpStep, StartThreadsStep, LaunchStep, InlineDoneStep,
     StartDoneStep, JoinStep, StoreTaskStep, StoreDoneStep DEF Caller
<1>2. ASSUME NEW w \in Workers, Worker(w)
      PROVE  IInv'
  BY <1>2, BeginTaskStep, EndTaskStep, ExitThreadStep DEF Worker
<1>3. CASE UNCHANGED vars
  BY <1>3, StutterStep
<1> QED
  BY <1>1, <1>2, <1>3 DEF Next, Finished

\* The invariant holds throughout.
LEMMA Invariance == Spec => []IInv
BY InitIInv, StepIInv, PTL DEF Spec

\* Once the caller has joined the workers every task has its result: the task
\* is in the range of a worker that ran to the end of it.
LEMMA AllFinished ==
    ASSUME IInv, Split, \A w \in Workers : worker[w].st \in {"none", "exited"},
           pc \notin {"start", "inline"}, NEW k \in DOMAIN tasks
    PROVE  out[k] \in {"ok", "fail"}
<1>1. TasksOK /\ ControlOK /\ NThreads > 1 /\ WorkersOK
  BY SplitParts
<1>2. PICK w \in Workers : w < NThreads /\ Begin(w) < k /\ k <= End(w)
  BY <1>1, RangesCover
<1>3. Begin(w) \in Nat /\ End(w) \in Nat /\ End(w) <= Len(tasks) /\ k \in Nat
      /\ Len(tasks) \in Nat
  BY <1>1, WorkerFacts, SplitFacts
<1>4. Launched(w)
  BY <1>2, <1>3 DEF Launched
<1>5. RangeOK(w) /\ worker[w].i = End(w)
  BY <1>1, <1>4 DEF WorkersOK, RangeOK
<1>6. k \in Begin(w) + 1 .. worker[w].i
  BY <1>2, <1>3, <1>5
<1> QED
  BY <1>5, <1>6 DEF RangeOK

\* Every result is written by one worker and is there when the caller reads it,
\* for every call graph, number of threads and failure to create one.
THEOREM ResultsAreComplete == Spec => []ResultsComplete
<1>1. ASSUME IInv
      PROVE  ResultsComplete
  <2>1. \A k, l \in DOMAIN tasks : tasks[k] = tasks[l] => k = l
    BY <1>1 DEF IInv, TasksOK
  <2>2. ASSUME NEW k \in DOMAIN writers
        PROVE  Cardinality(writers[k]) <= 1
    <3>1. Split
      BY <1>1 DEF IInv, NothingYet
    <3>2. TasksOK /\ NThreads > 1 /\ ResultsOK /\ k \in DOMAIN tasks /\ k \in Nat
      BY <1>1, <3>1, SplitParts DEF ResultsOK
    <3>3. \A v, w \in writers[k] : v = w
      BY <3>2, RangesDisjoint DEF ResultsOK
    <3>4. CASE writers[k] = {}
      BY <3>4, FS_EmptySet
    <3>5. CASE writers[k] # {}
      <4>1. PICK w : w \in writers[k]
        BY <3>5
      <4>2. writers[k] = {w}
        BY <4>1, <3>3
      <4> QED
        BY <4>2, FS_Singleton
    <3> QED
      BY <3>4, <3>5
  <2>3. ASSUME pc \in {"store", "done"}, out # <<>>
        PROVE  /\ \A k \in DOMAIN out : out[k] \in {"ok", "fail"}
               /\ \A w \in Workers : worker[w].st \in {"none", "exited"}
    <3>1. Split
      BY <2>3 DEF Split, Parallel
    <3>2. /\ \A w \in Workers : worker[w].st \in {"none", "exited"}
          /\ DOMAIN out = DOMAIN tasks
      BY <1>1, <2>3, <3>1, SplitParts DEF LoopsOK, ResultsOK
    <3> QED
      BY <1>1, <2>3, <3>1, <3>2, AllFinished
  <2> QED
    BY <2>1, <2>2, <2>3 DEF ResultsComplete
<1> QED
  BY <1>1, Invariance, PTL

-----------------------------------------------------------------------------
(***************************************************************************)
(* The refinement                                                          *)
(***************************************************************************)

\* The last join is where the tasks are compiled, as PrefetchAtomic sees it.
LEMMA LastJoinCompilesAll ==
    ASSUME IInv, IInv', Join, pc' = "store"
    PROVE  Atomic!CompileAll
<1>1. /\ pc = "join" /\ UNCHANGED <<tasks, out, stored, worker>>
  BY DEF Join
<1>2. Split' /\ ResultsOK' /\ LoopsOK'
  BY DEF IInv, Split, Parallel
<1>3. \A k \in DOMAIN tasks : out[k] \in {"ok", "fail"}
  <2>1. /\ Split /\ ResultsOK /\ DOMAIN out = DOMAIN tasks
        /\ \A w \in Workers : worker[w].st \in {"none", "exited"}
    BY <1>1, <1>2, SplitParts DEF Split, Parallel, LoopsOK, ResultsOK
  <2> QED
    BY <2>1, <1>1, AllFinished
<1>4. out \in [DOMAIN tasks -> {"new", "busy", "ok", "fail"}]
      /\ \A k \in DOMAIN tasks : tasks[k] \in Unsupported => out[k] # "ok"
  BY <1>1, <1>2 DEF ResultsOK
<1>5. out \in Atomic!Results
  BY <1>3, <1>4 DEF Atomic!Results
<1> QED
  BY <1>1, <1>5 DEF Atomic!CompileAll

\* Each step of the caller and of the workers is a step of PrefetchAtomic or
\* invisible to it.
LEMMA StepSimulation ==
    ASSUME IInv, IInv', [Next]_vars
    PROVE  [Atomic!ANext]_(Atomic!avars)
<1>1. CASE CollectCall
  <2>1. pc = "collect" /\ pc' = pc /\ UNCHANGED <<out, stored>>
    BY <1>1 DEF CollectCall, More
  <2>2. CASE tasks' = tasks
    BY <2>1, <2>2 DEF Atomic!avars
  <2>3. CASE tasks' # tasks
    <3> DEFINE f == CallGraph[tasks[scan]][call]
    <3>1. tasks' = Append(tasks, f)
      BY <1>1, <2>3 DEF CollectCall
    <3>2. f \in Funcs
      <4>1. scan \in DOMAIN tasks /\ tasks[scan] \in Funcs
        BY <1>1 DEF CollectCall, More, IInv, TasksOK, ControlOK
      <4>2. CallGraph[tasks[scan]] \in Seq(Funcs)
        BY <4>1, PrefetchAssumption
      <4> QED
        BY <4>2, <1>1 DEF CollectCall, IInv, ControlOK
    <3>3. \A k \in DOMAIN tasks : tasks[k] # f
      BY <1>1, <2>3 DEF CollectCall, Wanted, InTasks
    <3> HIDE DEF f
    <3>4. Atomic!Gather(f)
      BY <2>1, <3>1, <3>3 DEF Atomic!Gather
    <3> QED
      BY <3>2, <3>4 DEF Atomic!ANext
  <2> QED
    BY <2>2, <2>3
<1>2. CASE GiveUp
  <2>1. pc = "collect" /\ pc' = "done" /\ UNCHANGED <<tasks, out, stored>> /\ out = <<>>
    BY <1>2 DEF GiveUp, IInv, Split, Parallel, NothingYet
  <2>2. Atomic!Return
    BY <2>1 DEF Atomic!Return
  <2> QED
    BY <2>2 DEF Atomic!ANext
<1>3. CASE CollectNext \/ StartThreads \/ CreateWorker \/ RunInline \/ InlineDone \/ StartDone
  <2>1. /\ pc \in {"collect", "start", "inline", "join"}
        /\ pc' \in {"collect", "start", "inline", "join"}
        /\ UNCHANGED <<tasks, stored>>
    BY <1>3 DEF CollectNext, More, StartThreads, CreateWorker, RunInline, Starting,
                InlineDone, StartDone
  <2> QED
    BY <2>1 DEF Atomic!avars
<1>4. CASE Join
  <2>1. CASE pc' = "store"
    BY <1>4, <2>1, LastJoinCompilesAll DEF Atomic!ANext
  <2>2. CASE pc' # "store"
    <3>1. pc = "join" /\ pc' = "join" /\ UNCHANGED <<tasks, stored>>
      BY <1>4, <2>2 DEF Join
    <3> QED
      BY <3>1 DEF Atomic!avars
  <2> QED
    BY <2>1, <2>2
<1>5. CASE StoreTask
  <2>1. /\ pc = "store" /\ pc' = pc /\ wi < Len(tasks) /\ UNCHANGED <<tasks, out>>
        /\ stored' = IF out[wi + 1] = "ok" THEN Append(stored, tasks[wi + 1]) ELSE stored
    BY <1>5 DEF StoreTask
  <2>2. CASE out[wi + 1] # "ok"
    BY <2>1, <2>2 DEF Atomic!avars
  <2>3. CASE out[wi + 1] = "ok"
    <3>1. Split
      BY <2>1 DEF Split, Parallel
    <3>2. /\ TasksOK /\ ControlOK /\ LoopsOK /\ Len(tasks) \in Nat /\ DOMAIN tasks = 1 .. Len(tasks)
      BY <3>1, SplitParts
    <3>3. /\ wi \in Nat \ {0} /\ Elements(stored) = Compiled(wi)
      BY <3>2, <2>1 DEF ControlOK, LoopsOK
    <3>4. wi + 1 \in DOMAIN tasks /\ wi + 1 > 1 /\ tasks[wi + 1] \in Funcs
      BY <3>2, <3>3, <2>1 DEF TasksOK
    <3>5. tasks[wi + 1] \in Atomic!Compiled
      BY <2>1, <2>3, <3>4 DEF Atomic!Compiled
    <3>6. tasks[wi + 1] \notin Atomic!InCache
      BY <2>1, <3>2, <3>3, CompiledNext DEF Atomic!InCache, Elements
    <3>7. Atomic!Store(tasks[wi + 1])
      BY <2>1, <2>3, <3>5, <3>6 DEF Atomic!Store
    <3> QED
      BY <3>4, <3>7 DEF Atomic!ANext
  <2> QED
    BY <2>2, <2>3
<1>6. CASE StoreDone
  <2>1. pc = "store" /\ pc' = "done" /\ wi = Len(tasks) /\ UNCHANGED <<tasks, out, stored>>
    BY <1>6 DEF StoreDone
  <2>2. Elements(stored) = Compiled(Len(tasks)) /\ DOMAIN tasks = 1 .. Len(tasks) /\ Len(tasks) \in Nat
    BY <2>1, SplitParts DEF Split, Parallel, LoopsOK
  <2>3. Atomic!InCache = Atomic!Compiled
    <3>1. {i \in DOMAIN tasks : i > 1 /\ out[i] = "ok"} = {i \in 2 .. Len(tasks) : out[i] = "ok"}
      BY <2>2
    <3> QED
      BY <2>1, <2>2, <3>1 DEF Atomic!InCache, Atomic!Compiled, Elements, Compiled
  <2>4. Atomic!Return
    BY <2>1, <2>3 DEF Atomic!Return
  <2> QED
    BY <2>4 DEF Atomic!ANext
<1>7. ASSUME NEW w \in Workers, Worker(w)
      PROVE  [Atomic!ANext]_(Atomic!avars)
  <2>1. worker[w].on \/ worker[w].st \in {"thread", "inline"}
    BY <1>7 DEF Worker, BeginTask, EndTask, ExitThread
  <2>2. pc \in {"start", "inline", "join"}
    BY <2>1, AtWork
  <2>3. UNCHANGED <<pc, tasks, stored>>
    BY <1>7 DEF Worker, BeginTask, EndTask, ExitThread
  <2> QED
    BY <2>2, <2>3 DEF Atomic!avars
<1>8. CASE UNCHANGED vars
  BY <1>8 DEF vars, Atomic!avars
<1> QED
  BY <1>1, <1>2, <1>3, <1>4, <1>5, <1>6, <1>7, <1>8 DEF Next, Caller, Finished

\* materialize_prefetch_module_functions does what PrefetchAtomic promises its
\* caller: threads are not visible, every task is compiled exactly once, and
\* everything that compiled is in the cache, once each, when the call returns.
THEOREM PrefetchImplementsAtomic == Spec => AtomicSpec
<1>1. Init => Atomic!AInit
  BY DEF Init, Atomic!AInit
<1>2. IInv /\ IInv' /\ [Next]_vars => [Atomic!ANext]_(Atomic!avars)
  BY StepSimulation
<1> QED
  BY <1>1, <1>2, Invariance, PTL DEF Spec, AtomicSpec, Atomic!ASpec
=============================================================================
