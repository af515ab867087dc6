------------------------------ MODULE DeltaRpms ------------------------------
(***************************************************************************)
(* createrepo_c --deltas, the generation of the delta rpms                 *)
(* (cr_deltarpms_parallel_deltas in src/deltarpms.c).  One thread hands    *)
(* the target packages to a pool, the largest one that fits first, under   *)
(* two limits: the number of threads, and the size of the packages in      *)
(* work.  It decides on a snapshot of the two counters and sleeps on one   *)
(* condition variable when it can hand out nothing.  A thread of the pool  *)
(* makes, from each directory of old packages, up to NumDeltas deltas.     *)
(*                                                                         *)
(* An old package is one file in one directory.  What librpm makes of two  *)
(* packages is not modelled, only that it may fail; an old package that    *)
(* cannot be read counts as one of which no delta can be made, as both are *)
(* passed over alike.                                                      *)
(***************************************************************************)
EXTENDS Integers, Sequences, FiniteSets, FiniteSetsExt

CONSTANTS
    Workers,        \* the threads of the pool
    Targets,        \* the packages cr_dumper_thread has collected
    Size,           \* size_installed of the targets
    MaxDelta,       \* max_delta_rpm_size
    MaxWork,        \* max_work_size
    NumDeltas,      \* num_deltas
    OldDirs,        \* the --oldpackagedirs
    OldRpms,        \* the files in them that are named as packages are: the
                    \* name of the package first and .rpm last
    Dir,            \* the directory of an old package
    FileSize,       \* st_size of an old package
    NameArch,       \* name and architecture of the targets and old packages
    NoTarget,       \* no target
    Evr             \* the rank of their epoch-version-release in cr_cmp_evr

\* createrepo_c passes max_delta_rpm_size for both limits (src/createrepo_c.c),
\* and its option parser replaces a number of workers outside 1..100.
ASSUME DeltaRpmsAssumption ==
    /\ IsFiniteSet(Workers) /\ Workers # {}
    /\ IsFiniteSet(Targets) /\ NoTarget \notin Targets
    /\ Size \in [Targets -> Nat]
    /\ MaxDelta \in Nat /\ MaxWork \in Nat /\ MaxDelta <= MaxWork
    /\ NumDeltas \in Int
    /\ Dir \in [OldRpms -> OldDirs]
    /\ FileSize \in [OldRpms -> Nat]
    /\ \A r \in Targets \union OldRpms : Evr[r] \in Int

VARIABLES
    mainPc,         \* where cr_deltarpms_parallel_deltas is
    targets,        \* the targets not handed out yet
    activeSize,     \* user_data.active_work_size
    activeTasks,    \* user_data.active_tasks
    snapSize,       \* the local active_work_size
    snapTasks,      \* the local active_tasks
    chosen,         \* the target counted but not pushed yet, or NoTarget
    oldPackages,    \* the old packages in the hash table
    queue,          \* the tasks pushed to the pool
    target,         \* per thread: the target of its task, or NoTarget
    dirs,           \* per thread: the directories not visited yet
    rest,           \* per thread: the candidates left in the present one
    count,          \* per thread: x, the deltas made from the present one
    made,           \* the deltas made, as pairs <<old, target>>
    failed          \* the pairs of which no delta could be made

mainVars == <<mainPc, targets, snapSize, snapTasks, chosen>>
counters == <<activeSize, activeTasks>>
work == <<target, dirs, rest, count, made, failed>>
deltaVars == <<mainVars, counters, oldPackages, queue, work>>

WorkerCount == Cardinality(Workers)

InitDelta ==
    /\ mainPc = "scan_old"
    /\ targets = {}
    /\ activeSize = 0 /\ activeTasks = 0
    /\ snapSize = 0 /\ snapTasks = 0
    /\ chosen = NoTarget
    /\ oldPackages = {}
    /\ queue = <<>>
    /\ target = [w \in Workers |-> NoTarget]
    /\ dirs = [w \in Workers |-> {}]
    /\ rest = [w \in Workers |-> {}]
    /\ count = [w \in Workers |-> 0]
    /\ made = {} /\ failed = {}

-----------------------------------------------------------------------------
(* The calling thread.                                                     *)

\* A directory that cannot be opened is skipped, and so is a large file.
ScanOld ==
    /\ mainPc = "scan_old"
    /\ \E opened \in SUBSET OldDirs :
         oldPackages' = {o \in OldRpms : Dir[o] \in opened
                                         /\ FileSize[o] <= MaxDelta}
    /\ mainPc' = "start"
    /\ UNCHANGED <<targets, snapSize, snapTasks, chosen, counters, queue, work>>

\* Without deltas to make the targets are never looked at.
Start ==
    /\ mainPc = "start"
    /\ targets' = IF NumDeltas < 1 THEN {}
                                   ELSE {t \in Targets : Size[t] < MaxDelta}
    /\ mainPc' = "push"
    /\ UNCHANGED <<snapSize, snapTasks, chosen, counters, oldPackages, queue,
                   work>>

AllBusy == activeTasks = WorkerCount

\* All threads are busy: the main thread sleeps on cond_task_finished.
SleepBusy ==
    /\ mainPc = "push"
    /\ targets # {}
    /\ AllBusy
    /\ mainPc' = "sleep_busy"
    /\ UNCHANGED <<targets, snapSize, snapTasks, chosen, counters, oldPackages,
                   queue, work>>

\* The counters are copied and the mutex released: threads that finish from
\* here on make the copies stale.
Snapshot ==
    /\ mainPc = "push"
    /\ targets # {}
    /\ ~AllBusy
    /\ snapSize' = activeSize
    /\ snapTasks' = activeTasks
    /\ mainPc' = "select"
    /\ UNCHANGED <<targets, chosen, counters, oldPackages, queue, work>>

\* The size of the package itself is forgotten.
Mutant_Fits(t) == snapSize <= MaxWork
Fits(t) == snapSize + Size[t] <= MaxWork

\* The first that fits, in the order of decreasing sizes.
Selected(t) ==
    /\ t \in targets /\ Fits(t)
    /\ \A u \in targets : Fits(u) => Size[u] <= Size[t]

Select(t) ==
    /\ mainPc = "select"
    /\ Selected(t)
    /\ activeSize' = activeSize + Size[t]
    /\ activeTasks' = activeTasks + 1
    /\ targets' = targets \ {t}
    /\ chosen' = t
    /\ mainPc' = "pushing"
    /\ UNCHANGED <<snapSize, snapTasks, oldPackages, queue, work>>

Push ==
    /\ mainPc = "pushing"
    /\ queue' = Append(queue, chosen)
    /\ chosen' = NoTarget
    /\ mainPc' = "push"
    /\ UNCHANGED <<targets, snapSize, snapTasks, counters, oldPackages, work>>

NoneFits ==
    /\ mainPc = "select"
    /\ \A t \in targets : ~Fits(t)
    /\ mainPc' = "stuck"
    /\ UNCHANGED <<targets, snapSize, snapTasks, chosen, counters, oldPackages,
                   queue, work>>

\* The thread waits as long as any task is in work.
Mutant_NothingFinished == activeTasks # 0
NothingFinished == activeTasks = snapTasks

SleepStuck ==
    /\ mainPc = "stuck"
    /\ NothingFinished
    /\ mainPc' = "sleep_stuck"
    /\ UNCHANGED <<targets, snapSize, snapTasks, chosen, counters, oldPackages,
                   queue, work>>

Retry ==
    /\ mainPc = "stuck"
    /\ ~NothingFinished
    /\ mainPc' = "push"
    /\ UNCHANGED <<targets, snapSize, snapTasks, chosen, counters, oldPackages,
                   queue, work>>

\* Where a wakeup of the main thread leads: back to the test of its loop.
Awake == CASE mainPc = "sleep_busy"  -> "push"
           [] mainPc = "sleep_stuck" -> "stuck"
           [] OTHER                  -> mainPc

SpuriousWakeup ==
    /\ mainPc \in {"sleep_busy", "sleep_stuck"}
    /\ mainPc' = Awake
    /\ UNCHANGED <<targets, snapSize, snapTasks, chosen, counters, oldPackages,
                   queue, work>>

\* g_thread_pool_free waits for the tasks that are left; the locals are gone.
Join ==
    /\ mainPc = "push"
    /\ targets = {}
    /\ queue = <<>>
    /\ \A w \in Workers : target[w] = NoTarget
    /\ mainPc' = "deltas_done"
    /\ snapSize' = 0 /\ snapTasks' = 0
    /\ UNCHANGED <<targets, chosen, counters, oldPackages, queue, work>>

-----------------------------------------------------------------------------
(* cr_delta_thread, in a thread of the pool.                               *)

Take(w) ==
    /\ target[w] = NoTarget
    /\ queue # <<>>
    /\ target' = [target EXCEPT ![w] = Head(queue)]
    /\ queue' = Tail(queue)
    /\ dirs' = [dirs EXCEPT ![w] = {Dir[o] : o \in oldPackages}]
    /\ UNCHANGED <<mainVars, counters, oldPackages, rest, count, made, failed>>

Candidates(t, d) ==
    {o \in oldPackages : Dir[o] = d /\ NameArch[o] = NameArch[t]
                         /\ Evr[o] < Evr[t]}

\* The directories come in the order of the hash table: in any order.
Visit(w, d) ==
    /\ target[w] # NoTarget
    /\ rest[w] = {}
    /\ d \in dirs[w]
    /\ dirs' = [dirs EXCEPT ![w] = @ \ {d}]
    /\ rest' = [rest EXCEPT ![w] = Candidates(target[w], d)]
    /\ count' = [count EXCEPT ![w] = 0]
    /\ UNCHANGED <<mainVars, counters, oldPackages, queue, target, made, failed>>

\* The sorted list is not reversed.
Mutant_IsNext(o, cands) == \A c \in cands : Evr[o] <= Evr[c]
\* The candidates are taken from the newest to the oldest.
IsNext(o, cands) == \A c \in cands : Evr[c] <= Evr[o]

MakeDelta(w, o) ==
    /\ o \in rest[w] /\ IsNext(o, rest[w])
    /\ made' = made \union {<<o, target[w]>>}
    /\ count' = [count EXCEPT ![w] = @ + 1]
    /\ rest' = [rest EXCEPT ![w] = IF count'[w] = NumDeltas THEN {} ELSE @ \ {o}]
    /\ UNCHANGED <<mainVars, counters, oldPackages, queue, target, dirs, failed>>

\* A failure is logged, not counted, and the next candidate is tried.
DeltaFails(w, o) ==
    /\ o \in rest[w] /\ IsNext(o, rest[w])
    /\ failed' = failed \union {<<o, target[w]>>}
    /\ rest' = [rest EXCEPT ![w] = @ \ {o}]
    /\ UNCHANGED <<mainVars, counters, oldPackages, queue, target, dirs, count,
                   made>>

\* The signal is forgotten.
Mutant_Signal == UNCHANGED mainPc
\* g_cond_signal: only the main thread can be asleep.
Signal == mainPc' = Awake

Finish(w) ==
    /\ target[w] # NoTarget
    /\ rest[w] = {} /\ dirs[w] = {}
    /\ activeSize' = activeSize - Size[target[w]]
    /\ activeTasks' = activeTasks - 1
    /\ Signal
    /\ target' = [target EXCEPT ![w] = NoTarget]
    /\ count' = [count EXCEPT ![w] = 0]
    /\ UNCHANGED <<targets, snapSize, snapTasks, chosen, oldPackages, queue,
                   dirs, rest, made, failed>>

-----------------------------------------------------------------------------
Main ==
    \/ ScanOld
    \/ Start
    \/ SleepBusy
    \/ Snapshot
    \/ \E t \in Targets : Select(t)
    \/ Push
    \/ NoneFits
    \/ SleepStuck
    \/ Retry
    \/ Join

Worker(w) ==
    \/ Take(w)
    \/ \E d \in OldDirs : Visit(w, d)
    \/ \E o \in OldRpms : MakeDelta(w, o)
    \/ \E o \in OldRpms : DeltaFails(w, o)
    \/ Finish(w)

NextDelta == Main \/ SpuriousWakeup \/ \E w \in Workers : Worker(w)

SpecDelta == InitDelta /\ [][NextDelta]_deltaVars

-----------------------------------------------------------------------------
(* Properties.                                                             *)

\* The targets counted in active_tasks and active_work_size.
InWork ==
    ({chosen} \union {queue[i] : i \in DOMAIN queue}
              \union {target[w] : w \in Workers}) \ {NoTarget}

SizeOf(S) == MapThenSumSet(LAMBDA t : Size[t], S)

\* The variables have their types, and the counters are never negative.
TypeOK ==
    /\ mainPc \in {"scan_old", "start", "push", "sleep_busy", "select",
                   "pushing", "stuck", "sleep_stuck", "deltas_done"}
    /\ targets \subseteq Targets
    /\ activeSize \in Int /\ snapSize \in Int
    /\ activeTasks \in 0 .. WorkerCount /\ snapTasks \in 0 .. WorkerCount
    /\ chosen \in Targets \union {NoTarget}
    /\ oldPackages \subseteq OldRpms
    /\ queue \in Seq(Targets)
    /\ target \in [Workers -> Targets \union {NoTarget}]
    /\ dirs \in [Workers -> SUBSET OldDirs]
    /\ rest \in [Workers -> SUBSET OldRpms]
    /\ count \in [Workers -> Nat]
    /\ made \subseteq OldRpms \X Targets
    /\ failed \subseteq OldRpms \X Targets

\* Although the main thread decides on a copy of the counters that may be
\* stale when it acts, the packages really in work never exceed max_work_size
\* and are never more than the threads of the pool.
WorkBounded ==
    /\ SizeOf(InWork) <= MaxWork
    /\ Cardinality(InWork) <= WorkerCount

\* The main thread sleeps only while it can hand out nothing: all threads are
\* busy, or nothing that is left fits beside what is in work at that moment.
SleepsOnlyWhenStuck ==
    /\ mainPc = "sleep_busy" => activeTasks = WorkerCount
    /\ mainPc = "sleep_stuck" =>
          \A t \in targets : activeSize + Size[t] > MaxWork

\* When the pool has finished, every target has been through it: from every
\* directory NumDeltas deltas were made, or all that could be, and an older
\* package was only used when the newer ones had been used or had failed.
NewestDeltas ==
    mainPc = "deltas_done" /\ NumDeltas >= 1 =>
      \A t \in Targets, d \in OldDirs : Size[t] < MaxDelta =>
        LET cands == Candidates(t, d)
            used  == {o \in cands : <<o, t>> \in made}
            tried == {o \in cands : <<o, t>> \in made \union failed}
        IN  /\ Cardinality(used) <= NumDeltas
            /\ Cardinality(used) = NumDeltas \/ tried = cands
            /\ \A o \in used, c \in cands : Evr[c] > Evr[o] => c \in tried
=============================================================================
