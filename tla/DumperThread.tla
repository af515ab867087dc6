---------------------------- MODULE DumperThread ----------------------------
(***************************************************************************)
(* The pool of threads that dumps packages (src/dumper_thread.c), in the   *)
(* default mode, and the part of main() that waits for the pool and sets   *)
(* the package counts (src/createrepo_c.c).                                *)
(*                                                                         *)
(* A task is one rpm file; its id is its place in the output.  Workers     *)
(* take tasks in the order of the ids, read the packages at their own      *)
(* pace, and must append to every metadata file in the order of the ids:   *)
(* a worker whose turn it is not either leaves its package in a bounded,   *)
(* sorted buffer or waits on the condition variable of the file.  Whoever  *)
(* has written something then empties the buffer as far as it can.         *)
(***************************************************************************)
EXTENDS Naturals, Sequences, FiniteSets

CONSTANTS
    Workers,        \* the threads of the pool
    TaskCount,      \* udata->task_count
    MaxBuffer,      \* MAX_TASK_BUFFER_LEN
    FilelistsExt,   \* udata->filelists_ext
    Update,         \* --update without --skip-stat: the file is stat()ed first
    MaxFails,       \* bound: how many chunks or records may fail to be added
    Srpm            \* rpm_sourcerpm of the package of each task

ASSUME DumperAssumption ==
    /\ IsFiniteSet(Workers)
    /\ Workers # {}
    /\ TaskCount \in Nat
    /\ MaxBuffer \in Nat
    /\ MaxFails \in Nat
    /\ {FilelistsExt, Update} \subseteq BOOLEAN
    /\ DOMAIN Srpm = 0 .. TaskCount - 1

Tasks == 0 .. TaskCount - 1

\* The files in the order in which write_pkg takes their mutexes: primary is
\* the first, other the last, filelists-ext is there only on request.
NStreams == IF FilelistsExt THEN 4 ELSE 3
Streams  == 1 .. NStreams
Pri      == 1
Oth      == NStreams

NoSrpm == "NULL"

VARIABLES
    next,           \* the head of the pool's queue of tasks
    pc,             \* per worker: where it is in cr_dumper_thread
    task,           \* per worker: the id of its PoolTask
    wid,            \* per worker: the id write_pkg or wait_for_incremented_ids got
    writing,        \* per worker: is it in write_pkg (or only passing the turn)?
    stream,         \* per worker: the file it is at
    newPkg,         \* per worker: the local new_pkg of write_pkg
    fate,           \* per task: what the worker that read it found out
    id,             \* per file: id_pri, id_fil, id_fex, id_oth
    buffer,         \* ids of the buffered tasks (the queue is sorted by id)
    curSrpm,        \* udata->cur_srpm
    packageCount,   \* udata->package_count
    hadErrors,      \* udata->had_errors
    written,        \* per file: the ids of the chunks in it
    chunkEnds,      \* per file: the ids before which its zchunk was ended
    lost,           \* <<file, id>>: a chunk or a database record not added
    mainPc,         \* "wait" for the pool, then "done"
    header,         \* per file: the number of packages its header declares
    exitVal         \* what main() exits with

workerVars == <<pc, task, wid, writing, stream, newPkg>>
outputVars == <<written, chunkEnds, lost>>
mainVars   == <<mainPc, header, exitVal>>
vars == <<next, workerVars, fate, id, buffer, curSrpm, packageCount, hadErrors,
          outputVars, mainVars>>

Init ==
    /\ next = 0
    /\ pc = [w \in Workers |-> "idle"]
    /\ task = [w \in Workers |-> 0]
    /\ wid = [w \in Workers |-> 0]
    /\ writing = [w \in Workers |-> FALSE]
    /\ stream = [w \in Workers |-> Pri]
    /\ newPkg = [w \in Workers |-> FALSE]
    /\ fate = [t \in Tasks |-> "pending"]
    /\ id = [s \in Streams |-> 0]
    /\ buffer = {}
    /\ curSrpm = NoSrpm
    /\ packageCount = 0
    /\ hadErrors = FALSE
    /\ written = [s \in Streams |-> <<>>]
    /\ chunkEnds = [s \in Streams |-> {}]
    /\ lost = {}
    /\ mainPc = "wait"
    /\ header = [s \in Streams |-> TaskCount]
    /\ exitVal = 0

-----------------------------------------------------------------------------
(* Locks.  mutex_buffer is held between the test of BufferCheck and the    *)
(* insertion; a file's mutex while its worker is at "critical".  The       *)
(* definitions named Mutant_... are bugs this code could have had: no      *)
(* specification uses them, each stands for the definition after it and    *)
(* breaks a property below.                                                *)

\* mutex_buffer is given back between the test and the insertion.
Mutant_BufferFree == TRUE

BufferFree == \A w \in Workers : pc[w] # "insert"
MutexFree(s) == \A w \in Workers : ~(pc[w] = "critical" /\ stream[w] = s)

\* A call of write_pkg (wr) or of wait_for_incremented_ids (~wr) for task t.
StartTurn(w, t, wr) ==
    /\ pc' = [pc EXCEPT ![w] = "acquire"]
    /\ wid' = [wid EXCEPT ![w] = t]
    /\ writing' = [writing EXCEPT ![w] = wr]
    /\ stream' = [stream EXCEPT ![w] = Pri]

-----------------------------------------------------------------------------
(* Reading a package.                                                      *)

TasksLeft == next < TaskCount

Take(w) ==
    /\ pc[w] = "idle"
    /\ TasksLeft
    /\ next' = next + 1
    /\ task' = [task EXCEPT ![w] = next]
    /\ pc' = [pc EXCEPT ![w] = "load"]
    /\ UNCHANGED <<wid, writing, stream, newPkg, fate, id, buffer, curSrpm,
                   packageCount, hadErrors, outputVars, mainVars>>

\* The package was read, and its XML generated.
LoadOk(w) ==
    /\ pc[w] = "load"
    /\ fate' = [fate EXCEPT ![task[w]] = "dump"]
    /\ pc' = [pc EXCEPT ![w] = "check"]
    /\ UNCHANGED <<next, task, wid, writing, stream, newPkg, id, buffer,
                   curSrpm, packageCount, hadErrors, outputVars, mainVars>>

\* load_rpm or cr_xml_dump failed.
LoadFails(w) ==
    /\ pc[w] = "load"
    /\ fate' = [fate EXCEPT ![task[w]] = "skip"]
    /\ hadErrors' = TRUE
    /\ pc' = [pc EXCEPT ![w] = "cleanup"]
    /\ UNCHANGED <<next, task, wid, writing, stream, newPkg, id, buffer,
                   curSrpm, packageCount, outputVars, mainVars>>

\* stat() failed: only logged.
StatFails(w) ==
    /\ pc[w] = "load"
    /\ Update
    /\ fate' = [fate EXCEPT ![task[w]] = "skip"]
    /\ pc' = [pc EXCEPT ![w] = "cleanup"]
    /\ UNCHANGED <<next, task, wid, writing, stream, newPkg, id, buffer,
                   curSrpm, packageCount, hadErrors, outputVars, mainVars>>

-----------------------------------------------------------------------------
(* Buffering.  id[Pri] is read under mutex_buffer but changed under        *)
(* mutex_pri.                                                              *)

MayBuffer(t) ==
    /\ Cardinality(buffer) < MaxBuffer
    /\ id[Pri] # t
    /\ TaskCount > t + 1

BufferCheck(w) ==
    /\ pc[w] = "check"
    /\ BufferFree
    /\ IF MayBuffer(task[w])
         THEN /\ pc' = [pc EXCEPT ![w] = "insert"]
              /\ UNCHANGED <<wid, writing, stream>>
         ELSE StartTurn(w, task[w], TRUE)
    /\ UNCHANGED <<next, task, newPkg, fate, id, buffer, curSrpm,
                   packageCount, hadErrors, outputVars, mainVars>>

BufferInsert(w) ==
    /\ pc[w] = "insert"
    /\ buffer' = buffer \union {task[w]}
    /\ pc' = [pc EXCEPT ![w] = "idle"]
    /\ UNCHANGED <<next, task, wid, writing, stream, newPkg, fate, id, curSrpm,
                   packageCount, hadErrors, outputVars, mainVars>>

-----------------------------------------------------------------------------
(* The turn: one critical section per file, entered in the order of ids.   *)

\* The source rpm is compared with the one just stored, never the previous.
Mutant_NewPkg(t) == FALSE
\* The package comes from another source rpm than the one dumped before it.
NewPkg(t) == curSrpm # Srpm[t]

Counted(w) == writing[w] /\ stream[w] = Pri

\* What write_pkg does under mutex_pri before it writes.
CountPackage(w) ==
    IF Counted(w)
      THEN /\ packageCount' = packageCount + 1
           /\ curSrpm' = Srpm[wid[w]]
           /\ newPkg' = [newPkg EXCEPT ![w] = NewPkg(wid[w])]
      ELSE UNCHANGED <<packageCount, curSrpm, newPkg>>

\* Only the mutex of primary is waited for in order.
Mutant_IsTurn(w) == stream[w] = Pri => id[Pri] = wid[w]
IsTurn(w) == id[stream[w]] = wid[w]

\* It is this worker's turn: the counter moves on before the data is written.
Enter(w) ==
    /\ pc[w] = "acquire"
    /\ MutexFree(stream[w])
    /\ IsTurn(w)
    /\ id' = [id EXCEPT ![stream[w]] = @ + 1]
    /\ CountPackage(w)
    /\ pc' = [pc EXCEPT ![w] = "critical"]
    /\ UNCHANGED <<next, task, wid, writing, stream, fate, buffer, hadErrors,
                   outputVars, mainVars>>

\* It is not: g_cond_wait gives the mutex back.
Wait(w) ==
    /\ pc[w] = "acquire"
    /\ MutexFree(stream[w])
    /\ ~IsTurn(w)
    /\ pc' = [pc EXCEPT ![w] = "waiting"]
    /\ UNCHANGED <<next, task, wid, writing, stream, newPkg, fate, id, buffer,
                   curSrpm, packageCount, hadErrors, outputVars, mainVars>>

\* g_cond_wait may return without a broadcast.
SpuriousWakeup(w) ==
    /\ pc[w] = "waiting"
    /\ pc' = [pc EXCEPT ![w] = "acquire"]
    /\ UNCHANGED <<next, task, wid, writing, stream, newPkg, fate, id, buffer,
                   curSrpm, packageCount, hadErrors, outputVars, mainVars>>

\* Where a worker goes when it leaves a file.
AfterStream(w) ==
    CASE stream[w] < NStreams -> "acquire"
      [] stream[w] = NStreams /\ writing[w] /\ wid[w] = task[w] -> "cleanup"
      [] OTHER -> "drain"

\* The mutex is unlocked without a broadcast.
Mutant_Broadcast(w) == pc' = [pc EXCEPT ![w] = AfterStream(w)]

\* g_cond_broadcast and g_mutex_unlock.
Broadcast(w) ==
    pc' = [v \in Workers |->
             IF v = w THEN AfterStream(w)
             ELSE IF pc[v] = "waiting" /\ stream[v] = stream[w] THEN "acquire"
             ELSE pc[v]]

MayFail == Cardinality(lost) < MaxFails

\* Adding the chunk or the database record can fail; the error of the other
\* database is not asked for (cr_db_add_pkg gets NULL), the rest set had_errors.
AddChunks(w, xmlOk, dbOk) ==
    LET s == stream[w]
    IN  /\ written' = IF xmlOk THEN [written EXCEPT ![s] = Append(@, wid[w])]
                               ELSE written
        /\ chunkEnds' = IF newPkg[w]
                          THEN [chunkEnds EXCEPT ![s] = @ \union {wid[w]}]
                          ELSE chunkEnds
        /\ lost' = IF xmlOk /\ dbOk THEN lost ELSE lost \union {<<s, wid[w]>>}
        /\ hadErrors' = (hadErrors \/ ~xmlOk \/ (~dbOk /\ s # Oth))

Leave(w) ==
    /\ pc[w] = "critical"
    /\ IF writing[w]
         THEN \E xmlOk, dbOk \in {TRUE, ~MayFail} : AddChunks(w, xmlOk, dbOk)
         ELSE UNCHANGED <<outputVars, hadErrors>>
    /\ Broadcast(w)
    /\ stream' = [stream EXCEPT ![w] = IF @ < NStreams THEN @ + 1 ELSE Pri]
    /\ UNCHANGED <<next, task, wid, writing, newPkg, fate, id, buffer, curSrpm,
                   packageCount, mainVars>>

-----------------------------------------------------------------------------
(* After the own task: pass the turn on if it was not used, then drain.    *)

Cleanup(w) ==
    /\ pc[w] = "cleanup"
    /\ IF id[Pri] <= task[w]
         THEN StartTurn(w, task[w], FALSE)
         ELSE /\ pc' = [pc EXCEPT ![w] = "drain"]
              /\ UNCHANGED <<wid, writing, stream>>
    /\ UNCHANGED <<next, task, newPkg, fate, id, buffer, curSrpm,
                   packageCount, hadErrors, outputVars, mainVars>>

\* t is the head of the sorted queue.
IsHead(t) == t \in buffer /\ \A u \in buffer : t <= u

Drain(w) ==
    /\ pc[w] = "drain"
    /\ BufferFree
    /\ IF IsHead(id[Pri])
         THEN /\ StartTurn(w, id[Pri], TRUE)
              /\ buffer' = buffer \ {id[Pri]}
         ELSE /\ pc' = [pc EXCEPT ![w] = "idle"]
              /\ UNCHANGED <<wid, writing, stream, buffer>>
    /\ UNCHANGED <<next, task, newPkg, fate, id, curSrpm, packageCount,
                   hadErrors, outputVars, mainVars>>

-----------------------------------------------------------------------------
(* main(): g_thread_pool_free returns when the queue is empty and every    *)
(* worker is idle; the headers, written with the task count, are rewritten *)
(* when some task was not dumped (the rewriting of a file may fail).       *)

PoolFinished ==
    /\ next = TaskCount
    /\ \A w \in Workers : pc[w] = "idle"

Finish ==
    /\ mainPc = "wait"
    /\ PoolFinished
    /\ mainPc' = "done"
    /\ \E failed \in SUBSET (IF MayFail /\ packageCount # TaskCount
                             THEN Streams ELSE {}) :
         /\ header' = [s \in Streams |->
                         IF s \in failed THEN header[s] ELSE packageCount]
         /\ exitVal' = IF hadErrors \/ failed # {} THEN 2 ELSE 0
    /\ UNCHANGED <<next, workerVars, fate, id, buffer, curSrpm, packageCount,
                   hadErrors, outputVars>>

Terminated == mainPc = "done" /\ UNCHANGED vars

-----------------------------------------------------------------------------
Worker(w) ==
    \/ Take(w) \/ LoadOk(w) \/ LoadFails(w) \/ StatFails(w)
    \/ BufferCheck(w) \/ BufferInsert(w)
    \/ Enter(w) \/ Wait(w) \/ Leave(w)
    \/ Cleanup(w) \/ Drain(w)

Next ==
    \/ \E w \in Workers : Worker(w) \/ SpuriousWakeup(w)
    \/ Finish
    \/ Terminated

Spec == Init /\ [][Next]_vars

\* Every thread is scheduled; nothing is promised about spurious wakeups.
Fairness == WF_vars(Finish) /\ \A w \in Workers : WF_vars(Worker(w))

FairSpec == Spec /\ Fairness

-----------------------------------------------------------------------------
(* Properties.                                                             *)

\* Every variable stays in its range: no counter passes the number of tasks.
TypeOK ==
    /\ next \in 0 .. TaskCount
    /\ pc \in [Workers -> {"idle", "load", "check", "insert", "acquire",
                           "waiting", "critical", "cleanup", "drain"}]
    /\ task \in [Workers -> Nat]
    /\ \A w \in Workers : pc[w] # "idle" => task[w] \in Tasks
    /\ wid \in [Workers -> Nat]
    /\ writing \in [Workers -> BOOLEAN]
    /\ stream \in [Workers -> Streams]
    /\ newPkg \in [Workers -> BOOLEAN]
    /\ fate \in [Tasks -> {"pending", "dump", "skip"}]
    /\ id \in [Streams -> 0 .. TaskCount]
    /\ buffer \subseteq Tasks
    /\ packageCount \in Nat
    /\ hadErrors \in BOOLEAN
    /\ written \in [Streams -> Seq(Tasks)]
    /\ chunkEnds \in [Streams -> SUBSET Tasks]
    /\ lost \subseteq Streams \X Tasks
    /\ mainPc \in {"wait", "done"}
    /\ header \in [Streams -> Nat]
    /\ exitVal \in {0, 2}

\* How many tasks a file has accounted for.  The counter is moved on before
\* the chunk is added, so it is one ahead inside the critical section.
Accounted(s) == IF MutexFree(s) THEN id[s] ELSE id[s] - 1

\* The ids of the chunks of a file ascend, whatever order the workers finish
\* reading in: the output does not depend on the scheduling (write_pkg).
InOrder ==
    \A s \in Streams : \A i, j \in DOMAIN written[s] :
        i < j => written[s][i] < written[s][j]

\* A file contains exactly the readable packages among the tasks it has
\* accounted for, so every chunk it lacks is one whose write failed: nothing
\* is left behind in the buffer, written twice, or dropped by the hand-over
\* of a worker's turn after an error (write_pkg, wait_for_incremented_ids).
Complete ==
    \A s \in Streams : \A t \in Tasks :
        LET there == \E i \in DOMAIN written[s] : written[s][i] = t
        IN  /\ there => t < Accounted(s) /\ fate[t] = "dump"
            /\ t < Accounted(s) /\ fate[t] = "dump" => there \/ <<s, t>> \in lost
            /\ t < Accounted(s) => fate[t] # "pending"

\* The buffer never holds more than MAX_TASK_BUFFER_LEN packages, although
\* the length is tested and the package inserted in two steps.
BufferBounded == Cardinality(buffer) <= MaxBuffer

\* The packages dumped before t, and the source rpm of the last of such.
DumpedBefore(t) == {u \in Tasks : u < t /\ fate[u] = "dump"}
SrpmOfLast(S) ==
    IF S = {} THEN NoSrpm ELSE Srpm[CHOOSE u \in S : \A v \in S : v <= u]
PrevSrpm(t) == SrpmOfLast(DumpedBefore(t))

\* The zchunks of all the files are cut at the same packages, those whose
\* source rpm is not that of the package dumped before them, although the
\* comparison is made once, under the mutex of primary (write_pkg).
ChunkBoundaries ==
    \A s \in Streams : \A t \in Tasks :
        t < Accounted(s) =>
            (t \in chunkEnds[s] <=> fate[t] = "dump" /\ PrevSrpm(t) # Srpm[t])

\* A run that reports success leaves headers that declare the number of
\* packages the files contain, for any mix of skipped tasks, failed writes
\* and failed rewritings (main, cr_rewrite_pkg_count_thread).
HeadersMatch ==
    mainPc = "done" /\ exitVal = 0 =>
        \A s \in Streams : header[s] = Len(written[s])

\* What write_pkg makes of one package agrees over all files: zchunks end at the
\* same packages, and after a successful run each header declares what follows.
FilesAgree == ChunkBoundaries /\ HeadersMatch

\* The pool always empties its queue and its buffer and every worker finds
\* its way out: no lost wakeup, no turn that nobody takes.
Termination == <>(mainPc = "done")

\* The pool implements the sequential order of OrderedDump: its locks, its
\* buffer and its counters are invisible in what the files receive.
Abstract == INSTANCE OrderedDump WITH pos <- [s \in Streams |-> Accounted(s)],
                                      MayLose <- MaxFails # 0
ImplementsOrderedDump == Abstract!Spec
=============================================================================
