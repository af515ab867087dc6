----------------------------- MODULE DelayedDump -----------------------------
(***************************************************************************)
(* createrepo_c --duplicated-nevra=keep-last: the workers only collect     *)
(* the packages (src/dumper_thread.c), re-using the records of the old     *)
(* metadata under --update; when the pool has finished main() decides      *)
(* which of the packages with the same NEVRA is kept (src/createrepo_c.c)  *)
(* and the packages are dumped by one thread (cr_delayed_dump_run).        *)
(***************************************************************************)
EXTENDS Naturals, Sequences, FiniteSets

CONSTANTS
    Workers,        \* the threads of the pool
    TaskCount,      \* udata->task_count
    Nevra,          \* per task: the name-epoch-version-release-arch it holds
    BuildTime,      \* per task: time_build of its package
    Href,           \* per task: location_href, ordered as g_strcmp0 orders it
    OldHrefs,       \* keys of udata->old_metadata ({} without --update)
    Fresh,          \* tasks whose file has the mtime and size of the old record
    SkipStat,       \* udata->skip_stat
    XmlFails        \* tasks whose package cr_xml_dump rejects

Tasks == 0 .. TaskCount - 1

ASSUME DelayedDumpAssumption ==
    /\ TaskCount \in Nat
    /\ DOMAIN Nevra = Tasks
    /\ BuildTime \in [Tasks -> Nat]
    /\ Href \in [Tasks -> Nat]
    /\ Fresh \subseteq Tasks
    /\ SkipStat \in BOOLEAN
    /\ XmlFails \subseteq Tasks

Nevras == {Nevra[t] : t \in Tasks}

VARIABLES
    next,           \* the head of the pool's queue of tasks
    pc,             \* per worker: where it is in cr_dumper_thread
    task,           \* per worker: the id of its PoolTask
    oldMd,          \* the records left in udata->old_metadata
    source,         \* per task: where dtask->pkg came from, or "NULL"
    nevraTable,     \* udata->nevra_table: per NEVRA, the tasks in order of arrival
    hadErrors,      \* udata->had_errors
    mainPc,         \* main(): "pool", "dump", "done"
    skipDump,       \* the tasks whose package has skip_dump set
    header,         \* the number of packages the headers declare
    current,        \* the id cr_delayed_dump_run is at
    id,             \* id_pri, id_fil, ...: only main() moves them, together
    written,        \* the ids of the chunks in every metadata file
    exitVal

poolVars == <<next, pc, task, oldMd, source, nevraTable>>
dumpVars == <<skipDump, header, current, id, written, exitVal>>
vars == <<poolVars, hadErrors, mainPc, dumpVars>>

Init ==
    /\ next = 0
    /\ pc = [w \in Workers |-> "idle"]
    /\ task = [w \in Workers |-> 0]
    /\ oldMd = OldHrefs
    /\ source = [t \in Tasks |-> "NULL"]
    /\ nevraTable = [n \in Nevras |-> <<>>]
    /\ hadErrors = FALSE
    /\ mainPc = "pool"
    /\ skipDump = {}
    /\ header = 0
    /\ current = 0
    /\ id = 0
    /\ written = <<>>
    /\ exitVal = 0

-----------------------------------------------------------------------------
(* The workers.                                                            *)

TasksLeft == next < TaskCount

Take(w) ==
    /\ pc[w] = "idle"
    /\ TasksLeft
    /\ next' = next + 1
    /\ task' = [task EXCEPT ![w] = next]
    /\ pc' = [pc EXCEPT ![w] = "start"]
    /\ UNCHANGED <<oldMd, source, nevraTable, hadErrors, mainPc, dumpVars>>

\* stat() fails in an update: the task is given up, which is only logged.
StatFails(w) ==
    /\ pc[w] = "start"
    /\ OldHrefs # {} /\ ~SkipStat
    /\ pc' = [pc EXCEPT ![w] = "idle"]
    /\ UNCHANGED <<next, task, oldMd, source, nevraTable, hadErrors, mainPc,
                   dumpVars>>

\* The record is looked up and left for the other threads to find.
Mutant_Steal(w) == UNCHANGED oldMd
\* The record, if there is one, is removed in the same critical section,
\* whether or not it turns out to be usable.
Steal(w) == oldMd' = oldMd \ {Href[task[w]]}

\* mutex_old_md: look the old record up; it is used if the file is unchanged.
LookUp(w) ==
    /\ pc[w] = "start"
    /\ Steal(w)
    /\ IF Href[task[w]] \in oldMd /\ (SkipStat \/ task[w] \in Fresh)
         THEN /\ source' = [source EXCEPT ![task[w]] = "old"]
              /\ pc' = [pc EXCEPT ![w] = "collect"]
         ELSE /\ pc' = [pc EXCEPT ![w] = "load"]
              /\ UNCHANGED source
    /\ UNCHANGED <<next, task, nevraTable, hadErrors, mainPc, dumpVars>>

LoadOk(w) ==
    /\ pc[w] = "load"
    /\ source' = [source EXCEPT ![task[w]] = "file"]
    /\ pc' = [pc EXCEPT ![w] = "collect"]
    /\ UNCHANGED <<next, task, oldMd, nevraTable, hadErrors, mainPc, dumpVars>>

LoadFails(w) ==
    /\ pc[w] = "load"
    /\ hadErrors' = TRUE
    /\ pc' = [pc EXCEPT ![w] = "idle"]
    /\ UNCHANGED <<next, task, oldMd, source, nevraTable, mainPc, dumpVars>>

\* mutex_nevra_table: the package is filed under its NEVRA, in order of arrival.
Collect(w) ==
    /\ pc[w] = "collect"
    /\ nevraTable' = [nevraTable EXCEPT ![Nevra[task[w]]] = Append(@, task[w])]
    /\ pc' = [pc EXCEPT ![w] = "idle"]
    /\ UNCHANGED <<next, task, oldMd, source, hadErrors, mainPc, dumpVars>>

-----------------------------------------------------------------------------
(* main(): duplicates, headers and the delayed dump.                       *)

\* The packages of a NEVRA are sorted by location.
Mutant_Before(t, u) == Href[t] < Href[u]
\* buildtimesort: the packages of a NEVRA by build time, then by location.
\* Build times are seconds, and their differences fit into an int.
Before(t, u) ==
    \/ BuildTime[t] < BuildTime[u]
    \/ BuildTime[t] = BuildTime[u] /\ Href[t] < Href[u]

\* g_array_sort is stable: equal packages stay in order of arrival.
SortsAfter(locations, i, j) ==
    \/ Before(locations[j], locations[i])
    \/ ~Before(locations[i], locations[j]) /\ j < i

\* handle_nevra_duplicates: all but the last one are skipped.
Skipped(locations) ==
    {locations[i] : i \in {i \in DOMAIN locations :
        \E j \in DOMAIN locations : j # i /\ SortsAfter(locations, j, i)}}

\* main(): the tasks without the skipped packages.
HeaderCount(skipped) == TaskCount - Cardinality(skipped)

ResolveDuplicates ==
    /\ mainPc = "pool"
    /\ next = TaskCount
    /\ \A w \in Workers : pc[w] = "idle"
    /\ skipDump' = UNION {Skipped(nevraTable[n]) : n \in Nevras}
    /\ header' = HeaderCount(skipDump')
    /\ mainPc' = "dump"
    /\ UNCHANGED <<poolVars, hadErrors, current, id, written, exitVal>>

\* skip_dump is set and never looked at.
Mutant_Selected(t) == source[t] # "NULL"
Selected(t) == source[t] # "NULL" /\ t \notin skipDump

\* A task without a package, or with a skipped one: the turn is passed on.
PassOver ==
    /\ mainPc = "dump"
    /\ current < TaskCount
    /\ ~Selected(current)
    /\ id = current
    /\ id' = id + 1
    /\ current' = current + 1
    /\ UNCHANGED <<poolVars, hadErrors, mainPc, skipDump, header, written, exitVal>>

Dump ==
    /\ mainPc = "dump"
    /\ current < TaskCount
    /\ Selected(current)
    /\ current \notin XmlFails
    /\ id = current
    /\ id' = id + 1
    /\ written' = Append(written, current)
    /\ current' = current + 1
    /\ UNCHANGED <<poolVars, hadErrors, mainPc, skipDump, header, exitVal>>

\* cr_xml_dump fails: the loop goes on, but nobody moves the counters on.
XmlError ==
    /\ mainPc = "dump"
    /\ current < TaskCount
    /\ Selected(current)
    /\ current \in XmlFails
    /\ hadErrors' = TRUE
    /\ current' = current + 1
    /\ UNCHANGED <<poolVars, mainPc, skipDump, header, id, written, exitVal>>

\* The headers are rewritten if they do not match package_count.
FinalCount == IF header # Len(written) THEN Len(written) ELSE header

Finish ==
    /\ mainPc = "dump"
    /\ current = TaskCount
    /\ header' = FinalCount
    /\ exitVal' = IF hadErrors THEN 2 ELSE 0
    /\ mainPc' = "done"
    /\ UNCHANGED <<poolVars, hadErrors, skipDump, current, id, written>>

Terminated == mainPc = "done" /\ UNCHANGED vars

-----------------------------------------------------------------------------
Worker(w) ==
    \/ Take(w) \/ StatFails(w) \/ LookUp(w)
    \/ LoadOk(w) \/ LoadFails(w) \/ Collect(w)

Main == ResolveDuplicates \/ PassOver \/ Dump \/ XmlError \/ Finish

Next ==
    \/ \E w \in Workers : Worker(w)
    \/ Main
    \/ Terminated

Spec == Init /\ [][Next]_vars

\* Every thread is scheduled.
Fairness == WF_vars(Main) /\ \A w \in Workers : WF_vars(Worker(w))

FairSpec == Spec /\ Fairness

-----------------------------------------------------------------------------
(* Properties.                                                             *)

\* A record of the old metadata becomes the package of at most one task, even
\* when two tasks have the same location: it is modified destructively.
OldUsedOnce ==
    \A t, u \in Tasks :
        source[t] = "old" /\ source[u] = "old" /\ Href[t] = Href[u] => t = u

\* Of the packages that could be collected and share a NEVRA, exactly one is
\* kept, and none of the others was built later: the choice does not depend
\* on the order in which the workers collected them.
KeepsLast ==
    mainPc = "done" =>
        \A n \in Nevras :
            LET group == {t \in Tasks : Nevra[t] = n /\ source[t] # "NULL"}
                kept  == group \ skipDump
            IN  /\ group # {} => Cardinality(kept) = 1
                /\ \A t \in kept, u \in group :
                      \/ BuildTime[t] > BuildTime[u]
                      \/ BuildTime[t] = BuildTime[u] /\ Href[t] >= Href[u]

\* The dump is in the order of the tasks, and every package collected is in
\* it, unless a duplicate replaces it or its XML cannot be generated.
DumpedInOrder ==
    /\ \A i, j \in DOMAIN written : i < j => written[i] < written[j]
    /\ mainPc = "done" =>
          {written[i] : i \in DOMAIN written}
             = {t \in Tasks : source[t] # "NULL"} \ (skipDump \union XmlFails)

\* The headers end up declaring the number of packages in the files, and
\* when nothing failed they did so before the first package was written: no
\* file has to be rewritten because duplicates were left out.
HeadersMatch ==
    /\ mainPc = "done" => header = Len(written)
    /\ mainPc = "dump" /\ current = TaskCount /\ ~hadErrors
          /\ (\A t \in Tasks : source[t] # "NULL")
          => header = Len(written)

\* All items are processed in the delayed run: it comes to its end.
Termination == <>(mainPc = "done")

\* The files of --duplicated-nevra=keep-last hold the selected packages in the
\* order of the delayed dump, and the header that was written before it declares
\* as many (cr_delayed_dump_run, main).
DumpedRight == DumpedInOrder /\ HeadersMatch
=============================================================================
