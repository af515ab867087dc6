------------------------------ MODULE SqliteRepo ------------------------------
(***************************************************************************)
(* sqliterepo_c: makes the databases of a repository from its XML files.   *)
(* Under the lock of createrepo_c (.repodata/, which is also where it      *)
(* works) it generates the databases and the new repomd.xml, moves them    *)
(* into repodata/, repomd.xml last, and removes the databases they         *)
(* replace.  A process may be killed, receive a terminating signal or run  *)
(* into an error at every step.                                            *)
(***************************************************************************)
EXTENDS RepoDir

CONSTANTS
    SqliteProcs,    \* sqliterepo_c processes
    DbTypes,        \* types of databases: primary_db, filelists_db, other_db
    XmlOf           \* the type of the XML that a database is made from

Nobody == "nobody"
NoRevision == ""

VARIABLES
    lockOwner,      \* who created .repodata/, nobody if there is none
    spc,            \* per process: where generate_sqlite_from_xml is
    opts,           \* per process: --force and --keep-old
    seen,           \* per process: the records of repomd.xml as it was read
    work            \* per process: the databases in .repodata/, their records,
                    \* the files to be removed in the end, and whether an error
                    \* of the compression was ignored

sqliteVars == <<lockOwner, spc, opts, seen, work>>

NoWork == [files |-> <<>>, records |-> <<>>, old |-> {}, damaged |-> FALSE]

SqliteInit ==
    /\ lockOwner = Nobody
    /\ spc  = [p \in SqliteProcs |-> "off"]
    /\ opts = [p \in SqliteProcs |-> [force |-> FALSE, keepOld |-> FALSE]]
    /\ seen = [p \in SqliteProcs |-> <<>>]
    /\ work = [p \in SqliteProcs |-> NoWork]

-----------------------------------------------------------------------------
SGoTo(p, place) == spc' = [spc EXCEPT ![p] = place]
SAt(p, place)   == spc[p] = place

\* return FALSE: main leaves with an error, and exit_cleanup runs.
Refuse(p) == SGoTo(p, "exit failed") /\ UNCHANGED <<dirVars, lockOwner, opts, seen, work>>

\* Somebody removed .repodata/ under the process: what it opens there fails.
Works(p) == lockOwner = p

SqliteStarts(p, o) ==
    /\ SAt(p, "off")
    /\ SGoTo(p, "lock")
    /\ opts' = [opts EXCEPT ![p] = o]
    /\ UNCHANGED <<dirVars, lockOwner, seen, work>>

\* cr_lock_repo, with the signals blocked until the exit handler is set.
Lock(p) ==
    /\ SAt(p, "lock")
    /\ IF lockOwner = Nobody
         THEN lockOwner' = p /\ SGoTo(p, "read")
         ELSE UNCHANGED lockOwner /\ SGoTo(p, "failed")
    /\ UNCHANGED <<dirVars, opts, seen, work>>

\* "filename_db" is asked for, so filelists_db is not found.
DbsExist(recs) == {"primary_db", "other_db"} \intersect DOMAIN recs # {}

\* repomd.xml must be readable and have a primary; without --force there must
\* be no database yet.
MayGenerate(p) ==
    /\ repomd.whole
    /\ "primary" \in DOMAIN repomd.records
    /\ DbsExist(repomd.records) => opts[p].force

ReadRepomd(p) ==
    /\ SAt(p, "read") /\ MayGenerate(p)
    /\ seen' = [seen EXCEPT ![p] = repomd.records]
    /\ SGoTo(p, "generate")
    /\ UNCHANGED <<dirVars, lockOwner, opts, work>>

-----------------------------------------------------------------------------
(* The databases, all in .repodata/, where nobody else looks.              *)

\* A database says what its XML says; one without XML says nothing.
Xml(recs, t) == IF XmlOf[t] \in DOMAIN recs THEN {recs[XmlOf[t]].href} ELSE {}
Readable(recs) ==
    \A t \in DbTypes : \A n \in Xml(recs, t) : Has(files, n) /\ files[n].data # Partial
Says(recs, t) == IF Xml(recs, t) = {} THEN "nothing"
                 ELSE files[CHOOSE n \in Xml(recs, t) : TRUE].data
Db(recs, t) == [about |-> t, data |-> Says(recs, t), sfx |-> ".gz"]

\* The names are unique unless the name of primary begins with "primary".
SimpleNames(recs) ==
    recs["primary"].href.sum = NoSum /\ recs["primary"].href.base = "primary"

PlainName(t) == [base |-> t, sfx |-> ".gz", sum |-> NoSum]
DbRecord(recs, t) ==
    LET plain == [href |-> PlainName(t), sum |-> Db(recs, t)]
    IN IF SimpleNames(recs) THEN plain ELSE Renamed(plain)

Generate(p) ==
    /\ SAt(p, "generate") /\ Works(p) /\ Readable(seen[p])
    /\ LET recs == [t \in DbTypes |-> DbRecord(seen[p], t)]
       IN work' = [work EXCEPT ![p] =
              [NoWork EXCEPT !.records = recs,
                  !.files = [n \in {recs[t].href : t \in DbTypes} |->
                                (CHOOSE t \in DbTypes : recs[t].href = n)]]]
    /\ SGoTo(p, "move")
    /\ UNCHANGED <<dirVars, lockOwner, opts, seen>>

\* Errors of the compression and of the filling of a record are not asked for:
\* a database that is cut short gets a record without checksum and keeps its
\* plain name.
GenerateDamaged(p) ==
    /\ SAt(p, "generate") /\ Works(p) /\ Readable(seen[p])
    /\ \E bad \in DbTypes :
         LET recs == [t \in DbTypes |-> IF t = bad THEN [href |-> PlainName(t), sum |-> NoSum]
                                                   ELSE DbRecord(seen[p], t)]
         IN work' = [work EXCEPT ![p] =
              [NoWork EXCEPT !.records = recs, !.damaged = TRUE,
                  !.files = [n \in {recs[t].href : t \in DbTypes} |->
                                (CHOOSE t \in DbTypes : recs[t].href = n)]]]
    /\ SGoTo(p, "move")
    /\ UNCHANGED <<dirVars, lockOwner, opts, seen>>

-----------------------------------------------------------------------------
(* move_results: the databases in the order of the directory, then         *)
(* repomd.xml.                                                             *)

Content(p, n) ==
    LET t == work[p].files[n]
    IN IF work[p].records[t].sum = NoSum
         THEN [about |-> t, data |-> Partial, sfx |-> ".gz"]
         ELSE work[p].records[t].sum

\* (A mutant: the old databases are removed first.)
Mutant_MoveDb(p) ==
    /\ SAt(p, "move") /\ Works(p)
    /\ \E n \in DOMAIN work[p].files :
         /\ files' = Put(Drop(files, {seen[p][t].href : t \in DbTypes \intersect DOMAIN seen[p]}), n, Content(p, n))
         /\ work' = [work EXCEPT ![p].files = Drop(@, {n})]
    /\ UNCHANGED <<repomd, lockOwner, spc, opts, seen>>
MoveDb(p) ==
    /\ SAt(p, "move") /\ Works(p)
    /\ \E n \in DOMAIN work[p].files :
         /\ files' = Put(files, n, Content(p, n))
         /\ work' = [work EXCEPT ![p].files = Drop(@, {n})]
    /\ UNCHANGED <<repomd, lockOwner, spc, opts, seen>>

\* gen_new_repomd copies repomd with cr_repomd_copy, which drops the revision,
\* and replaces the records of the databases.
NewRecords(p) ==
    [t \in DOMAIN seen[p] \union DbTypes |->
        IF t \in DbTypes THEN work[p].records[t] ELSE seen[p][t]]

DbsMoved(p) == DOMAIN work[p].files = {}

\* The old databases, if they were noticed and are not to be kept.
OldDbs(p) ==
    IF DbsExist(seen[p]) /\ ~opts[p].keepOld
      THEN {seen[p][t].href : t \in DbTypes \intersect DOMAIN seen[p]}
             \ {work[p].records[t].href : t \in DbTypes}
      ELSE {}

MoveRepomd(p) ==
    /\ SAt(p, "move") /\ Works(p) /\ DbsMoved(p)
    /\ repomd' = [whole |-> TRUE, revision |-> NoRevision, records |-> NewRecords(p)]
    /\ work' = [work EXCEPT ![p].old = OldDbs(p)]
    /\ SGoTo(p, "remove")
    /\ UNCHANGED <<files, lockOwner, opts, seen>>

-----------------------------------------------------------------------------
\* remove_old_if_different: a file that is not there cannot be removed, which
\* is an error.
RemoveOld(p) ==
    /\ SAt(p, "remove")
    /\ \E n \in work[p].old :
         /\ files' = Drop(files, {n})
         /\ work' = [work EXCEPT ![p].old = @ \ {n}]
         /\ IF Has(files, n) THEN UNCHANGED spc ELSE SGoTo(p, "exit failed")
    /\ UNCHANGED <<repomd, lockOwner, opts, seen>>

RemovedOld(p) ==
    /\ SAt(p, "remove") /\ work[p].old = {}
    /\ SGoTo(p, "rmdir")
    /\ UNCHANGED <<dirVars, lockOwner, opts, seen, work>>

RemoveDir(p) ==
    /\ SAt(p, "rmdir")
    /\ lockOwner' = IF Works(p) THEN Nobody ELSE lockOwner
    /\ SGoTo(p, "exit done")
    /\ UNCHANGED <<dirVars, opts, seen, work>>

\* exit_cleanup, which is never switched off: it removes .repodata/, whoever
\* has made it.
ExitCleanup(p) ==
    /\ \/ SAt(p, "exit done")   /\ SGoTo(p, "done")
       \/ SAt(p, "exit failed") /\ SGoTo(p, "failed")
    /\ lockOwner' = Nobody
    /\ UNCHANGED <<dirVars, opts, seen, work>>

-----------------------------------------------------------------------------
\* A signal, an error of a system call, or what the guards above refuse.
Busy == {"read", "generate", "move", "remove", "rmdir"}
GiveUp(p) == spc[p] \in Busy /\ Refuse(p)

SqliteSteps(p) ==
    \/ Lock(p) \/ ReadRepomd(p) \/ Generate(p) \/ GenerateDamaged(p)
    \/ MoveDb(p) \/ MoveRepomd(p) \/ RemoveOld(p) \/ RemovedOld(p)
    \/ RemoveDir(p) \/ ExitCleanup(p) \/ GiveUp(p)

SRunning(p) == spc[p] \notin {"off", "done", "failed", "killed"}
SqliteKilled(p) ==
    /\ SRunning(p) /\ SGoTo(p, "killed")
    /\ UNCHANGED <<dirVars, lockOwner, opts, seen, work>>
=============================================================================
