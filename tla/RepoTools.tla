------------------------------- MODULE RepoTools -------------------------------
(***************************************************************************)
(* A repository that modifyrepo_c and sqliterepo_c change one after the    *)
(* other, each of them possibly killed in the middle, so that the next one *)
(* starts from what the last one left.                                     *)
(***************************************************************************)
EXTENDS ModifyRepo, SqliteRepo

CONSTANTS
    InitialDirs,    \* repositories to start from
    SqliteOptions,  \* options of sqliterepo_c
    Calls,          \* bound: how many calls of modifyrepo_c
    Kills           \* bound: how many processes are killed

ASSUME RepoToolsAssumption ==
    /\ Calls \in Nat /\ Kills \in Nat
    /\ DbTypes \subseteq Types /\ DbTypes \subseteq DOMAIN XmlOf
    /\ \A t \in DbTypes : XmlOf[t] \notin DbTypes
    /\ TaskLists \subseteq Seq(Tasks)
    /\ \A d \in InitialDirs :
          d.repomd = [whole |-> d.repomd.whole, revision |-> d.repomd.revision,
                      records |-> d.repomd.records]
    /\ {"modify", Nobody} \cap SqliteProcs = {}

VARIABLES
    calls, kills,   \* how many there were
    start,          \* the directory when the last tool started
    tool            \* the last tool that started: "modify" or a process

vars == <<dirVars, modifyVars, sqliteVars, calls, kills, start, tool>>

Init ==
    /\ \E d \in InitialDirs : files = d.files /\ repomd = d.repomd
    /\ ModifyInit /\ SqliteInit
    /\ calls = 0 /\ kills = 0
    /\ start = [files |-> files, repomd |-> repomd]
    /\ tool = Nobody

Idle == ~Running /\ \A p \in SqliteProcs : ~SRunning(p)
Started(t) == tool' = t /\ start' = [files |-> files, repomd |-> repomd]

CallModify ==
    /\ Idle /\ calls < Calls
    /\ \E ks \in TaskLists : ModifyStarts(ks)
    /\ calls' = calls + 1
    /\ Started("modify")
    /\ UNCHANGED <<sqliteVars, kills>>

CallSqlite(p) ==
    /\ Idle
    /\ \E o \in SqliteOptions : SqliteStarts(p, o)
    /\ Started(p)
    /\ UNCHANGED <<modifyVars, calls, kills>>

Kill ==
    /\ kills < Kills /\ kills' = kills + 1
    /\ \/ ModifyKilled /\ UNCHANGED sqliteVars
       \/ \E p \in SqliteProcs : SqliteKilled(p) /\ UNCHANGED modifyVars
    /\ UNCHANGED <<calls, start, tool>>

Modify == ModifySteps /\ UNCHANGED <<sqliteVars, calls, kills, start, tool>>
Sqlite == \E p \in SqliteProcs :
              SqliteSteps(p) /\ UNCHANGED <<modifyVars, calls, kills, start, tool>>

Next ==
    \/ CallModify
    \/ \E p \in SqliteProcs : CallSqlite(p)
    \/ Kill
    \/ Modify
    \/ Sqlite

Spec == Init /\ [][Next]_vars

-----------------------------------------------------------------------------
(* What a tool may disturb.                                                *)

Before == start.repomd.records
Now    == repomd.records

\* The names a tool writes to, and those it renames to.
Touched ==
    IF tool = "modify"
      THEN {CopyName(AllCopies[i]) : i \in DOMAIN AllCopies}
             \union {UniqueName(new[i].rec) : i \in DOMAIN new}
      ELSE {PlainName(t) : t \in DbTypes} \union
           (IF tool = Nobody THEN {} ELSE {work[tool].records[t].href : t \in DOMAIN work[tool].records})

\* Has the last tool come to its successful end?
Succeeded ==
    IF tool = "modify" THEN mpc = "done"
    ELSE tool # Nobody /\ spc[tool] = "done"

Damaged == tool \in SqliteProcs /\ work[tool].damaged

\* What the file of a copy should hold, and the names the copy takes.
Meant(c) == IF Outside(c.task) THEN [c.task.content EXCEPT !.sfx = c.sfx]
            ELSE IF InPlace(c) THEN start.files[c.task.path]
            ELSE [start.files[c.task.path] EXCEPT !.sfx = c.sfx]
Takes(c) ==
    {CopyName(c)} \union
    (IF c.task.unique THEN {[CopyName(c) EXCEPT !.sum = Meant(c)]} ELSE {})

\* Nothing keeps the copies of a list of tasks from getting in each other's way
\* or in that of the records that stay: two copies that take one name, one that
\* overwrites the source of a later one, one under the name of a record that no
\* task is for, unless that is a unique name and the record's file is the same.
Clash ==
    tool = "modify" /\
      \/ \E i, j \in DOMAIN AllCopies :
            i # j /\ Takes(AllCopies[i]) \cap Takes(AllCopies[j]) # {}
      \/ \E i, j \in DOMAIN AllCopies :
            /\ i < j /\ ~InPlace(AllCopies[i]) /\ ~Outside(AllCopies[j].task)
            /\ AllCopies[j].task.path = CopyName(AllCopies[i])
      \/ \E i \in DOMAIN AllCopies, t \in DOMAIN Before :
            /\ Before[t].href \in Takes(AllCopies[i])
            /\ Before[t].href = CopyName(AllCopies[i]) \/ Before[t].sum # Meant(AllCopies[i])
            /\ \A j \in DOMAIN tasks : tasks[j].type # t

WasKept(t) == t \in DOMAIN Before /\ Kept(Before[t], start.files)

-----------------------------------------------------------------------------
(* Properties.                                                             *)

\* At every moment, so also after a kill: a record that the tool leaves alone
\* has the file it had, unless the tool writes a file of that very name.
\* The order of the steps matters: new files, repomd.xml, then the removals.
Undisturbed ==
    repomd.whole =>
        \A t \in DOMAIN Now :
            (WasKept(t) /\ Now[t] = Before[t]) =>
                Kept(Now[t], files) \/ Now[t].href \in Touched

\* A tool that ends with success leaves no record without its file that had
\* one before, and all new records have theirs.
NothingDangles ==
    (Succeeded /\ ~Damaged /\ ~Clash) =>
        \A t \in DOMAIN Now :
            \/ Kept(Now[t], files)
            \/ t \in DOMAIN Before /\ Now[t] = Before[t] /\ ~WasKept(t)

\* What the records say after a success.  modifyrepo_c: of several tasks of one
\* type the last addition counts, wherever a removal stands; other types stay.
\* sqliterepo_c: every database says what its XML says, other types stay.
LastAdded(t) ==
    AllCopies[Max({i \in DOMAIN AllCopies : AllCopies[i].type = t})]
\* The second type is looked for only where a record of the first was found,
\* which is at the first task of the type.
FirstOf(i) == \A j \in 1 .. i - 1 : tasks[j].type # tasks[i].type
Named == {tasks[i].type : i \in DOMAIN tasks}
    \union {Zck(tasks[i].type) : i \in {j \in DOMAIN tasks :
                tasks[j].zck /\ tasks[j].type \in DOMAIN Before /\ FirstOf(j)}}
Added == {AllCopies[i].type : i \in DOMAIN AllCopies}

Applied ==
    (Succeeded /\ ~Damaged /\ ~Clash) =>
        IF tool = "modify"
          THEN /\ DOMAIN Now = (DOMAIN Before \ Named) \union Added
               /\ \A t \in DOMAIN Now :
                    IF t \in Added THEN Now[t].sum = Meant(LastAdded(t))
                                   ELSE Now[t] = Before[t]
          ELSE /\ DOMAIN Now = DOMAIN Before \union DbTypes
               /\ \A t \in DOMAIN Now :
                    IF t \in DbTypes THEN Now[t].sum = Db(Now, t)
                                     ELSE Now[t] = Before[t]

Dropped == {t \in DOMAIN Before : t \notin DOMAIN Now \/ Now[t] # Before[t]}
OldFiles == {Before[t].href : t \in Dropped}
\* Replaced records that the tool has detached itself; those of a second type
\* that only cr_repomd_set_record meets leave their file behind.
Detached == Dropped \intersect (IF tool = "modify" THEN Named ELSE DbTypes)
UsedNow  == {Now[t].href : t \in DOMAIN Now}
KeepsOld == tool # "modify" /\ (opts[tool].keepOld \/ ~DbsExist(Before))

\* After a success the only files that are gone are those of replaced records
\* (and names that were renamed away), and these are gone unless a record has
\* them or the user wants them kept (remove_old_if_different, cr_modifyrepo).
OnlyReplacedGo ==
    Succeeded =>
        /\ DOMAIN start.files \ DOMAIN files \subseteq OldFiles \union Touched
        /\ KeepsOld \/ {Before[t].href : t \in Detached} \intersect DOMAIN files
                         \subseteq UsedNow
        /\ KeepsOld => DOMAIN start.files \subseteq DOMAIN files

\* A modifyrepo_c or sqliterepo_c that ends with success has applied its tasks
\* to the records, and every record it wrote has its file with its checksum.
DoneAsAsked == NothingDangles /\ Applied
=============================================================================
