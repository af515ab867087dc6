------------------------------ MODULE ModifyRepo ------------------------------
(***************************************************************************)
(* modifyrepo_c: cr_modifyrepo adds and removes metadata of a repository   *)
(* in place.  It writes the new files beside the old ones, rewrites        *)
(* repomd.xml, and removes the files of the records it has replaced.  It   *)
(* takes no lock, it may be killed between any two steps, and writing may  *)
(* fail.                                                                   *)
(***************************************************************************)
EXTENDS RepoDir

CONSTANTS
    TaskLists       \* the lists of tasks that command line or batch file give

VARIABLES
    mpc,            \* where cr_modifyrepo is; "off" when it does not run
    tasks,          \* the list of tasks
    todo,           \* files still to write, as pairs of a task and a suffix
    new,            \* the new records, in the order of the tasks
    mem,            \* the records of the parsed repomd.xml, then the new ones
    old             \* the records that were detached from it

modifyVars == <<mpc, tasks, todo, new, mem, old>>

ModifyInit ==
    /\ mpc = "off"
    /\ tasks = <<>> /\ todo = <<>> /\ new = <<>>
    /\ mem = <<>> /\ old = {}

-----------------------------------------------------------------------------
(* Tasks.                                                                  *)

\* cr_ModifyRepoTask: "path" is a name of repodata/, or NoSum for a file from
\* somewhere else, which then has the "content"; "base" is what the copy will
\* be called, which is another name than the source's if it is "renamed".
Tasks == [remove : BOOLEAN, type : STRING, base : Types,
          path : Names \union {NoSum}, content : Contents \union {NoSum},
          renamed : BOOLEAN, compress : BOOLEAN, unique : BOOLEAN, zck : BOOLEAN]

Zck(t) == t \o "_zck"

\* Where the source of a task is: a file somewhere else, or one of repodata/.
Outside(k) == k.path = NoSum
Source(k)  == IF Outside(k) THEN k.content ELSE files[k.path]
SourceExists(k) == Outside(k) \/ Has(files, k.path)

\* The name of the copy: the new name or the one of the source without its
\* suffix, and a suffix only if the copy is to be compressed.  The source's
\* own checksum in front of its name stays.
Target(k, sfx) ==
    [base |-> k.base,
     sfx  |-> IF k.compress THEN sfx ELSE "",
     sum  |-> IF Outside(k) \/ k.renamed THEN NoSum ELSE k.path.sum]

\* What is added is copied with its own compression; with zchunk, once more.
Copies(k) ==
    (IF k.remove THEN <<>>
     ELSE <<[task |-> k, type |-> k.type, sfx |-> IF k.compress THEN ".gz" ELSE ""]>>)
    \o (IF ~k.remove /\ k.zck THEN <<[task |-> k, type |-> Zck(k.type), sfx |-> ".zck"]>>
                               ELSE <<>>)
AllCopies == FlattenSeq([i \in DOMAIN tasks |-> Copies(tasks[i])])

CopyName(c)    == Target(c.task, c.sfx)
CopyContent(c) == [Source(c.task) EXCEPT !.sfx = c.sfx]

\* The copy would be the source itself.
InPlace(c) == ~Outside(c.task) /\ CopyName(c) = c.task.path

-----------------------------------------------------------------------------
Ends(how) == mpc' = how /\ UNCHANGED <<tasks, todo, new, mem, old>>

\* main: the tasks of a command line or of a batch file.
ModifyStarts(ks) ==
    /\ mpc \in {"off", "done", "failed", "killed"}
    /\ mpc' = "parse" /\ tasks' = ks
    /\ todo' = <<>> /\ new' = <<>> /\ mem' = <<>> /\ old' = {}
    /\ UNCHANGED dirVars

\* A repomd.xml that cannot be parsed, or a source that does not exist.
Checked ==
    /\ repomd.whole
    /\ \A i \in DOMAIN tasks : ~tasks[i].remove => SourceExists(tasks[i])

ParseAndCheck ==
    /\ mpc = "parse"
    /\ IF Checked
         THEN /\ mpc' = "write" /\ todo' = AllCopies /\ mem' = repomd.records
              /\ UNCHANGED <<tasks, new, old>>
         ELSE Ends("failed")
    /\ UNCHANGED dirVars

\* cr_write_file: fopen truncates the file; a source that was overwritten by
\* an earlier task is copied as it is now.
UseInPlace ==
    /\ mpc = "write" /\ todo # <<>> /\ InPlace(Head(todo))
    /\ todo' = Tail(todo)
    /\ UNCHANGED <<dirVars, mpc, tasks, new, mem, old>>

BeginCopy ==
    /\ mpc = "write" /\ todo # <<>> /\ ~InPlace(Head(todo))
    /\ mpc' = "copy"
    /\ files' = Put(files, CopyName(Head(todo)),
                    [CopyContent(Head(todo)) EXCEPT !.data = Partial])
    /\ UNCHANGED <<repomd, tasks, todo, new, mem, old>>

\* Copies are made one after the other, so the source is what it was.
EndCopy ==
    /\ mpc = "copy"
    /\ files' = Put(files, CopyName(Head(todo)), CopyContent(Head(todo)))
    /\ mpc' = "write" /\ todo' = Tail(todo)
    /\ UNCHANGED <<repomd, tasks, new, mem, old>>

CopyFails == mpc = "copy" /\ Ends("failed") /\ UNCHANGED dirVars

\* The records are filled by a pool of threads that only read files; then the
\* records of all types the tasks name are detached, whether they come again
\* or not, and with zchunk those of the second type if there was a first one.
NewRecord(c) ==
    [type |-> c.type, unique |-> c.task.unique, rec |-> Filled(CopyName(c), files)]

Mutant_Replaced(k, ts) == IF k.remove THEN {k.type} \intersect ts ELSE {}
Replaced(k, ts) ==
    IF k.type \in ts
      THEN {k.type} \union (IF k.zck THEN {Zck(k.type)} \intersect ts ELSE {})
      ELSE {}

AllReplaced ==
    LET gone[i \in 0 .. Len(tasks)] ==
            IF i = 0 THEN {}
            ELSE gone[i - 1] \union Replaced(tasks[i], DOMAIN mem \ gone[i - 1])
    IN  gone[Len(tasks)]

FillAndDetach ==
    /\ mpc = "write" /\ todo = <<>>
    /\ old' = {mem[t] : t \in AllReplaced}
    /\ mem' = Detach(mem, AllReplaced)
    /\ new' = [i \in DOMAIN AllCopies |-> NewRecord(AllCopies[i])]
    /\ todo' = Reverse([i \in DOMAIN AllCopies |-> i])
    /\ mpc' = "rename"
    /\ UNCHANGED <<dirVars, tasks>>

\* The records that get unique names, the last one first.  Errors of the
\* renaming are ignored.
Next1 == new[Head(todo)]

SkipRename ==
    /\ mpc = "rename" /\ todo # <<>>
    /\ ~(Next1.unique /\ NeedsRename(Next1.rec))
    /\ todo' = Tail(todo)
    /\ UNCHANGED <<dirVars, mpc, tasks, new, mem, old>>

ClearTarget ==
    /\ mpc = "rename" /\ todo # <<>>
    /\ Next1.unique /\ NeedsRename(Next1.rec)
    /\ files' = RemoveTarget(Next1.rec, files)
    /\ mpc' = "move"
    /\ UNCHANGED <<repomd, tasks, todo, new, mem, old>>

Move ==
    /\ mpc = "move"
    /\ IF Has(files, Next1.rec.href)
         THEN /\ files' = RenameFile(Next1.rec, files)
              /\ new' = [new EXCEPT ![Head(todo)].rec = Renamed(@)]
         ELSE UNCHANGED <<files, new>>
    /\ mpc' = "rename" /\ todo' = Tail(todo)
    /\ UNCHANGED <<repomd, tasks, mem, old>>

\* cr_write_to_file: repomd.xml is rewritten where it is.
\* Of several new records of one type the last one stays.
NewOf(t) == {i \in DOMAIN new : new[i].type = t}
Mutant_WithNew(recs) == [t \in DOMAIN recs \union {new[i].type : i \in DOMAIN new} |-> IF NewOf(t) = {} THEN recs[t] ELSE new[Min(NewOf(t))].rec]
WithNew(recs) ==
    [t \in DOMAIN recs \union {new[i].type : i \in DOMAIN new} |->
        IF NewOf(t) = {} THEN recs[t] ELSE new[Max(NewOf(t))].rec]

TruncateRepomd ==
    /\ mpc = "rename" /\ todo = <<>>
    /\ mem' = WithNew(mem)
    /\ repomd' = [repomd EXCEPT !.whole = FALSE]
    /\ mpc' = "repomd"
    /\ UNCHANGED <<files, tasks, todo, new, old>>

WriteRepomd ==
    /\ mpc = "repomd"
    /\ repomd' = [repomd EXCEPT !.whole = TRUE, !.records = mem]
    /\ mpc' = "delete"
    /\ UNCHANGED <<files, tasks, todo, new, mem, old>>

WriteRepomdFails == mpc = "repomd" /\ Ends("failed") /\ UNCHANGED dirVars

\* The file of a replaced record, unless a record that is left has it too.
StillUsed(rec) == \E t \in DOMAIN mem : mem[t].href = rec.href /\ Has(files, rec.href)

DeleteOld(rec) ==
    IF StillUsed(rec) THEN UNCHANGED files ELSE files' = Drop(files, {rec.href})

Delete ==
    /\ mpc = "delete"
    /\ \E rec \in old : DeleteOld(rec) /\ old' = old \ {rec}
    /\ UNCHANGED <<repomd, mpc, tasks, todo, new, mem>>

ModifyEnds == mpc = "delete" /\ old = {} /\ Ends("done") /\ UNCHANGED dirVars

ModifySteps ==
    \/ ParseAndCheck \/ UseInPlace \/ BeginCopy \/ EndCopy \/ CopyFails
    \/ FillAndDetach \/ SkipRename \/ ClearTarget \/ Move
    \/ TruncateRepomd \/ WriteRepomd \/ WriteRepomdFails \/ Delete \/ ModifyEnds

\* SIGKILL, or any other end of the process: it cleans nothing up.
Running == mpc \notin {"off", "done", "failed", "killed"}
ModifyKilled == Running /\ Ends("killed") /\ UNCHANGED dirVars
=============================================================================
