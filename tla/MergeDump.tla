------------------------------- MODULE MergeDump -------------------------------
(***************************************************************************)
(* How mergerepo_c writes and publishes the merged repository              *)
(* (dump_merged_metadata, and the guards of main around it): the files and *)
(* the records are made in .repodata/, the metadata of the old repodata/   *)
(* are removed, what else it holds is moved to .repodata/, and .repodata/  *)
(* becomes repodata/.  The process may be killed at every step, may run    *)
(* out of space, and repodata/ may be a directory that cannot be removed.  *)
(*                                                                         *)
(* files and repomd are what is in repodata/ of the output directory.      *)
(***************************************************************************)
EXTENDS RepoDir

CONSTANTS
    DumpOptions,    \* command lines: ext, database, zck, groupfile, unique
    InitialOutputs, \* what is in repodata/ in the beginning
    Version,        \* what the metadata of each call say; 0: of an older program
    MaxCalls,       \* bound: calls of mergerepo_c
    MaxDumpFaults   \* bound: files that cannot be written to their end

ASSUME MergeDumpAssumption ==
    /\ MaxCalls \in Nat /\ MaxDumpFaults \in Nat
    /\ DumpOptions \subseteq
          [{"ext", "database", "zck", "groupfile", "unique"} -> BOOLEAN]
    /\ \A o \in InitialOutputs : o.there \in BOOLEAN /\ (~o.there => o.files = <<>>)
    /\ \A n \in 1..MaxCalls : Version[n] # Version[0]
    /\ Version[0] # Partial

VARIABLES
    there,          \* does repodata/ exist?
    pinned,         \* repodata/ cannot be removed: it is a mount point
    tmp,            \* .repodata/: is it there, its files, its repomd.xml
    dump,           \* the process: where it is, its options, its records
    faults          \* how many files were not written to their end

dumpVars == <<dirVars, there, pinned, tmp, dump, faults>>

NoRepomd == [whole |-> FALSE, revision |-> "", records |-> <<>>]
NoTmp    == [there |-> FALSE, files |-> <<>>, repomd |-> NoRepomd]
NoDump   == [pc |-> "off", n |-> 0, k |-> 0, recs |-> <<>>, damaged |-> FALSE, exit |-> "none",
             opts |-> [ext |-> FALSE, database |-> FALSE, zck |-> FALSE,
                       groupfile |-> FALSE, unique |-> FALSE]]

MergeDumpInit ==
    /\ \E o \in InitialOutputs : files = o.files /\ repomd = o.repomd /\ there = o.there
    /\ pinned \in (IF there THEN BOOLEAN ELSE {FALSE})
    /\ tmp = NoTmp /\ dump = NoDump /\ faults = 0

DAt(pc)   == dump.pc = pc
DGoTo(pc) == dump' = [dump EXCEPT !.pc = pc]
Exits(e)  == [dump EXCEPT !.pc = "off", !.exit = e]

-----------------------------------------------------------------------------
(* What is to be made.  Other metadata are made like filelists, and        *)
(* pkgorigins and modules like the group file.                             *)

RecordOrder == <<"primary", "filelists", "filelists-ext",
                 "primary_db", "filelists_db", "filelists-ext_db",
                 "primary_zck", "filelists_zck", "filelists-ext_zck",
                 "group", "group_zck", "updateinfo", "updateinfo_zck">>
Ext  == {"filelists-ext", "filelists-ext_db", "filelists-ext_zck"}
Dbs  == {"primary_db", "filelists_db", "filelists-ext_db"}
Zcks == {"primary_zck", "filelists_zck", "filelists-ext_zck", "updateinfo_zck", "group_zck"}
ZckOf == [z \in Zcks |-> IF z = "primary_zck" THEN "primary"
                         ELSE IF z = "filelists_zck" THEN "filelists"
                         ELSE IF z = "filelists-ext_zck" THEN "filelists-ext"
                         ELSE IF z = "updateinfo_zck" THEN "updateinfo" ELSE "group"]

Asked(o) ==
    {t \in ToSet(RecordOrder) :
        /\ t \in Ext => o.ext
        /\ t \in Dbs => o.database
        /\ t \in DOMAIN ZckOf => o.zck
        /\ t \in {"group", "group_zck"} => o.groupfile}

FileFor(t) ==
    IF t \in DOMAIN ZckOf THEN [base |-> ZckOf[t], sfx |-> ".zck", sum |-> NoSum]
                          ELSE [base |-> t, sfx |-> ".gz", sum |-> NoSum]

\* The file that the record is made with: the records of filelists-ext and of
\* its database name the files of filelists.
RecordFile(t) ==
    CASE t = "filelists-ext"    -> FileFor("filelists")
      [] t = "filelists-ext_db" -> FileFor("filelists_db")
      [] OTHER                  -> FileFor(t)

Made(n, t, whole) == [about |-> FileFor(t).base, sfx |-> FileFor(t).sfx,
                      data |-> IF whole THEN Version[n] ELSE Partial]

-----------------------------------------------------------------------------
(* Making the repository in .repodata/.                                    *)

\* Whoever finds .repodata/ leaves it as it is.
Refused ==
    /\ DAt("off") /\ dump.n < MaxCalls /\ tmp.there
    /\ dump' = [NoDump EXCEPT !.n = dump.n + 1, !.exit = "1"]
    /\ UNCHANGED <<dirVars, there, pinned, tmp, faults>>
StartDump(o) ==
    /\ DAt("off") /\ dump.n < MaxCalls /\ ~tmp.there
    /\ tmp' = [NoTmp EXCEPT !.there = TRUE]
    /\ dump' = [NoDump EXCEPT !.n = dump.n + 1, !.opts = o, !.pc = "load"]
    /\ UNCHANGED <<dirVars, there, pinned, faults>>

\* A repository that cannot be found or loaded, or a zck that cannot be opened,
\* ends the program with 1; another file that cannot be opened ends only
\* dump_merged_metadata, and the program with 0.  .repodata/ stays.
CannotLoad ==
    /\ DAt("load")
    /\ \E e \in {"1", "0, nothing dumped"} : dump' = Exits(e)
    /\ UNCHANGED <<dirVars, there, pinned, tmp, faults>>

\* What the writing functions return is never asked for.
NewFiles(bad) ==
    [f \in {FileFor(t) : t \in Asked(dump.opts)} |->
        LET t == CHOOSE u \in Asked(dump.opts) : FileFor(u) = f
        IN Made(dump.n, t, t \notin bad)]
WriteFiles ==
    /\ DAt("load")
    /\ \E bad \in {{}} \union (IF faults < MaxDumpFaults THEN {{t} : t \in Asked(dump.opts)} ELSE {}) :
         /\ tmp' = [tmp EXCEPT !.files = NewFiles(bad)]
         /\ faults' = faults + Cardinality(bad)
         /\ dump' = [dump EXCEPT !.pc = "fill", !.damaged = bad # {}]
    /\ UNCHANGED <<dirVars, there, pinned>>

Mutant_FillRecords ==
    /\ DAt("fill")
    /\ dump' = [dump EXCEPT !.pc = "rename", !.k = 1,
           !.recs = [t \in Asked(dump.opts) |->
                        Filled(RecordFile(IF t = "filelists_db" THEN "primary_db" ELSE t), tmp.files)]]
    /\ UNCHANGED <<dirVars, there, pinned, tmp, faults>>
FillRecords ==
    /\ DAt("fill")
    /\ dump' = [dump EXCEPT !.pc = "rename", !.k = 1,
           !.recs = [t \in Asked(dump.opts) |-> Filled(RecordFile(t), tmp.files)]]
    /\ UNCHANGED <<dirVars, there, pinned, tmp, faults>>

\* cr_repomd_record_rename_file, record by record; that it failed is not asked
\* for.
RenameRecord ==
    /\ DAt("rename") /\ dump.k <= Len(RecordOrder)
    /\ LET t == RecordOrder[dump.k]
           cleared == RemoveTarget(dump.recs[t], tmp.files)
       IN IF t \notin Asked(dump.opts) \/ ~dump.opts.unique \/ ~NeedsRename(dump.recs[t])
            THEN UNCHANGED tmp /\ dump' = [dump EXCEPT !.k = @ + 1]
            ELSE IF Has(cleared, dump.recs[t].href)
                   THEN /\ tmp' = [tmp EXCEPT !.files = RenameFile(dump.recs[t], cleared)]
                        /\ dump' = [dump EXCEPT !.k = @ + 1, !.recs[t] = Renamed(@)]
                   ELSE /\ tmp' = [tmp EXCEPT !.files = cleared]
                        /\ dump' = [dump EXCEPT !.k = @ + 1]
    /\ UNCHANGED <<dirVars, there, pinned, faults>>

\* A repomd.xml that cannot be opened or written changes nothing of what
\* follows.
WriteRepomd ==
    /\ DAt("rename") /\ dump.k > Len(RecordOrder)
    /\ \E whole \in {TRUE, faults = MaxDumpFaults} :
         /\ tmp' = [tmp EXCEPT !.repomd =
                IF whole THEN [whole |-> TRUE, revision |-> "", records |-> dump.recs] ELSE NoRepomd]
         /\ faults' = IF whole THEN faults ELSE faults + 1
         /\ dump' = [dump EXCEPT !.pc = IF there THEN "remove" ELSE "publish",
                                 !.damaged = @ \/ ~whole]
    /\ UNCHANGED <<dirVars, there, pinned>>

-----------------------------------------------------------------------------
(* Publishing it.                                                          *)

\* cr_remove_metadata_classic, which retains nothing here: repomd.xml and what
\* its name says is primary, filelists, other or a database of them.
Classic(n) == n.base \in {"primary", "filelists", "primary_db", "filelists_db"}
              /\ n.sfx # ""

RemoveOldFile ==
    /\ DAt("remove")
    /\ \E n \in {m \in DOMAIN files : Classic(m)} : files' = Drop(files, {n})
    /\ UNCHANGED <<repomd, there, pinned, tmp, dump, faults>>
RemoveOldRepomd ==
    /\ DAt("remove") /\ repomd # NoRepomd
    /\ repomd' = NoRepomd
    /\ UNCHANGED <<files, there, pinned, tmp, dump, faults>>
OldRemoved ==
    /\ DAt("remove") /\ repomd = NoRepomd /\ ~\E n \in DOMAIN files : Classic(n)
    /\ DGoTo("move")
    /\ UNCHANGED <<dirVars, there, pinned, tmp, faults>>

\* A file that has a new one of its name is removed, the rest is moved.
MoveOldFile ==
    /\ DAt("move")
    /\ \E n \in DOMAIN files :
         /\ files' = Drop(files, {n})
         /\ tmp' = IF Has(tmp.files, n) THEN tmp ELSE [tmp EXCEPT !.files = Put(@, n, files[n])]
    /\ UNCHANGED <<repomd, there, pinned, dump, faults>>

\* A directory that cannot be removed is not an error.
RemoveOutRepo ==
    /\ DAt("move") /\ DOMAIN files = {}
    /\ there' = pinned
    /\ DGoTo("publish")
    /\ UNCHANGED <<dirVars, pinned, tmp, faults>>

Publish ==
    /\ DAt("publish") /\ ~there
    /\ files' = tmp.files /\ repomd' = tmp.repomd /\ there' = TRUE
    /\ tmp' = NoTmp
    /\ dump' = Exits("0")
    /\ UNCHANGED <<pinned, faults>>

\* cr_move_recursive cannot rename: it copies file by file, in the order of the
\* directory, and then removes what it copied.
CopyFile ==
    /\ DAt("publish") /\ there
    /\ \E n \in DOMAIN tmp.files \ DOMAIN files : files' = Put(files, n, tmp.files[n])
    /\ UNCHANGED <<repomd, there, pinned, tmp, dump, faults>>
CopyRepomd ==
    /\ DAt("publish") /\ there /\ repomd # tmp.repomd
    /\ repomd' = tmp.repomd
    /\ UNCHANGED <<files, there, pinned, tmp, dump, faults>>
Copied_ == repomd = tmp.repomd /\ DOMAIN tmp.files \subseteq DOMAIN files
Mutant_RemoveTmp ==
    /\ DAt("publish") /\ there /\ repomd = tmp.repomd
    /\ tmp' = NoTmp
    /\ dump' = Exits("0")
    /\ UNCHANGED <<dirVars, there, pinned, faults>>
RemoveTmp ==
    /\ DAt("publish") /\ there /\ Copied_
    /\ tmp' = NoTmp
    /\ dump' = Exits("0")
    /\ UNCHANGED <<dirVars, there, pinned, faults>>

-----------------------------------------------------------------------------
KillDump ==
    /\ ~DAt("off")
    /\ dump' = Exits("killed")
    /\ UNCHANGED <<dirVars, there, pinned, tmp, faults>>

Sound(fs, md) == md.whole /\ \A t \in DOMAIN md.records : Kept(md.records[t], fs)

\* Somebody removes the .repodata/ that a call left behind, when repodata/ is a
\* repository without it.
CleanUp ==
    /\ DAt("off") /\ tmp.there /\ Sound(files, repomd)
    /\ tmp' = NoTmp
    /\ UNCHANGED <<dirVars, there, pinned, dump, faults>>

MergeDumpNext ==
    \/ Refused \/ \E o \in DumpOptions : StartDump(o)
    \/ CannotLoad \/ WriteFiles \/ FillRecords \/ RenameRecord \/ WriteRepomd
    \/ RemoveOldFile \/ RemoveOldRepomd \/ OldRemoved \/ MoveOldFile \/ RemoveOutRepo
    \/ Publish \/ CopyFile \/ CopyRepomd \/ RemoveTmp \/ KillDump \/ CleanUp

MergeDumpSpec == MergeDumpInit /\ [][MergeDumpNext]_dumpVars
-----------------------------------------------------------------------------
\* A call that succeeds, and could write its files, leaves the repository that
\* was asked for: every record has its file, that file is of this call and of
\* the kind that the record says, no primary or filelists of an older call is
\* left, and .repodata/ is gone.
Succeeded == dump.exit = "0" /\ ~dump.damaged
PublishedAsAsked ==
    /\ there /\ ~tmp.there /\ repomd.whole
    /\ DOMAIN repomd.records = Asked(dump.opts)
    /\ \A t \in DOMAIN repomd.records :
         /\ Kept(repomd.records[t], files)
         /\ repomd.records[t].sum = Made(dump.n, t, TRUE)
    /\ \A n \in DOMAIN files : Classic(n) => \E t \in DOMAIN repomd.records : repomd.records[t].href = n
MergedComplete == Succeeded /\ ~dump.opts.ext => PublishedAsAsked

\* Wherever it is killed, and whether the old repodata/ can be removed or not,
\* once there was a repository there is one: in repodata/ or, whole, in
\* .repodata/; unless the call could not write the new one (it goes on and
\* removes the old one).
Somewhere == Sound(files, repomd) \/ Sound(tmp.files, tmp.repomd)
RepositorySomewhere ==
    [][Somewhere /\ ~dump'.damaged /\ ~dump.opts.ext => Somewhere']_dumpVars

\* What does not have the name of the metadata that are replaced is never lost:
\* it, or a new file of its name, is in one of the directories.
Olds == {n \in DOMAIN files : files[n].data = Version[0] /\ ~Classic(n)}
          \union {n \in DOMAIN tmp.files : tmp.files[n].data = Version[0]}
OthersKept ==
    [][~DAt("off") => Olds \subseteq DOMAIN files' \union DOMAIN tmp'.files]_dumpVars

\* From the removal of the old metadata in dump_merged_metadata to the last file
\* that cr_move_recursive copies, neither the repository nor what is beside it in
\* repodata/ is lost.
NothingLost == RepositorySomewhere /\ OthersKept
=============================================================================
