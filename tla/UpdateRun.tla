------------------------------- MODULE UpdateRun -------------------------------
(***************************************************************************)
(* Successive runs of createrepo_c on one output directory, as far as      *)
(* repomd.xml and the files it names are concerned: which metadata of the  *)
(* old repository an --update keeps, the records of the new repomd.xml,    *)
(* the comparison of the new with the old one, and what is published.      *)
(* Between the runs packages and drpms change and files are damaged;       *)
(* modifyrepo_c, which takes no lock, may come at any time.                *)
(*                                                                         *)
(* How a repository is published, step by step, is in RepoPublish; here    *)
(* it is one step.  filelists, other and the databases are made like       *)
(* primary and are left out.                                               *)
(***************************************************************************)
EXTENDS RepoDir, TLC

CONSTANTS
    Options,        \* command lines
    InitialRepos,   \* what is in repodata/ in the beginning
    MaxUpdates,     \* bound: runs of createrepo_c
    MaxChanges      \* bound: what happens beside them

VARIABLES
    packages,       \* what the packages of the directory say, or NoPackages
    drpms,          \* what the delta rpms of the directory say
    tmp,            \* the files of .repodata/
    run,            \* the process: where it is, what it was asked for and has
    calm,           \* one more than the runs of one command line that succeeded
                    \* since the last change; 0 in a run that met it
    updates, changes

updateVars == <<dirVars, packages, drpms, tmp, run, calm, updates, changes>>

NoPackages == "none"
GroupData  == "A"           \* what the file of --groupfile says
NoOld      == [whole |-> FALSE, records |-> <<>>, tags |-> <<>>]
NoRun      == [pc |-> "idle", exit |-> "none", opts |-> CHOOSE o \in Options : TRUE, packages |-> NoPackages,
               old |-> NoOld, names |-> <<>>, own |-> <<>>, add |-> <<>>]

UpdateInit ==
    /\ \E o \in InitialRepos : files = o.files /\ repomd = o.repomd
    /\ packages = "A" /\ drpms = "A"
    /\ tmp = <<>> /\ run = NoRun
    /\ calm = 1 /\ updates = 0 /\ changes = 0

UAt(pc)   == run.pc = pc
UGoTo(pc) == [run EXCEPT !.pc = pc]
Own       == {"primary", "primary_zck"}
ZckType(t) == [group |-> "group_zck", updateinfo |-> "updateinfo_zck",
               prestodelta |-> "prestodelta_zck", primary |-> "primary_zck"][t]
PlainTypes == {"primary", "group", "updateinfo", "prestodelta"}

-----------------------------------------------------------------------------
(* Records.  A record also says what the open content is: "content" is the *)
(* checksum of what the file says, "file" that of the compressed file a    *)
(* zck was made from, "null" is none.                                      *)

File(t, d, s)  == [about |-> t, data |-> d, sfx |-> s]
Plain(t, s)    == [base |-> t, sfx |-> s, sum |-> NoSum]
Record(n, c, o) == [href |-> n, sum |-> c, open |-> o]

\* cr_repomd_record_rename_file for each of the records, whose names differ.
RenamedFiles(fs, recs) ==
    LET due   == {t \in DOMAIN recs : NeedsRename(recs[t])}
        moved == {t \in due : Has(fs, recs[t].href)}
        from  == {recs[t].href : t \in moved}
        to    == {UniqueName(recs[t]) : t \in due}
    IN  [n \in (DOMAIN fs \ (from \union to)) \union {UniqueName(recs[t]) : t \in moved} |->
            IF n \in to THEN fs[recs[CHOOSE t \in moved : UniqueName(recs[t]) = n].href] ELSE fs[n]]
RenamedRecords(fs, recs) ==
    [t \in DOMAIN recs |->
        IF NeedsRename(recs[t]) /\ Has(fs, recs[t].href) THEN Renamed(recs[t]) ELSE recs[t]]

\* cr_repomd_compare: neither revision nor timestamps; of the tags, that there
\* are as many and that the old ones hold each of the new ones.
Mutant_Compare(new, old) ==
    /\ Len(new.tags) = Len(old.tags)
    /\ DOMAIN new.records = DOMAIN old.records
Mutant_CompareOpen(new, old) ==
    /\ Len(new.tags) = Len(old.tags) /\ ToSet(new.tags) \subseteq ToSet(old.tags)
    /\ new.records = old.records
    /\ \A t \in DOMAIN new.records : new.records[t].open = "content"
Compare(new, old) ==
    /\ Len(new.tags) = Len(old.tags) /\ ToSet(new.tags) \subseteq ToSet(old.tags)
    /\ new.records = old.records

-----------------------------------------------------------------------------
(* A run.                                                                  *)

\* The walk, and, if it finds packages, cr_locate_metadata: no old metadata if
\* repomd.xml cannot be parsed.
Locate(o) ==
    /\ UAt("idle") /\ updates < MaxUpdates
    /\ run' = [NoRun EXCEPT !.pc = "keep", !.opts = o, !.packages = packages,
           !.old = IF o.update /\ packages # NoPackages /\ repomd.whole THEN repomd ELSE NoOld]
    /\ calm' = IF run.opts = o THEN calm ELSE 1
    /\ updates' = updates + 1
    /\ UNCHANGED <<dirVars, packages, drpms, tmp, changes>>

\* The group file replaces the old ones of every compression; the others are
\* copied, and one whose copying fails stays in the list without a name.
Mutant_Keeps(o, old) ==
    IF o.keep THEN (DOMAIN old.records \ Own) \ {"group"} ELSE {}
Keeps(o, old) ==
    IF o.keep THEN (DOMAIN old.records \ Own) \ (IF o.group THEN {"group", "group_zck"} ELSE {})
              ELSE {}
KeepMetadata ==
    /\ UAt("keep")
    /\ LET kept   == Keeps(run.opts, run.old)
           group  == IF run.opts.group THEN {"group"} ELSE {}
           hrefs  == {run.old.records[t].href : t \in kept}
           copied == [n \in hrefs \intersect DOMAIN files |-> files[n]]
       IN /\ run' = [run EXCEPT !.pc = "records",
                 !.names = [t \in kept \union group |->
                               IF t \in kept THEN run.old.records[t].href ELSE Plain("group", ".gz")]]
          /\ tmp' = [t \in {Plain("group", ".gz")} \intersect {Plain(u, ".gz") : u \in group} |->
                        File("group", GroupData, ".gz")] @@ copied
    /\ UNCHANGED <<dirVars, packages, drpms, calm, updates, changes>>

\* A file that was not copied or whose content cannot be read ends the run, and
\* .repodata/ is removed.
Readable(t) == Has(tmp, run.names[t]) /\ tmp[run.names[t]].data # Partial
Fails ==
    /\ UAt("records") /\ \E t \in DOMAIN run.names : ~Readable(t)
    /\ run' = [NoRun EXCEPT !.exit = "1", !.opts = run.opts]
    /\ tmp' = <<>> /\ calm' = 1
    /\ UNCHANGED <<dirVars, packages, drpms, updates, changes>>
MakeRecords ==
    /\ UAt("records") /\ \A t \in DOMAIN run.names : Readable(t)
    /\ LET primary == File("primary", run.packages, ".gz") IN
         /\ tmp' = Put(tmp, Plain("primary", ".gz"), primary)
         /\ run' = [run EXCEPT !.pc = "zck",
                !.own = [t \in {"primary"} |-> Record(Plain("primary", ".gz"), primary, "content")],
                !.add = [t \in DOMAIN run.names |-> Record(run.names[t], tmp[run.names[t]], "content")]]
    /\ UNCHANGED <<dirVars, packages, drpms, calm, updates, changes>>

\* The zck of primary, and of every other file that has none.  Making it
\* (cr_repomd_record_compress_and_fill) replaces the checksums of both records.
Lacking == {t \in DOMAIN run.add \intersect PlainTypes :
               run.opts.zck /\ ZckType(t) \notin DOMAIN run.add}
ZckFile(c)  == [c EXCEPT !.sfx = ".zck"]
MakeZck ==
    /\ UAt("zck")
    /\ LET zcks == [u \in {ZckType(t) : t \in Lacking} |->
                       LET rec == run.add[CHOOSE t \in Lacking : ZckType(t) = u]
                       IN Record(ZckFile(rec.href), ZckFile(rec.sum), "file")]
           own  == [u \in {v \in {"primary_zck"} : run.opts.zck} |->
                       Record(ZckFile(run.own["primary"].href), ZckFile(run.own["primary"].sum), "content")]
           made == {zcks[u] : u \in DOMAIN zcks} \union {own[u] : u \in DOMAIN own}
       IN /\ run' = [run EXCEPT !.pc = "deltas", !.own = own @@ @,
                 !.add = zcks @@ [t \in DOMAIN @ |-> IF t \in Lacking THEN [@[t] EXCEPT !.open = "null"]
                                                                     ELSE @[t]]]
          /\ tmp' = [n \in {rec.href : rec \in made} |->
                        (CHOOSE rec \in made : rec.href = n).sum] @@ tmp
    /\ UNCHANGED <<dirVars, packages, drpms, calm, updates, changes>>

\* prestodelta.xml, over a kept one of that name; an error in making it only
\* means that there is no record.
Deltas == {t \in {"prestodelta", "prestodelta_zck"} :
              run.opts.deltas /\ (t = "prestodelta_zck" => run.opts.zck)}
DeltaRecord(t) ==
    LET s == IF t = "prestodelta" THEN ".gz" ELSE ".zck"
    IN Record(Plain("prestodelta", s), File("prestodelta", drpms, s), "content")
MakeDeltas ==
    /\ UAt("deltas")
    /\ run' = [run EXCEPT !.pc = "rename", !.own = [t \in Deltas |-> DeltaRecord(t)] @@ @]
    /\ tmp' = [n \in {DeltaRecord(t).href : t \in Deltas} |->
                  DeltaRecord(CHOOSE t \in Deltas : DeltaRecord(t).href = n).sum] @@ tmp
    /\ UNCHANGED <<dirVars, packages, drpms, calm, updates, changes>>
NoDeltas ==
    /\ UAt("deltas") /\ Deltas # {} /\ changes < MaxChanges
    /\ run' = UGoTo("rename")
    /\ changes' = changes + 1 /\ calm' = 0
    /\ UNCHANGED <<dirVars, packages, drpms, tmp, updates>>

\* The records of the list of additional metadata come last.
RenameFiles ==
    /\ UAt("rename")
    /\ run' = [run EXCEPT !.pc = "compare",
           !.own = IF run.opts.unique THEN RenamedRecords(tmp, @) ELSE @,
           !.add = IF run.opts.unique THEN RenamedRecords(RenamedFiles(tmp, run.own), @) ELSE @]
    /\ tmp' = IF run.opts.unique THEN RenamedFiles(RenamedFiles(tmp, run.own), run.add) ELSE tmp
    /\ UNCHANGED <<dirVars, packages, drpms, calm, updates, changes>>

\* cr_repomd_set_record: a later record of a type replaces the earlier one.
NewRepomd == [whole |-> TRUE, records |-> run.add @@ run.own, tags |-> run.opts.tags]
Matches == run.old.whole /\ ~run.opts.retain /\ Compare(NewRepomd, run.old)
Done(e) == [NoRun EXCEPT !.exit = e, !.opts = run.opts, !.packages = run.packages]
Match ==
    /\ UAt("compare") /\ Matches
    /\ run' = Done("0, not updating")
    /\ tmp' = <<>> /\ calm' = calm + 1
    /\ UNCHANGED <<dirVars, packages, drpms, updates, changes>>

\* cr_old_metadata_retention: what the repomd.xml of this moment lists goes,
\* unless it is to be retained; nothing goes if it cannot be read.
Mutant_Excluded == {}
Excluded == IF run.opts.retain \/ ~repomd.whole THEN {}
                ELSE {repomd.records[t].href : t \in DOMAIN repomd.records}
Publish ==
    /\ UAt("compare") /\ ~Matches
    /\ files' = tmp @@ Drop(files, Excluded)
    /\ repomd' = NewRepomd
    /\ run' = Done("0, published")
    /\ tmp' = <<>> /\ calm' = calm + 1
    /\ UNCHANGED <<packages, drpms, updates, changes>>

-----------------------------------------------------------------------------
(* What happens beside the runs.                                           *)

Changed == changes < MaxChanges /\ changes' = changes + 1 /\ calm' = (IF UAt("idle") THEN 1 ELSE 0)
             /\ UNCHANGED <<tmp, run, updates>>
ChangePackages ==
    /\ UAt("idle") /\ Changed
    /\ packages' \in {"A", "B", NoPackages} \ {packages}
    /\ UNCHANGED <<dirVars, drpms>>
ChangeDrpms ==
    /\ UAt("idle") /\ Changed
    /\ drpms' \in {"A", "B"} \ {drpms}
    /\ UNCHANGED <<dirVars, packages>>
LoseFile ==
    /\ UAt("idle") /\ Changed
    /\ \E n \in DOMAIN files : files' \in {Drop(files, {n}), [files EXCEPT ![n].data = Partial]}
    /\ UNCHANGED <<repomd, packages, drpms>>
LoseRepomd ==
    /\ UAt("idle") /\ Changed /\ repomd.whole
    /\ repomd' = NoOld
    /\ UNCHANGED <<files, packages, drpms>>

\* modifyrepo_c updateinfo.xml: a new file and record, and the old file removed.
ModifyUpdateinfo ==
    /\ Changed /\ repomd.whole
    /\ \E d \in {"A", "B"} :
         LET c   == File("updateinfo", d, ".gz")
             new == Record([Plain("updateinfo", ".gz") EXCEPT !.sum = c], c, "content")
             old == {repomd.records[t].href : t \in DOMAIN repomd.records \intersect {"updateinfo"}}
         IN /\ files' = Put(Drop(files, old), new.href, c)
            /\ repomd' = [repomd EXCEPT !.records = SetRecord(@, "updateinfo", new)]
    /\ UNCHANGED <<packages, drpms>>

UpdateNext ==
    \/ \E o \in Options : Locate(o)
    \/ KeepMetadata \/ Fails \/ MakeRecords \/ MakeZck \/ MakeDeltas \/ NoDeltas \/ RenameFiles
    \/ Match \/ Publish
    \/ ChangePackages \/ ChangeDrpms \/ LoseFile \/ LoseRepomd \/ ModifyUpdateinfo

UpdateSpec == UpdateInit /\ [][UpdateNext]_updateVars
-----------------------------------------------------------------------------
Published == UAt("compare") /\ run'.exit = "0, published"
Succeeds  == UAt("compare") /\ UAt("idle")'

\* What an update has to keep of the old metadata.
ToKeep == IF run.opts.keep
            THEN (DOMAIN run.old.records \ Own) \ (IF run.opts.group THEN {"group", "group_zck"} ELSE {})
            ELSE {}

\* Whatever was there before, and whatever modifyrepo_c does meanwhile, a run
\* that ends with 0 leaves a repository of the packages, the tags and the group
\* file it was asked for, whose records have their files.  Two exceptions: a run
\* that does not update has not looked at the files that it would replace, and
\* what --deltas does to a kept prestodelta is DeltasAsMade.
SuccessSound ==
    [][Succeeds =>
        /\ repomd'.whole /\ repomd'.tags = run.opts.tags
        /\ repomd'.records["primary"].sum.data = run.packages
        /\ run.opts.zck => \A t \in PlainTypes \intersect DOMAIN repomd'.records :
                              Published => ZckType(t) \in DOMAIN repomd'.records
        /\ run.opts.group => repomd'.records["group"].sum.data = GroupData
        /\ \A t \in DOMAIN repomd'.records :
             \/ Kept(repomd'.records[t], files')
             \/ ~Published /\ t \notin ToKeep
             \/ run.opts.deltas /\ t \in {"prestodelta", "prestodelta_zck"}]_updateVars

\* An update of a repository with packages keeps every other metadata: as they
\* were when it looked, or as modifyrepo_c has left them since.  (A prestodelta
\* may differ from what a record says that --deltas left behind.)
AdditionalKept ==
    [][Published =>
        \A t \in ToKeep \ {"prestodelta", "prestodelta_zck"} :
          /\ t \in DOMAIN repomd'.records
          /\ repomd'.records[t].sum.data \in
               {run.old.records[t].sum.data}
                 \union {repomd.records[u].sum.data : u \in DOMAIN repomd.records \intersect {t}}]_updateVars

\* Nothing that the old repomd.xml named and the new one does not is left, so
\* repodata/ does not grow from run to run.
RepodataClean ==
    [][Published /\ ~run.opts.retain /\ ~run.opts.deltas /\ repomd.whole =>
        DOMAIN files' \subseteq {repomd'.records[t].href : t \in DOMAIN repomd'.records}
            \union (DOMAIN files \ {repomd.records[t].href : t \in DOMAIN repomd.records})]_updateVars

\* When nothing changes, updates come to rest: the third run of one command line
\* does not touch the repository any more; the second does not either, unless it
\* finds the zck files that the first made of kept metadata.
MakesZckOfKept == run.opts.zck /\ DOMAIN run.old.records \ Own # {}
Settles ==
    [][Published /\ run.old.whole /\ ~run.opts.retain =>
        calm <= (IF MakesZckOfKept \/ run.opts.deltas THEN 2 ELSE 1)]_updateVars

\* --deltas: "Tells createrepo to generate deltarpms and the delta metadata."
DeltasAsMade ==
    [][Succeeds /\ run.opts.deltas /\ "prestodelta" \in DOMAIN run.own =>
        /\ repomd'.records["prestodelta"].sum.data = drpms
        /\ Kept(repomd'.records["prestodelta"], files')]_updateVars
=============================================================================
