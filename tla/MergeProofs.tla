------------------------------- MODULE MergeProofs -------------------------------
(***************************************************************************)
(* The two halves of mergerepo_c, for any repositories, options and number *)
(* of calls: how it writes and publishes the merged repository, wherever   *)
(* it fails or is killed, and how it comes to the packages it writes.      *)
(*                                                                         *)
(* The repository.  That .repodata/ may replace repodata/ rests on what is *)
(* in it at each place of the program (DirsRight), and on its files being  *)
(* those the records describe (NewRight), which renaming one file must not *)
(* spoil for another: the names of two types differ.                       *)
(*                                                                         *)
(* The choice.  Of the packages offered so far one of each kind is in the  *)
(* merged table, a best one (ChoiceInv), which koji's table of builds and  *)
(* that of the packages seen must not spoil (BuildInv, StuffInv).          *)
(***************************************************************************)
EXTENDS MergeRepo, MergeDump, FiniteSetTheorems, SequenceTheorems, TLAPS

DumpPlaces == {"off", "load", "fill", "rename", "remove", "move", "publish"}

DumpTypeOK ==
    /\ there \in BOOLEAN /\ pinned \in BOOLEAN
    /\ tmp = [there |-> tmp.there, files |-> tmp.files, repomd |-> tmp.repomd]
    /\ tmp.there \in BOOLEAN
    /\ dump = [pc |-> dump.pc, n |-> dump.n, k |-> dump.k, recs |-> dump.recs,
               damaged |-> dump.damaged, exit |-> dump.exit, opts |-> dump.opts]
    /\ dump.pc \in DumpPlaces
    /\ dump.n \in 0..MaxCalls
    /\ dump.pc # "off" => dump.n # 0 /\ dump.exit = "none"
    /\ dump.k \in Nat
    /\ dump.damaged \in BOOLEAN
    /\ dump.opts \in DumpOptions \union {NoDump.opts}

\* What is in the two directories at each place of the program.
DirsRight ==
    /\ ~there => DOMAIN files = {}
    /\ ~tmp.there => tmp = NoTmp
    /\ dump.pc # "off" => tmp.there
    /\ dump.pc = "load" => tmp.files = <<>>
    /\ dump.pc \in {"load", "fill", "rename"} => tmp.repomd = NoRepomd
    /\ dump.pc \in {"fill", "rename"} =>
          \A n \in DOMAIN tmp.files : tmp.files[n].data # Version[0]
    /\ dump.pc \in {"remove", "move"} => there
    /\ dump.pc = "move" => \A n \in DOMAIN files : ~Classic(n)
    /\ dump.pc = "publish" /\ there =>
          \A n \in DOMAIN files : Has(tmp.files, n) /\ files[n] = tmp.files[n]

\* What the file of a type says when it was written to its end.
Whole(n, t) == Made(n, t, TRUE)

\* The record of a type, and nothing but its own file can take its file's place.
RecordRight(t, rec) ==
    /\ rec = [href |-> rec.href, sum |-> Whole(dump.n, t)]
    /\ rec.href \in {FileFor(t), [FileFor(t) EXCEPT !.sum = rec.sum]}

RecordsRight(recs, fs) ==
    /\ DOMAIN recs = Asked(dump.opts)
    /\ \A t \in DOMAIN recs : RecordRight(t, recs[t]) /\ Kept(recs[t], fs)

Named(recs, n) == \E t \in DOMAIN recs : recs[t].href = n

AllMade ==
    /\ DOMAIN tmp.files = {FileFor(t) : t \in Asked(dump.opts)}
    /\ \A t \in Asked(dump.opts) : tmp.files[FileFor(t)] = Whole(dump.n, t)

\* What is promised of a call that could write its files.
NewRight ==
    ~dump.damaged /\ ~dump.opts.ext =>
      /\ dump.pc = "fill" => AllMade
      /\ dump.pc \in {"rename", "remove", "move", "publish"} =>
            RecordsRight(dump.recs, tmp.files)
      /\ dump.pc = "rename" => \A n \in DOMAIN tmp.files : Named(dump.recs, n)
      /\ dump.pc \in {"remove", "move", "publish"} =>
            /\ tmp.repomd = [whole |-> TRUE, revision |-> "", records |-> dump.recs]
            /\ \A n \in DOMAIN tmp.files : Classic(n) => Named(dump.recs, n)

DumpInv == DumpTypeOK /\ DirsRight /\ NewRight /\ MergedComplete

-----------------------------------------------------------------------------
USE MergeDumpAssumption

\* Everything but filelists-ext has a file name of its own.
LEMMA OwnFiles ==
    /\ \A t, u \in ToSet(RecordOrder) \ Ext : FileFor(t) = FileFor(u) => t = u
    /\ \A t, u \in ToSet(RecordOrder) \ Ext :
          FileFor(t).base = FileFor(u).base /\ FileFor(t).sfx = FileFor(u).sfx => t = u
    /\ \A t : FileFor(t) = [base |-> FileFor(t).base, sfx |-> FileFor(t).sfx, sum |-> NoSum]
    /\ \A t \in ToSet(RecordOrder) \ Ext : RecordFile(t) = FileFor(t)
<1>1. ToSet(RecordOrder) \ Ext = {"primary", "filelists", "primary_db", "filelists_db",
        "primary_zck", "filelists_zck", "group", "group_zck", "updateinfo", "updateinfo_zck"}
  <2>1. DOMAIN RecordOrder = 1..13
      BY DEF RecordOrder
  <2>2. ToSet(RecordOrder) = {RecordOrder[i] : i \in 1..13}
      BY <2>1 DEF ToSet
  <2>3. ToSet(RecordOrder) = {RecordOrder[1], RecordOrder[2], RecordOrder[3], RecordOrder[4],
          RecordOrder[5], RecordOrder[6], RecordOrder[7], RecordOrder[8], RecordOrder[9],
          RecordOrder[10], RecordOrder[11], RecordOrder[12], RecordOrder[13]}
      BY <2>2
  <2> QED BY <2>3 DEF RecordOrder, Ext
<1>2. /\ DOMAIN ZckOf = {"primary_zck", "filelists_zck", "updateinfo_zck", "group_zck",
                          "filelists-ext_zck"}
      /\ ZckOf["primary_zck"] = "primary" /\ ZckOf["filelists_zck"] = "filelists"
      /\ ZckOf["updateinfo_zck"] = "updateinfo" /\ ZckOf["group_zck"] = "group"
    BY DEF ZckOf, Zcks
<1>3. \A t, u \in ToSet(RecordOrder) \ Ext :
          FileFor(t).base = FileFor(u).base /\ FileFor(t).sfx = FileFor(u).sfx => t = u
    BY <1>1, <1>2 DEF FileFor
<1>4. \A t : FileFor(t) = [base |-> FileFor(t).base, sfx |-> FileFor(t).sfx, sum |-> NoSum]
    BY DEF FileFor
<1>5. \A t \in ToSet(RecordOrder) \ Ext : RecordFile(t) = FileFor(t)
    BY <1>1 DEF RecordFile
<1> QED BY <1>3, <1>4, <1>5

\* What is asked for without --filelists-ext.
LEMMA AskedPlain ==
    ASSUME NEW o, ~o.ext
    PROVE  Asked(o) \subseteq ToSet(RecordOrder) \ Ext
BY DEF Asked

-----------------------------------------------------------------------------
LEMMA DumpTypeStep == DumpTypeOK /\ [MergeDumpNext]_dumpVars => DumpTypeOK'
<1> SUFFICES ASSUME DumpTypeOK, [MergeDumpNext]_dumpVars PROVE DumpTypeOK'
    OBVIOUS
<1> USE DEF DumpTypeOK, DumpPlaces, DAt
<1>1. CASE Refused
  <2>1. dump' = [pc |-> "off", n |-> dump.n + 1, k |-> 0, recs |-> <<>>, damaged |-> FALSE,
                 exit |-> "1", opts |-> NoDump.opts]
      BY <1>1 DEF Refused, NoDump
  <2>2. dump.n + 1 \in 0..MaxCalls
      BY <1>1 DEF Refused
  <2>3. UNCHANGED <<there, pinned, tmp>>
      BY <1>1 DEF Refused
  <2> QED BY <2>1, <2>2, <2>3
<1>2. ASSUME NEW o \in DumpOptions, StartDump(o) PROVE DumpTypeOK'
  <2>1. dump' = [pc |-> "load", n |-> dump.n + 1, k |-> 0, recs |-> <<>>, damaged |-> FALSE,
                 exit |-> "none", opts |-> o]
      BY <1>2 DEF StartDump, NoDump
  <2>2. tmp' = [there |-> TRUE, files |-> <<>>, repomd |-> NoRepomd]
      BY <1>2 DEF StartDump, NoTmp
  <2>3. dump.n + 1 \in 0..MaxCalls /\ dump.n + 1 # 0
      BY <1>2 DEF StartDump
  <2>4. UNCHANGED <<there, pinned>>
      BY <1>2 DEF StartDump
  <2> QED BY <2>1, <2>2, <2>3, <2>4
<1>3. CASE CannotLoad \/ KillDump
    BY <1>3 DEF CannotLoad, KillDump, Exits
<1>4. CASE WriteFiles
  <2>1. PICK fs, d : /\ tmp' = [tmp EXCEPT !.files = fs] /\ d \in BOOLEAN
                     /\ dump' = [dump EXCEPT !.pc = "fill", !.damaged = d]
                     /\ UNCHANGED <<there, pinned>>
      BY <1>4 DEF WriteFiles
  <2> QED BY <2>1, <1>4 DEF WriteFiles
<1>5. CASE FillRecords
    BY <1>5 DEF FillRecords
<1>6. CASE RenameRecord
  <2> DEFINE t       == RecordOrder[dump.k]
             cleared == RemoveTarget(dump.recs[t], tmp.files)
  <2>1. \/ tmp' = tmp
        \/ tmp' = [tmp EXCEPT !.files = RenameFile(dump.recs[t], cleared)]
        \/ tmp' = [tmp EXCEPT !.files = cleared]
      BY <1>6 DEF RenameRecord
  <2>2. \/ dump' = [dump EXCEPT !.k = @ + 1]
        \/ dump' = [dump EXCEPT !.k = @ + 1, !.recs[t] = Renamed(@)]
      BY <1>6 DEF RenameRecord
  <2>3. UNCHANGED <<there, pinned>>
      BY <1>6 DEF RenameRecord
  <2> HIDE DEF t, cleared
  <2>4. /\ tmp' = [there |-> tmp'.there, files |-> tmp'.files, repomd |-> tmp'.repomd]
        /\ tmp'.there = tmp.there
      BY <2>1
  <2>5. /\ dump' = [pc |-> dump.pc, n |-> dump.n, k |-> dump'.k, recs |-> dump'.recs,
                    damaged |-> dump.damaged, exit |-> dump.exit, opts |-> dump.opts]
        /\ dump'.k = dump.k + 1
      BY <2>2
  <2> QED BY <2>3, <2>4, <2>5
<1>7. CASE WriteRepomd
  <2>1. PICK md, d : /\ tmp' = [tmp EXCEPT !.repomd = md] /\ d \in BOOLEAN
                     /\ dump' = [dump EXCEPT !.pc = IF there THEN "remove" ELSE "publish",
                                             !.damaged = d]
    <3>1. PICK whole : /\ tmp' = [tmp EXCEPT !.repomd =
                            IF whole THEN [whole |-> TRUE, revision |-> "", records |-> dump.recs]
                                     ELSE NoRepomd]
                       /\ dump' = [dump EXCEPT !.pc = IF there THEN "remove" ELSE "publish",
                                               !.damaged = @ \/ ~whole]
        BY <1>7 DEF WriteRepomd
    <3>2. (dump.damaged \/ ~whole) \in BOOLEAN
        OBVIOUS
    <3> QED BY <3>1, <3>2, <1>7 DEF WriteRepomd
  <2> QED BY <2>1, <1>7 DEF WriteRepomd
<1>8. CASE RemoveOldFile \/ RemoveOldRepomd \/ CopyFile \/ CopyRepomd
    BY <1>8 DEF RemoveOldFile, RemoveOldRepomd, CopyFile, CopyRepomd
<1>9. CASE OldRemoved \/ RemoveOutRepo
    BY <1>9 DEF OldRemoved, RemoveOutRepo, DGoTo
<1>10. CASE MoveOldFile
    BY <1>10 DEF MoveOldFile
<1>11. CASE Publish \/ RemoveTmp
  <2>1. tmp' = NoTmp /\ dump' = Exits("0") /\ there' \in BOOLEAN /\ UNCHANGED pinned
      BY <1>11 DEF Publish, RemoveTmp
  <2> QED BY <2>1 DEF NoTmp, Exits
<1>12. CASE CleanUp
    BY <1>12 DEF CleanUp, NoTmp
<1>13. CASE UNCHANGED dumpVars
    BY <1>13 DEF dumpVars
<1> QED BY <1>1, <1>2, <1>3, <1>4, <1>5, <1>6, <1>7, <1>8, <1>9, <1>10, <1>11, <1>12, <1>13
        DEF MergeDumpNext

-----------------------------------------------------------------------------
LEMMA DirsStep == DumpTypeOK /\ DirsRight /\ [MergeDumpNext]_dumpVars => DirsRight'
<1> SUFFICES ASSUME DumpTypeOK, DirsRight, [MergeDumpNext]_dumpVars PROVE DirsRight'
    OBVIOUS
<1> USE DEF DAt
<1>1. CASE Refused
  <2>1. dump'.pc = "off" /\ UNCHANGED <<files, repomd, there, tmp>>
      BY <1>1 DEF Refused, NoDump, dirVars
  <2> QED BY <2>1 DEF DirsRight
<1>2. ASSUME NEW o \in DumpOptions, StartDump(o) PROVE DirsRight'
  <2>1. dump'.pc = "load" /\ UNCHANGED <<files, repomd, there>>
      BY <1>2 DEF StartDump, NoDump, dirVars
  <2>2. tmp'.there = TRUE /\ tmp'.files = <<>> /\ tmp'.repomd = NoRepomd
      BY <1>2 DEF StartDump, NoTmp
  <2> QED BY <2>1, <2>2 DEF DirsRight
<1>3. CASE CannotLoad \/ KillDump
  <2>1. dump'.pc = "off" /\ UNCHANGED <<files, repomd, there, tmp>>
      BY <1>3 DEF CannotLoad, KillDump, Exits, dirVars, DumpTypeOK
  <2> QED BY <2>1 DEF DirsRight
<1>4. CASE WriteFiles
  <2>1. PICK bad : tmp' = [tmp EXCEPT !.files = NewFiles(bad)]
      BY <1>4 DEF WriteFiles
  <2>2. dump'.pc = "fill" /\ dump.pc = "load" /\ UNCHANGED <<files, repomd, there>>
      BY <1>4 DEF WriteFiles, dirVars, DumpTypeOK
  <2>3. dump.n \in 1..MaxCalls
      BY <2>2 DEF DumpTypeOK
  <2>4. \A t, w : Made(dump.n, t, w).data # Version[0]
      BY <2>3, MergeDumpAssumption DEF Made
  <2>5. \A n \in DOMAIN tmp'.files : tmp'.files[n].data # Version[0]
      BY <2>1, <2>4 DEF DumpTypeOK, NewFiles
  <2>6. tmp'.there = tmp.there /\ tmp'.repomd = tmp.repomd
      BY <2>1 DEF DumpTypeOK
  <2> QED BY <2>2, <2>5, <2>6 DEF DirsRight
<1>5. CASE FillRecords
  <2>1. dump'.pc = "rename" /\ dump.pc = "fill" /\ UNCHANGED <<files, repomd, there, tmp>>
      BY <1>5 DEF FillRecords, dirVars, DumpTypeOK
  <2> QED BY <2>1 DEF DirsRight
<1>6. CASE RenameRecord
  <2> DEFINE t       == RecordOrder[dump.k]
             cleared == RemoveTarget(dump.recs[t], tmp.files)
  <2>1. dump'.pc = "rename" /\ dump.pc = "rename" /\ UNCHANGED <<files, repomd, there>>
      BY <1>6 DEF RenameRecord, dirVars, DumpTypeOK
  <2>2. \/ tmp' = tmp
        \/ /\ tmp' = [tmp EXCEPT !.files = RenameFile(dump.recs[t], cleared)]
           /\ Has(cleared, dump.recs[t].href)
        \/ tmp' = [tmp EXCEPT !.files = cleared]
      BY <1>6 DEF RenameRecord
  <2>3. tmp'.there = tmp.there /\ tmp'.repomd = tmp.repomd
      BY <2>2 DEF DumpTypeOK
  <2>4. \A n \in DOMAIN tmp.files : tmp.files[n].data # Version[0]
      BY <2>1 DEF DirsRight
  <2>5. \A n \in DOMAIN cleared : cleared[n].data # Version[0]
      BY <2>4 DEF RemoveTarget, Drop
  <2>6. \A n \in DOMAIN tmp'.files : tmp'.files[n].data # Version[0]
    <3>1. CASE tmp' = tmp
        BY <2>4, <3>1
    <3>2. CASE tmp' = [tmp EXCEPT !.files = cleared]
        BY <2>5, <3>2 DEF DumpTypeOK
    <3>3. CASE /\ tmp' = [tmp EXCEPT !.files = RenameFile(dump.recs[t], cleared)]
               /\ Has(cleared, dump.recs[t].href)
      <4>1. tmp'.files = RenameFile(dump.recs[t], cleared)
          BY <3>3 DEF DumpTypeOK
      <4>2. \A n \in DOMAIN tmp'.files : \E m \in DOMAIN cleared : tmp'.files[n] = cleared[m]
        <5> HIDE DEF cleared, t
        <5>1. dump.recs[t].href \in DOMAIN cleared
            BY <3>3 DEF Has
        <5>2. tmp'.files = [m \in (DOMAIN cleared \ {dump.recs[t].href}) \union {UniqueName(dump.recs[t])} |->
                 IF m = UniqueName(dump.recs[t]) THEN cleared[dump.recs[t].href]
                    ELSE Drop(cleared, {dump.recs[t].href})[m]]
            BY <4>1 DEF RenameFile, Put, Drop
        <5>3. \A m \in DOMAIN cleared \ {dump.recs[t].href} :
                 Drop(cleared, {dump.recs[t].href})[m] = cleared[m]
            BY DEF Drop
        <5> QED BY <5>1, <5>2, <5>3
      <4> QED BY <4>2, <2>5
    <3> QED BY <2>2, <3>1, <3>2, <3>3
  <2> QED BY <2>1, <2>3, <2>6 DEF DirsRight
<1>7. CASE WriteRepomd
  <2>1. /\ dump.pc = "rename" /\ UNCHANGED <<files, repomd, there>>
        /\ dump'.pc = IF there THEN "remove" ELSE "publish"
      BY <1>7 DEF WriteRepomd, dirVars, DumpTypeOK
  <2>2. tmp'.there = tmp.there /\ tmp'.files = tmp.files
      BY <1>7 DEF WriteRepomd, DumpTypeOK
  <2> QED BY <2>1, <2>2 DEF DirsRight
<1>8. CASE RemoveOldFile \/ RemoveOldRepomd
  <2>1. dump.pc = "remove" /\ UNCHANGED <<there, tmp, dump>>
      BY <1>8 DEF RemoveOldFile, RemoveOldRepomd
  <2>2. DOMAIN files' \subseteq DOMAIN files
      BY <1>8 DEF RemoveOldFile, RemoveOldRepomd, Drop
  <2> QED BY <2>1, <2>2 DEF DirsRight
<1>9. CASE OldRemoved
  <2>1. /\ dump.pc = "remove" /\ dump'.pc = "move" /\ UNCHANGED <<files, there, tmp>>
        /\ ~\E n \in DOMAIN files : Classic(n)
      BY <1>9 DEF OldRemoved, DGoTo, dirVars, DumpTypeOK
  <2> QED BY <2>1 DEF DirsRight
<1>10. CASE MoveOldFile
  <2>1. dump.pc = "move" /\ UNCHANGED <<there, dump>>
      BY <1>10 DEF MoveOldFile
  <2>2. DOMAIN files' \subseteq DOMAIN files
      BY <1>10 DEF MoveOldFile, Drop
  <2>3. tmp'.there = tmp.there
      BY <1>10 DEF MoveOldFile, DumpTypeOK
  <2> QED BY <2>1, <2>2, <2>3 DEF DirsRight
<1>11. CASE RemoveOutRepo
  <2>1. dump.pc = "move" /\ dump'.pc = "publish" /\ UNCHANGED <<files, tmp>> /\ DOMAIN files = {}
      BY <1>11 DEF RemoveOutRepo, DGoTo, dirVars, DumpTypeOK
  <2> QED BY <2>1 DEF DirsRight
<1>12. CASE Publish
  <2>1. dump'.pc = "off" /\ there' = TRUE /\ tmp' = NoTmp
      BY <1>12 DEF Publish, Exits, DumpTypeOK
  <2> QED BY <2>1 DEF DirsRight
<1>13. CASE CopyFile
  <2>1. PICK n \in DOMAIN tmp.files : files' = Put(files, n, tmp.files[n])
      BY <1>13 DEF CopyFile
  <2>2. dump.pc = "publish" /\ there /\ UNCHANGED <<there, tmp, dump>>
      BY <1>13 DEF CopyFile
  <2>3. \A m \in DOMAIN files' : Has(tmp.files, m) /\ files'[m] = tmp.files[m]
    <3>1. \A m \in DOMAIN files : Has(tmp.files, m) /\ files[m] = tmp.files[m]
        BY <2>2 DEF DirsRight
    <3> QED BY <2>1, <3>1 DEF Has, Put
  <2> QED BY <2>2, <2>3 DEF DirsRight
<1>14. CASE CopyRepomd
  <2>1. UNCHANGED <<files, there, tmp, dump>>
      BY <1>14 DEF CopyRepomd
  <2> QED BY <2>1 DEF DirsRight, Has
<1>15. CASE RemoveTmp
  <2>1. dump'.pc = "off" /\ there /\ UNCHANGED <<files, there>> /\ tmp' = NoTmp
      BY <1>15 DEF RemoveTmp, Exits, DumpTypeOK, dirVars
  <2> QED BY <2>1 DEF DirsRight
<1>16. CASE CleanUp
  <2>1. dump.pc = "off" /\ UNCHANGED <<files, there, dump>> /\ tmp' = NoTmp
      BY <1>16 DEF CleanUp, dirVars
  <2> QED BY <2>1 DEF DirsRight
<1>17. CASE UNCHANGED dumpVars
    BY <1>17 DEF DirsRight, dumpVars, dirVars, Has
<1> QED BY <1>1, <1>2, <1>3, <1>4, <1>5, <1>6, <1>7, <1>8, <1>9, <1>10, <1>11, <1>12, <1>13,
           <1>14, <1>15, <1>16, <1>17 DEF MergeDumpNext

-----------------------------------------------------------------------------
LEMMA WriteFilesStep ==
    ASSUME DumpTypeOK, DirsRight, NewRight, WriteFiles
    PROVE  NewRight'
<1>1. PICK bad : /\ tmp' = [tmp EXCEPT !.files = NewFiles(bad)]
                 /\ dump' = [dump EXCEPT !.pc = "fill", !.damaged = bad # {}]
    BY DEF WriteFiles
<1>2. /\ tmp'.files = NewFiles(bad) /\ dump'.pc = "fill" /\ dump'.opts = dump.opts
      /\ dump'.n = dump.n /\ dump'.damaged = (bad # {})
    BY <1>1 DEF DumpTypeOK
<1>3. ASSUME bad = {}, ~dump.opts.ext
      PROVE  AllMade'
  <2>1. \A t \in Asked(dump.opts) : (CHOOSE u \in Asked(dump.opts) : FileFor(u) = FileFor(t)) = t
      BY <1>3, OwnFiles, AskedPlain
  <2>2. DOMAIN tmp'.files = {FileFor(t) : t \in Asked(dump.opts)}
      BY <1>2 DEF NewFiles
  <2>3. \A t \in Asked(dump.opts) : tmp'.files[FileFor(t)] = Whole(dump.n, t)
    <3> TAKE t \in Asked(dump.opts)
    <3>1. FileFor(t) \in {FileFor(u) : u \in Asked(dump.opts)}
        OBVIOUS
    <3>2. NewFiles(bad)[FileFor(t)] = Made(dump.n, t, t \notin bad)
        BY <2>1, <3>1 DEF NewFiles
    <3>3. (t \notin bad) = TRUE
        BY <1>3
    <3> QED BY <1>2, <3>2, <3>3 DEF Whole
  <2> QED BY <1>2, <2>2, <2>3 DEF AllMade
<1> QED BY <1>2, <1>3 DEF NewRight

LEMMA FillRecordsStep ==
    ASSUME DumpTypeOK, DirsRight, NewRight, FillRecords
    PROVE  NewRight'
<1> DEFINE recs == [t \in Asked(dump.opts) |-> Filled(RecordFile(t), tmp.files)]
<1>1. dump' = [dump EXCEPT !.pc = "rename", !.k = 1, !.recs = recs] /\ tmp' = tmp
    BY DEF FillRecords
<1>2. /\ dump.pc = "fill" /\ dump'.pc = "rename" /\ dump'.recs = recs
      /\ dump'.opts = dump.opts /\ dump'.n = dump.n /\ dump'.damaged = dump.damaged
    BY <1>1 DEF DumpTypeOK, FillRecords, DAt
<1>3. ASSUME ~dump.damaged, ~dump.opts.ext
      PROVE  RecordsRight(recs, tmp.files) /\ \A n \in DOMAIN tmp.files : Named(recs, n)
  <2>1. AllMade
      BY <1>2, <1>3 DEF NewRight
  <2>2. \A t \in Asked(dump.opts) : RecordFile(t) = FileFor(t)
      BY <1>3, OwnFiles, AskedPlain
  <2>3. \A t \in Asked(dump.opts) :
            recs[t] = [href |-> FileFor(t), sum |-> Whole(dump.n, t)]
      BY <2>1, <2>2 DEF AllMade, Filled, Has
  <2>a. DOMAIN recs = Asked(dump.opts)
      OBVIOUS
  <2> HIDE DEF recs
  <2>4. \A t \in Asked(dump.opts) : RecordRight(t, recs[t]) /\ Kept(recs[t], tmp.files)
    <3> TAKE t \in Asked(dump.opts)
    <3>1. recs[t] = [href |-> FileFor(t), sum |-> Whole(dump.n, t)]
        BY <2>3, Zenon
    <3>2. FileFor(t) \in DOMAIN tmp.files /\ tmp.files[FileFor(t)] = Whole(dump.n, t)
        BY <2>1 DEF AllMade
    <3> QED BY <3>1, <3>2 DEF RecordRight, Kept, Has
  <2>5. \A n \in DOMAIN tmp.files : Named(recs, n)
      BY <2>1, <2>3, <2>a DEF AllMade, Named
  <2> QED BY <2>4, <2>5, <2>a DEF RecordsRight
<1> HIDE DEF recs
<1>4. ASSUME ~dump.damaged, ~dump.opts.ext
      PROVE  RecordsRight(dump.recs, tmp.files)' /\ \A n \in DOMAIN tmp'.files : Named(dump'.recs, n)
    BY <1>1, <1>2, <1>3, <1>4 DEF RecordsRight, RecordRight, Named
<1> QED BY <1>2, <1>4 DEF NewRight

LEMMA RenameRecordStep ==
    ASSUME DumpTypeOK, DirsRight, NewRight, RenameRecord
    PROVE  NewRight'
<1> DEFINE t       == RecordOrder[dump.k]
           rec     == dump.recs[t]
           cleared == RemoveTarget(rec, tmp.files)
<1>1. dump.pc = "rename" /\ dump'.pc = "rename" /\ dump'.opts = dump.opts
      /\ dump'.n = dump.n /\ dump'.damaged = dump.damaged
    BY DEF RenameRecord, DumpTypeOK, DAt
<1>2. \/ tmp' = tmp /\ dump'.recs = dump.recs
      \/ /\ t \in Asked(dump.opts) /\ NeedsRename(rec)
         /\ ~Has(cleared, rec.href)
         /\ tmp'.files = cleared /\ dump'.recs = dump.recs
      \/ /\ t \in Asked(dump.opts) /\ NeedsRename(rec)
         /\ tmp'.files = RenameFile(rec, cleared)
         /\ dump'.recs = [dump.recs EXCEPT ![t] = Renamed(@)]
    BY DEF RenameRecord, DumpTypeOK
<1>3. ASSUME ~dump.damaged, ~dump.opts.ext
      PROVE  RecordsRight(dump'.recs, tmp'.files) /\ \A n \in DOMAIN tmp'.files : Named(dump'.recs, n)
  <2>1. RecordsRight(dump.recs, tmp.files) /\ \A n \in DOMAIN tmp.files : Named(dump.recs, n)
      BY <1>1, <1>3 DEF NewRight
  <2>2. CASE tmp' = tmp /\ dump'.recs = dump.recs
      BY <2>1, <2>2
  <2>3. ASSUME t \in Asked(dump.opts), NeedsRename(rec)
        PROVE  /\ rec = [href |-> FileFor(t), sum |-> rec.sum]
               /\ rec.sum = Whole(dump.n, t)
               /\ UniqueName(rec) = [base |-> FileFor(t).base, sfx |-> FileFor(t).sfx, sum |-> rec.sum]
               /\ UniqueName(rec) # rec.href
               /\ rec.href \in DOMAIN tmp.files /\ tmp.files[rec.href] = rec.sum
    <3>1. RecordRight(t, rec) /\ Kept(rec, tmp.files)
        BY <2>1, <2>3 DEF RecordsRight
    <3>2. FileFor(t) = [base |-> FileFor(t).base, sfx |-> FileFor(t).sfx, sum |-> NoSum]
        BY OwnFiles
    <3>3. rec.href = FileFor(t)
        BY <3>1, <3>2, <2>3 DEF RecordRight, NeedsRename
    <3> HIDE DEF rec, t
    <3>4. rec = [href |-> rec.href, sum |-> Whole(dump.n, t)]
        BY <3>1 DEF RecordRight
    <3>5. UniqueName(rec) = [base |-> FileFor(t).base, sfx |-> FileFor(t).sfx, sum |-> rec.sum]
        BY <3>2, <3>3 DEF UniqueName
    <3>6. rec.sum # NoSum
        BY <2>3 DEF NeedsRename
    <3>7. rec.sum = Whole(dump.n, t)
        BY <3>4
    <3>8. UniqueName(rec) # rec.href
        BY <3>2, <3>3, <3>5, <3>6
    <3>9. rec.href \in DOMAIN tmp.files /\ tmp.files[rec.href] = rec.sum
        BY <3>1 DEF Kept, Has
    <3> QED BY <3>3, <3>4, <3>5, <3>7, <3>8, <3>9
  <2>4. ~(/\ t \in Asked(dump.opts) /\ NeedsRename(rec) /\ ~Has(cleared, rec.href))
      BY <2>3 DEF RemoveTarget, Drop, Has
  <2>5. ASSUME /\ t \in Asked(dump.opts) /\ NeedsRename(rec)
               /\ tmp'.files = RenameFile(rec, cleared)
               /\ dump'.recs = [dump.recs EXCEPT ![t] = Renamed(@)]
        PROVE  RecordsRight(dump'.recs, tmp'.files) /\ \A n \in DOMAIN tmp'.files : Named(dump'.recs, n)
    <3> DEFINE new == UniqueName(rec)
               old == rec.href
    <3>1. /\ DOMAIN tmp'.files = (DOMAIN tmp.files \ {old}) \union {new}
          /\ tmp'.files[new] = rec.sum
          /\ \A n \in DOMAIN tmp.files \ {old, new} : tmp'.files[n] = tmp.files[n]
      <4>1. DOMAIN cleared = DOMAIN tmp.files \ {new}
          BY DEF RemoveTarget, Drop
      <4>2. \A n \in DOMAIN cleared : cleared[n] = tmp.files[n]
          BY DEF RemoveTarget, Drop
      <4>3. old \in DOMAIN cleared /\ cleared[old] = rec.sum
          BY <2>3, <2>5, <4>1, <4>2
      <4> HIDE DEF rec, t, cleared, old, new
      <4>4. tmp'.files = Put(Drop(cleared, {old}), new, cleared[old])
          BY <2>5 DEF RenameFile, old, new
      <4>5. /\ DOMAIN tmp'.files = (DOMAIN cleared \ {old}) \union {new}
            /\ tmp'.files[new] = cleared[old]
          BY <4>4 DEF Put, Drop
      <4>6. \A n \in DOMAIN cleared \ {old} : n # new => tmp'.files[n] = cleared[n]
          BY <4>4 DEF Put, Drop
      <4> QED BY <4>1, <4>2, <4>3, <4>5, <4>6
    <3>2. /\ DOMAIN dump'.recs = Asked(dump.opts)
          /\ dump'.recs[t] = [href |-> new, sum |-> rec.sum]
          /\ \A u \in Asked(dump.opts) : u # t => dump'.recs[u] = dump.recs[u]
      <4>1. DOMAIN dump.recs = Asked(dump.opts)
          BY <2>1 DEF RecordsRight
      <4>2. Renamed(rec) = [href |-> new, sum |-> rec.sum]
          BY <2>3, <2>5 DEF Renamed
      <4> QED BY <2>5, <4>1, <4>2
    <3>3. ASSUME NEW u \in Asked(dump.opts), u # t
          PROVE  dump.recs[u].href \notin {old, new}
      <4>1. FileFor(u).base # FileFor(t).base \/ FileFor(u).sfx # FileFor(t).sfx
          BY <1>3, <2>5, <3>3, OwnFiles, AskedPlain
      <4>2. RecordRight(u, dump.recs[u])
          BY <2>1 DEF RecordsRight
      <4>3. /\ dump.recs[u].href.base = FileFor(u).base
            /\ dump.recs[u].href.sfx = FileFor(u).sfx
          BY <4>2, OwnFiles DEF RecordRight
      <4>4. /\ old.base = FileFor(t).base /\ old.sfx = FileFor(t).sfx
            /\ new.base = FileFor(t).base /\ new.sfx = FileFor(t).sfx
          BY <2>3, <2>5
      <4> QED BY <4>1, <4>3, <4>4
    <3>4. \A u \in Asked(dump.opts) :
             RecordRight(u, dump'.recs[u]) /\ Kept(dump'.recs[u], tmp'.files)
      <4> TAKE u \in Asked(dump.opts)
      <4>1. CASE u = t
        <5>1. RecordRight(t, dump'.recs[t])
          <6>1. FileFor(t) = [base |-> FileFor(t).base, sfx |-> FileFor(t).sfx, sum |-> NoSum]
              BY OwnFiles
          <6>2. [FileFor(t) EXCEPT !.sum = rec.sum] = new
              BY <2>3, <2>5, <6>1
          <6>3. rec.sum = Whole(dump.n, t)
              BY <2>3, <2>5
          <6> HIDE DEF t, rec, new
          <6> QED BY <3>2, <6>2, <6>3 DEF RecordRight
        <5>2. Kept(dump'.recs[t], tmp'.files)
            BY <3>1, <3>2 DEF Kept, Has
        <5> HIDE DEF t
        <5> QED BY <4>1, <5>1, <5>2
      <4>2. CASE u # t
        <5>1. RecordRight(u, dump.recs[u]) /\ Kept(dump.recs[u], tmp.files)
            BY <2>1 DEF RecordsRight
        <5>2. dump'.recs[u] = dump.recs[u] /\ dump.recs[u].href \notin {old, new}
            BY <3>2, <3>3, <4>2
        <5> QED BY <3>1, <5>1, <5>2 DEF Kept, Has
      <4> QED BY <4>1, <4>2
    <3>5. \A n \in DOMAIN tmp'.files : Named(dump'.recs, n)
      <4> TAKE n \in DOMAIN tmp'.files
      <4>1. CASE n = new
          BY <2>5, <3>2, <4>1 DEF Named
      <4>2. CASE n # new
        <5>1. n \in DOMAIN tmp.files /\ n # old
            BY <3>1, <4>2
        <5>2. PICK u \in Asked(dump.opts) : dump.recs[u].href = n
            BY <2>1, <5>1 DEF RecordsRight, Named
        <5> QED BY <3>2, <5>1, <5>2 DEF Named
      <4> QED BY <4>1, <4>2
    <3> QED BY <3>2, <3>4, <3>5 DEF RecordsRight
  <2> QED BY <1>2, <2>2, <2>4, <2>5
<1>4. ASSUME ~dump.damaged, ~dump.opts.ext
      PROVE  RecordsRight(dump.recs, tmp.files)'
    BY <1>1, <1>3, <1>4 DEF RecordsRight, RecordRight
<1> QED BY <1>1, <1>3, <1>4 DEF NewRight

-----------------------------------------------------------------------------
\* What a call that could write its files has made is a repository.
LEMMA NewIsSound ==
    ASSUME NEW recs, NEW fs, \A t \in DOMAIN recs : Kept(recs[t], fs),
           NEW md, md = [whole |-> TRUE, revision |-> "", records |-> recs]
    PROVE  Sound(fs, md)
BY DEF Sound

LEMMA NewStep == DumpTypeOK /\ DirsRight /\ NewRight /\ [MergeDumpNext]_dumpVars => NewRight'
<1> SUFFICES ASSUME DumpTypeOK, DirsRight, NewRight, [MergeDumpNext]_dumpVars PROVE NewRight'
    OBVIOUS
<1>1. CASE \/ Refused \/ CannotLoad \/ KillDump \/ Publish \/ RemoveTmp
           \/ \E o \in DumpOptions : StartDump(o)
  <2>1. dump'.pc \in {"off", "load"}
      BY <1>1 DEF Refused, CannotLoad, KillDump, Publish, RemoveTmp, StartDump, NoDump, Exits,
                  DumpTypeOK
  <2> QED BY <2>1 DEF NewRight
<1>2. CASE WriteFiles
    BY <1>2, WriteFilesStep
<1>3. CASE FillRecords
    BY <1>3, FillRecordsStep
<1>4. CASE RenameRecord
    BY <1>4, RenameRecordStep
<1>5. CASE WriteRepomd
  <2>1. PICK whole \in {TRUE, faults = MaxDumpFaults} :
           /\ tmp' = [tmp EXCEPT !.repomd =
                  IF whole THEN [whole |-> TRUE, revision |-> "", records |-> dump.recs]
                           ELSE NoRepomd]
           /\ dump' = [dump EXCEPT !.pc = IF there THEN "remove" ELSE "publish",
                                   !.damaged = @ \/ ~whole]
      BY <1>5 DEF WriteRepomd
  <2>2. /\ dump.pc = "rename" /\ dump'.pc \in {"remove", "publish"} /\ dump'.opts = dump.opts
        /\ dump'.n = dump.n /\ dump'.recs = dump.recs /\ tmp'.files = tmp.files
      BY <2>1, <1>5 DEF WriteRepomd, DAt, DumpTypeOK
  <2>3. ASSUME ~dump'.damaged
        PROVE  /\ ~dump.damaged
               /\ tmp'.repomd = [whole |-> TRUE, revision |-> "", records |-> dump.recs]
    <3>1. dump'.damaged = (dump.damaged \/ ~whole)
        BY <2>1 DEF DumpTypeOK
    <3>2. ~dump.damaged /\ whole
        BY <2>3, <3>1
    <3> QED BY <2>1, <3>2 DEF DumpTypeOK
  <2> QED BY <2>2, <2>3 DEF NewRight, RecordsRight, RecordRight
<1>6. CASE RemoveOldFile \/ RemoveOldRepomd \/ CopyFile \/ CopyRepomd
  <2>1. UNCHANGED <<tmp, dump>>
      BY <1>6 DEF RemoveOldFile, RemoveOldRepomd, CopyFile, CopyRepomd
  <2> QED BY <2>1 DEF NewRight, RecordsRight, RecordRight, AllMade
<1>7. CASE OldRemoved \/ RemoveOutRepo
  <2>1. /\ dump.pc \in {"remove", "move"} /\ dump'.pc \in {"move", "publish"} /\ tmp' = tmp
        /\ dump'.opts = dump.opts /\ dump'.n = dump.n /\ dump'.recs = dump.recs
        /\ dump'.damaged = dump.damaged
      BY <1>7 DEF OldRemoved, RemoveOutRepo, DGoTo, DAt, DumpTypeOK
  <2> QED BY <2>1 DEF NewRight, RecordsRight, RecordRight
<1>8. CASE MoveOldFile
  <2>1. dump.pc = "move" /\ dump' = dump
      BY <1>8 DEF MoveOldFile, DAt
  <2>2. PICK n \in DOMAIN files :
           tmp' = IF Has(tmp.files, n) THEN tmp ELSE [tmp EXCEPT !.files = Put(@, n, files[n])]
      BY <1>8 DEF MoveOldFile
  <2>3. ~Classic(n)
      BY <2>1 DEF DirsRight
  <2>4. CASE tmp' = tmp
      BY <2>1, <2>4 DEF NewRight, RecordsRight, RecordRight
  <2>5. CASE tmp' = [tmp EXCEPT !.files = Put(@, n, files[n])] /\ ~Has(tmp.files, n)
    <3>1. tmp'.repomd = tmp.repomd /\ tmp'.files = Put(tmp.files, n, files[n])
        BY <2>5 DEF DumpTypeOK
    <3>2. /\ DOMAIN tmp'.files = DOMAIN tmp.files \union {n}
          /\ \A m \in DOMAIN tmp.files : tmp'.files[m] = tmp.files[m]
        BY <3>1, <2>5 DEF Put, Has
    <3>3. ASSUME NEW recs, RecordsRight(recs, tmp.files)
          PROVE  RecordsRight(recs, tmp.files)'
        BY <3>2, <3>3, <2>1 DEF RecordsRight, RecordRight, Kept, Has
    <3> QED BY <2>1, <2>3, <3>1, <3>2, <3>3 DEF NewRight
  <2> QED BY <2>2, <2>4, <2>5
<1>9. CASE CleanUp
    BY <1>9 DEF CleanUp, DAt, NewRight
<1>10. CASE UNCHANGED dumpVars
    BY <1>10 DEF dumpVars, NewRight, RecordsRight, RecordRight, AllMade
<1> QED BY <1>1, <1>2, <1>3, <1>4, <1>5, <1>6, <1>7, <1>8, <1>9, <1>10 DEF MergeDumpNext

LEMMA CompleteStep ==
    DumpTypeOK /\ DirsRight /\ NewRight /\ MergedComplete /\ [MergeDumpNext]_dumpVars
        => MergedComplete'
<1> SUFFICES ASSUME DumpTypeOK, DirsRight, NewRight, MergedComplete, [MergeDumpNext]_dumpVars,
                    Succeeded', ~dump'.opts.ext
             PROVE  PublishedAsAsked'
    BY DEF MergedComplete
<1>1. CASE Publish \/ RemoveTmp
  <2>1. /\ dump.pc = "publish" /\ dump'.opts = dump.opts /\ dump'.n = dump.n
        /\ dump'.damaged = dump.damaged /\ tmp' = NoTmp
      BY <1>1 DEF Publish, RemoveTmp, Exits, DAt, DumpTypeOK
  <2>2. /\ RecordsRight(dump.recs, tmp.files)
        /\ tmp.repomd = [whole |-> TRUE, revision |-> "", records |-> dump.recs]
        /\ \A n \in DOMAIN tmp.files : Classic(n) => Named(dump.recs, n)
      BY <2>1 DEF NewRight, Succeeded
  <2>3. there' /\ repomd' = tmp.repomd /\ DOMAIN files' = DOMAIN tmp.files
        /\ \A n \in DOMAIN files' : files'[n] = tmp.files[n]
    <3>1. CASE Publish
        BY <3>1 DEF Publish
    <3>2. CASE RemoveTmp
        BY <2>1, <3>2 DEF RemoveTmp, Copied_, DirsRight, dirVars, Has
    <3> QED BY <1>1, <3>1, <3>2
  <2>4. ~tmp'.there
      BY <2>1 DEF NoTmp
  <2>5. /\ repomd'.whole /\ repomd'.records = dump.recs
    <3>1. repomd' = [whole |-> TRUE, revision |-> "", records |-> dump.recs]
        BY <2>2, <2>3
    <3> QED BY <3>1
  <2>6. \A t \in DOMAIN dump.recs :
            Kept(dump.recs[t], files') /\ dump.recs[t].sum = Whole(dump.n, t)
    <3> TAKE t \in DOMAIN dump.recs
    <3>1. RecordRight(t, dump.recs[t]) /\ Kept(dump.recs[t], tmp.files)
        BY <2>2 DEF RecordsRight
    <3>2. dump.recs[t].sum = Whole(dump.n, t)
        BY <3>1 DEF RecordRight
    <3> QED BY <2>3, <3>1, <3>2 DEF Kept, Has
  <2>7. DOMAIN dump.recs = Asked(dump.opts)
      BY <2>2 DEF RecordsRight
  <2>8. \A n \in DOMAIN files' : Classic(n) => Named(dump.recs, n)
      BY <2>2, <2>3
  <2>9. \A t \in DOMAIN dump.recs : dump.recs[t].sum = Made(dump'.n, t, TRUE)
      BY <2>1, <2>6 DEF Whole
  <2>10. \A n \in DOMAIN files' : Classic(n) => \E t \in DOMAIN dump.recs : dump.recs[t].href = n
      BY <2>8 DEF Named
  <2>11. \A t \in DOMAIN dump.recs : Kept(dump.recs[t], files')
      BY <2>6
  <2>12. DOMAIN dump.recs = Asked(dump'.opts)
      BY <2>1, <2>7
  <2> QED BY <2>3, <2>4, <2>5, <2>9, <2>10, <2>11, <2>12 DEF PublishedAsAsked
<1>2. CASE \/ Refused \/ CannotLoad \/ KillDump \/ \E o \in DumpOptions : StartDump(o)
  <2>1. dump'.exit # "0"
      BY <1>2 DEF Refused, CannotLoad, KillDump, StartDump, NoDump, Exits, DumpTypeOK
  <2> QED BY <2>1 DEF Succeeded
<1>3. CASE \/ WriteFiles \/ FillRecords \/ RenameRecord \/ WriteRepomd \/ RemoveOldFile
           \/ RemoveOldRepomd \/ OldRemoved \/ MoveOldFile \/ RemoveOutRepo \/ CopyFile \/ CopyRepomd
  <2>1. dump.pc # "off"
      BY <1>3 DEF WriteFiles, FillRecords, RenameRecord, WriteRepomd, RemoveOldFile,
           RemoveOldRepomd, OldRemoved, MoveOldFile, RemoveOutRepo, CopyFile, CopyRepomd, DAt
  <2>2. dump'.exit = dump.exit
      BY <1>3 DEF WriteFiles, FillRecords, RenameRecord, WriteRepomd, RemoveOldFile,
           RemoveOldRepomd, OldRemoved, MoveOldFile, RemoveOutRepo, CopyFile, CopyRepomd,
           DGoTo, DumpTypeOK
  <2> QED BY <2>1, <2>2 DEF DumpTypeOK, Succeeded
<1>4. CASE CleanUp
  <2>1. UNCHANGED dump /\ tmp.there
      BY <1>4 DEF CleanUp
  <2> QED BY <2>1 DEF MergedComplete, PublishedAsAsked, Succeeded
<1>5. CASE UNCHANGED dumpVars
    BY <1>5 DEF dumpVars, dirVars, MergedComplete, PublishedAsAsked, Succeeded, Kept, Has
<1> QED BY <1>1, <1>2, <1>3, <1>4, <1>5 DEF MergeDumpNext

LEMMA DumpInvInit == MergeDumpInit => DumpInv
<1> SUFFICES ASSUME MergeDumpInit PROVE DumpInv
    OBVIOUS
<1>1. /\ there \in BOOLEAN /\ (~there => files = <<>>) /\ pinned \in BOOLEAN
      /\ tmp = NoTmp
    BY MergeDumpAssumption DEF MergeDumpInit
<1>2. /\ dump.pc = "off" /\ dump.n = 0 /\ dump.k = 0 /\ dump.damaged = FALSE
      /\ dump.exit = "none" /\ dump.opts = NoDump.opts
      /\ dump = [pc |-> dump.pc, n |-> dump.n, k |-> dump.k, recs |-> dump.recs,
                 damaged |-> dump.damaged, exit |-> dump.exit, opts |-> dump.opts]
    BY DEF MergeDumpInit, NoDump
<1>3. DumpTypeOK
  <2>1. tmp.there = FALSE /\ tmp = [there |-> tmp.there, files |-> tmp.files, repomd |-> tmp.repomd]
      BY <1>1 DEF NoTmp
  <2>2. dump.n \in 0..MaxCalls
      BY <1>2, MergeDumpAssumption
  <2>3. tmp.there \in BOOLEAN
      BY <2>1, Zenon
  <2>6. dump.damaged \in BOOLEAN
      BY <1>2, Zenon
  <2>7. dump.k \in Nat
      BY <1>2
  <2>4. dump.opts \in DumpOptions \union {NoDump.opts} /\ dump.pc \in DumpPlaces
      BY <1>2 DEF DumpPlaces
  <2>5. dump.pc # "off" => dump.n # 0 /\ dump.exit = "none"
      BY <1>2
  <2> QED BY <1>1, <1>2, <2>1, <2>2, <2>3, <2>4, <2>5, <2>6, <2>7, Zenon DEF DumpTypeOK
<1>4. DirsRight
    BY <1>1, <1>2 DEF DirsRight
<1>5. NewRight /\ MergedComplete
    BY <1>2 DEF NewRight, MergedComplete, Succeeded
<1> QED BY <1>3, <1>4, <1>5 DEF DumpInv

\* The invariant behind the two results about .repodata/ and repodata/.
THEOREM DumpInductive == MergeDumpSpec => []DumpInv
<1>1. MergeDumpInit => DumpInv
    BY DumpInvInit
<1>2. DumpInv /\ [MergeDumpNext]_dumpVars => DumpInv'
    BY DumpTypeStep, DirsStep, NewStep, CompleteStep DEF DumpInv
<1> QED BY <1>1, <1>2, PTL DEF MergeDumpSpec

\* A successful mergerepo_c leaves the repository that was asked for: what
\* dump_merged_metadata has made in .repodata/ is all that arrives in repodata/.
THEOREM Merged == MergeDumpSpec => []MergedComplete
<1>1. DumpInv => MergedComplete
    BY DEF DumpInv
<1> QED BY <1>1, DumpInductive, PTL

-----------------------------------------------------------------------------
\* While the old metadata are removed the new repository is whole.
LEMMA NewThere ==
    ASSUME NewRight, dump.pc \in {"remove", "move", "publish"}, ~dump.damaged, ~dump.opts.ext
    PROVE  Sound(tmp.files, tmp.repomd)
BY NewIsSound DEF NewRight, RecordsRight

LEMMA SomewhereStep ==
    DumpInv /\ NewRight' /\ [MergeDumpNext]_dumpVars
       => (Somewhere /\ ~dump'.damaged /\ ~dump.opts.ext => Somewhere')
<1> SUFFICES ASSUME DumpTypeOK, DirsRight, NewRight, NewRight', [MergeDumpNext]_dumpVars,
                    Somewhere, ~dump'.damaged, ~dump.opts.ext
             PROVE  Somewhere'
    BY DEF DumpInv
<1>1. CASE \/ Refused \/ CannotLoad \/ FillRecords \/ KillDump
  <2>1. UNCHANGED <<files, repomd, tmp>>
      BY <1>1 DEF Refused, CannotLoad, FillRecords, KillDump, dirVars
  <2> QED BY <2>1 DEF Somewhere, Sound, Kept, Has
<1>2. CASE CleanUp
  <2>1. Sound(files, repomd) /\ UNCHANGED <<files, repomd>>
      BY <1>2 DEF CleanUp, dirVars
  <2> QED BY <2>1 DEF Somewhere, Sound, Kept, Has
<1>3. CASE \/ WriteFiles \/ RenameRecord \/ WriteRepomd \/ \E o \in DumpOptions : StartDump(o)
  <2>1. UNCHANGED <<files, repomd>>
      BY <1>3 DEF WriteFiles, RenameRecord, WriteRepomd, StartDump, dirVars
  <2>2. tmp.repomd = NoRepomd
      BY <1>3 DEF WriteFiles, RenameRecord, WriteRepomd, StartDump, DAt, DirsRight, NoTmp
  <2>3. Sound(files, repomd)
    <3>1. ~NoRepomd.whole
        BY DEF NoRepomd
    <3> QED BY <2>2, <3>1 DEF Somewhere, Sound
  <2> QED BY <2>1, <2>3 DEF Somewhere, Sound, Kept, Has
<1>4. CASE \/ RemoveOldFile \/ RemoveOldRepomd \/ OldRemoved \/ MoveOldFile \/ RemoveOutRepo
           \/ CopyFile \/ CopyRepomd
  <2>1. dump'.pc \in {"remove", "move", "publish"} /\ dump'.opts = dump.opts
      BY <1>4 DEF RemoveOldFile, RemoveOldRepomd, OldRemoved, MoveOldFile, RemoveOutRepo,
                  CopyFile, CopyRepomd, DAt, DGoTo, DumpTypeOK
  <2>2. /\ RecordsRight(dump.recs, tmp.files)'
        /\ tmp'.repomd = [whole |-> TRUE, revision |-> "", records |-> dump'.recs]
      BY <2>1 DEF NewRight
  <2>3. Sound(tmp'.files, tmp'.repomd)
    <3>1. \A t \in DOMAIN dump'.recs : Kept(dump'.recs[t], tmp'.files)
        BY <2>2 DEF RecordsRight
    <3> QED BY <2>2, <3>1, NewIsSound
  <2> QED BY <2>3 DEF Somewhere, Sound, Kept, Has
<1>5. CASE Publish \/ RemoveTmp
  <2>1. dump.pc = "publish" /\ dump'.damaged = dump.damaged
      BY <1>5 DEF Publish, RemoveTmp, Exits, DAt, DumpTypeOK
  <2>2. Sound(tmp.files, tmp.repomd)
      BY <2>1, NewThere
  <2>3. /\ repomd' = tmp.repomd /\ DOMAIN files' = DOMAIN tmp.files
        /\ \A n \in DOMAIN files' : files'[n] = tmp.files[n]
    <3>1. CASE Publish
        BY <3>1 DEF Publish
    <3>2. CASE RemoveTmp
        BY <2>1, <3>2 DEF RemoveTmp, Copied_, DirsRight, dirVars, Has
    <3> QED BY <1>5, <3>1, <3>2
  <2> QED BY <2>2, <2>3 DEF Somewhere, Sound, Kept, Has
<1>6. CASE UNCHANGED dumpVars
    BY <1>6 DEF dumpVars, dirVars, Somewhere, Sound, Kept, Has
<1> QED BY <1>1, <1>2, <1>3, <1>4, <1>5, <1>6 DEF MergeDumpNext

LEMMA OthersStep ==
    DumpInv /\ [MergeDumpNext]_dumpVars
       => (~DAt("off") => Olds \subseteq DOMAIN files' \union DOMAIN tmp'.files)
<1> SUFFICES ASSUME DumpTypeOK, DirsRight, [MergeDumpNext]_dumpVars, dump.pc # "off",
                    NEW n \in Olds
             PROVE  n \in DOMAIN files' \union DOMAIN tmp'.files
    BY DEF DumpInv, DAt
<1>1. \/ n \in DOMAIN files /\ ~Classic(n)
      \/ n \in DOMAIN tmp.files /\ tmp.files[n].data = Version[0]
    BY DEF Olds
<1>2. ASSUME UNCHANGED <<files, tmp>> PROVE n \in DOMAIN files' \union DOMAIN tmp'.files
    BY <1>1, <1>2
<1>3. CASE \/ CannotLoad \/ FillRecords \/ KillDump \/ RemoveOldRepomd \/ OldRemoved
           \/ RemoveOutRepo \/ CopyRepomd
    BY <1>2, <1>3 DEF CannotLoad, FillRecords, KillDump, RemoveOldRepomd, OldRemoved,
                      RemoveOutRepo, CopyRepomd, dirVars
<1>4. CASE WriteFiles \/ RenameRecord
  <2>1. dump.pc \in {"load", "rename"} /\ files' = files
      BY <1>4 DEF WriteFiles, RenameRecord, DAt, dirVars
  <2>2. n \in DOMAIN files
    <3>1. dump.pc = "load" => tmp.files = <<>>
        BY DEF DirsRight
    <3> QED BY <1>1, <2>1, <3>1 DEF DirsRight
  <2> QED BY <2>1, <2>2
<1>5. CASE WriteRepomd
  <2>1. files' = files /\ tmp'.files = tmp.files
      BY <1>5 DEF WriteRepomd, dirVars, DumpTypeOK
  <2> QED BY <1>1, <2>1
<1>6. CASE RemoveOldFile
  <2>1. PICK m \in DOMAIN files : Classic(m) /\ files' = Drop(files, {m})
      BY <1>6 DEF RemoveOldFile
  <2>2. DOMAIN files' = DOMAIN files \ {m}
      BY <2>1 DEF Drop
  <2>3. tmp' = tmp
      BY <1>6 DEF RemoveOldFile
  <2> QED BY <1>1, <2>1, <2>2, <2>3
<1>7. CASE MoveOldFile
  <2>1. PICK m \in DOMAIN files :
          /\ files' = Drop(files, {m})
          /\ tmp' = IF Has(tmp.files, m) THEN tmp ELSE [tmp EXCEPT !.files = Put(@, m, files[m])]
      BY <1>7 DEF MoveOldFile
  <2>2. DOMAIN files' = DOMAIN files \ {m}
      BY <2>1 DEF Drop
  <2>3. DOMAIN tmp'.files = DOMAIN tmp.files \union {m}
    <3>1. CASE Has(tmp.files, m)
        BY <2>1, <3>1 DEF Has
    <3>2. CASE ~Has(tmp.files, m)
      <4>1. tmp'.files = Put(tmp.files, m, files[m])
          BY <2>1, <3>2 DEF DumpTypeOK
      <4> QED BY <4>1 DEF Put
    <3> QED BY <3>1, <3>2
  <2> QED BY <1>1, <2>2, <2>3
<1>8. CASE Publish
  <2>1. ~there /\ files' = tmp.files
      BY <1>8 DEF Publish
  <2> QED BY <1>1, <2>1 DEF DirsRight
<1>9. CASE CopyFile
  <2>1. tmp' = tmp
      BY <1>9 DEF CopyFile
  <2>2. DOMAIN files \subseteq DOMAIN files'
      BY <1>9 DEF CopyFile, Put
  <2> QED BY <1>1, <2>1, <2>2
<1>10. CASE RemoveTmp
  <2>1. DOMAIN tmp.files \subseteq DOMAIN files' /\ files' = files
      BY <1>10 DEF RemoveTmp, Copied_, dirVars
  <2> QED BY <1>1, <2>1
<1>11. CASE \/ Refused \/ CleanUp \/ \E o \in DumpOptions : StartDump(o)
    BY <1>11 DEF Refused, CleanUp, StartDump, DAt
<1>12. CASE UNCHANGED dumpVars
    BY <1>2, <1>12 DEF dumpVars, dirVars
<1> QED BY <1>3, <1>4, <1>5, <1>6, <1>7, <1>8, <1>9, <1>10, <1>11, <1>12 DEF MergeDumpNext

\* Wherever mergerepo_c is killed, a repository that was there is there, in
\* repodata/ or whole in .repodata/, and so is what was beside it.
THEOREM NothingIsLost == MergeDumpSpec => NothingLost
<1>1. DumpInv /\ DumpInv' /\ [MergeDumpNext]_dumpVars
        => [Somewhere /\ ~dump'.damaged /\ ~dump.opts.ext => Somewhere']_dumpVars
    BY SomewhereStep DEF DumpInv
<1>2. DumpInv /\ DumpInv' /\ [MergeDumpNext]_dumpVars
        => [~DAt("off") => Olds \subseteq DOMAIN files' \union DOMAIN tmp'.files]_dumpVars
    BY OthersStep
<1> QED BY <1>1, <1>2, DumpInductive, PTL DEF MergeDumpSpec, NothingLost, RepositorySomewhere, OthersKept

-----------------------------------------------------------------------------
(***************************************************************************)
(* The merge.  That nothing is freed twice rests on every package that has *)
(* been loaded having one owner: the table it was loaded into, the merged  *)
(* repository, that of --noarch-repo, or nobody once it is freed (Owners). *)
(***************************************************************************)

AllObjects == NoarchRepo \union UNION {Loaded(r) : r \in Repos}

Before == {"koji", "builds", "visit"}

MergeTypeOK ==
    /\ call \in Calls
    /\ pc \in Before \union {"load", "merge", "merged", "end", "crashed"}
    /\ repo \in Nat \ {0} /\ loaded \in Int
    /\ pc = "koji" => repo = 1
    /\ pc \in Before \union {"load", "merge"} => loaded >= 0 /\ noarch = NoarchRepo
    /\ pc \in Before => merged = NoMap /\ freed = <<>> /\ used = {}
    /\ pc = "merge" => repo \in Repos /\ left \subseteq table
    /\ pc \notin {"merge", "crashed"} => table = {}
    /\ table \subseteq Loaded(repo)
    /\ noarch \subseteq NoarchRepo
    /\ freed \in Seq(AllObjects)
    /\ \A n \in DOMAIN merged :
         /\ merged[n] \in Seq(AllObjects)
         /\ \A i \in DOMAIN merged[n] : merged[n][i].pkg.name = n

\* Every object has one owner: when a package of --noarch-repo is merged it is
\* not replaced later, and the table of --noarch-repo learns of it.
OneOwner == call.noarch = {} \/ (Method \in {"repo", "all"} /\ loaded >= 0)

\* The packages of r have been loaded.
Arrived(r) == r < repo \/ (r = repo /\ pc = "merge")

Owners ==
    /\ IsInjective(freed)
    /\ pc # "end" => ToSet(freed) \cap (MergedObjects \union noarch \union table) = {}
    /\ MergedObjects \cap table = {}
    /\ pc \in {"load", "merge"} =>
          \A x \in MergedObjects \union ToSet(freed) : Arrived(x.repo)
    /\ pc \in {"load", "merge", "merged"} =>
          \A r \in Repos : Arrived(r) => Loaded(r) \subseteq table \union MergedObjects \union ToSet(freed)
    /\ \A x \in MergedObjects : x.repo = 0 => x.pkg.href \in used
    /\ \A h \in used : \E x \in MergedObjects : x.repo = 0 /\ x.pkg.href = h
    /\ pc = "merged" =>
         /\ noarch = {n \in NoarchRepo : n.pkg.href \notin used}
         /\ loaded >= 0 => repo \notin Repos
    /\ pc = "end" /\ loaded >= 0 => AllObjects \ MergedObjects \subseteq ToSet(freed)

OwnInv == MergeTypeOK /\ (OneOwner => Owners)

-----------------------------------------------------------------------------
\* The sequence of a finite set has each member once.
LEMMA SetToSeqIs ==
    ASSUME NEW S, IsFiniteSet(S)
    PROVE  /\ SetToSeq(S) \in Seq(S) /\ IsInjective(SetToSeq(S)) /\ ToSet(SetToSeq(S)) = S
<1> DEFINE n == Cardinality(S)
           f == SetToSeq(S)
<1>1. n \in Nat /\ ExistsBijection(1..n, S)
    BY FS_CardinalityType
<1>2. f \in [1..n -> S] /\ IsInjective(f)
  <2>1. \E g \in [1..n -> S] : IsInjective(g)
      BY <1>1 DEF ExistsBijection, Bijection, Injection
  <2> QED BY <2>1 DEF SetToSeq
<1>3. f \in Surjection(1..n, S)
  <2>1. f \in Injection(1..n, S)
      BY <1>2 DEF Injection
  <2>2. Cardinality(1..n) = n
    <3>1. n \in Int /\ 1..n = 1..n
        BY <1>1
    <3> HIDE DEF n
    <3>2. Cardinality(1..n) = IF 1 > n THEN 0 ELSE n - 1 + 1
        BY <3>1, FS_Interval
    <3>3. n \in Nat
        BY <1>1
    <3> QED BY <3>2, <3>3
  <2> QED BY <2>1, <2>2, FS_Injection
<1> HIDE DEF f, n
<1>4. f \in Seq(S) /\ DOMAIN f = 1..n
    BY <1>1, <1>2
<1>5. ToSet(f) = S
    BY <1>2, <1>3, <1>4 DEF ToSet, Surjection
<1> QED BY <1>2, <1>4, <1>5 DEF f

\* Two lists without a common member, put behind each other.
LEMMA ConcatIs ==
    ASSUME NEW S, NEW s \in Seq(S), NEW t \in Seq(S)
    PROVE  /\ s \o t \in Seq(S) /\ ToSet(s \o t) = ToSet(s) \union ToSet(t)
           /\ IsInjective(s) /\ IsInjective(t) /\ ToSet(s) \cap ToSet(t) = {}
                => IsInjective(s \o t)
<1>1. /\ s \o t \in Seq(S) /\ Len(s \o t) = Len(s) + Len(t)
      /\ \A i \in 1 .. Len(s) + Len(t) :
            (s \o t)[i] = IF i <= Len(s) THEN s[i] ELSE t[i - Len(s)]
    BY ConcatProperties
<1>2. /\ Len(s) \in Nat /\ DOMAIN s = 1..Len(s) /\ Len(t) \in Nat /\ DOMAIN t = 1..Len(t)
      /\ DOMAIN (s \o t) = 1 .. Len(s) + Len(t)
    BY <1>1, LenProperties
<1>3. ToSet(s \o t) \subseteq ToSet(s) \union ToSet(t)
  <2> SUFFICES ASSUME NEW i \in 1 .. Len(s) + Len(t)
               PROVE  (s \o t)[i] \in ToSet(s) \union ToSet(t)
      BY <1>2 DEF ToSet
  <2>1. CASE i <= Len(s)
      BY <1>1, <1>2, <2>1 DEF ToSet
  <2>2. CASE i > Len(s)
    <3>1. i - Len(s) \in 1..Len(t)
        BY <1>2, <2>2
    <3> QED BY <1>1, <1>2, <2>2, <3>1 DEF ToSet
  <2> QED BY <1>2, <2>1, <2>2
<1>4. ToSet(s) \subseteq ToSet(s \o t)
  <2> SUFFICES ASSUME NEW i \in 1 .. Len(s) PROVE s[i] \in ToSet(s \o t)
      BY <1>2 DEF ToSet
  <2>1. i \in 1 .. Len(s) + Len(t) /\ (s \o t)[i] = s[i]
      BY <1>1, <1>2
  <2> QED BY <1>2, <2>1 DEF ToSet
<1>5. ToSet(t) \subseteq ToSet(s \o t)
  <2> SUFFICES ASSUME NEW i \in 1 .. Len(t) PROVE t[i] \in ToSet(s \o t)
      BY <1>2 DEF ToSet
  <2>1. Len(s) + i \in 1 .. Len(s) + Len(t) /\ (Len(s) + i) - Len(s) = i
      BY <1>2
  <2>2. (s \o t)[Len(s) + i] = t[i]
      BY <1>1, <1>2, <2>1
  <2> QED BY <1>2, <2>1, <2>2 DEF ToSet
<1>6. ASSUME IsInjective(s), IsInjective(t), ToSet(s) \cap ToSet(t) = {}
      PROVE  IsInjective(s \o t)
  <2> SUFFICES ASSUME NEW i \in 1 .. Len(s) + Len(t), NEW j \in 1 .. Len(s) + Len(t),
                      (s \o t)[i] = (s \o t)[j]
               PROVE  i = j
      BY <1>2 DEF IsInjective
  <2>1. \A k \in 1 .. Len(s) + Len(t) :
           \/ k \in 1..Len(s) /\ (s \o t)[k] = s[k] /\ s[k] \in ToSet(s)
           \/ k > Len(s) /\ k - Len(s) \in 1..Len(t) /\ (s \o t)[k] = t[k - Len(s)]
              /\ t[k - Len(s)] \in ToSet(t)
    <3> TAKE k \in 1 .. Len(s) + Len(t)
    <3>1. CASE k <= Len(s)
        BY <1>1, <1>2, <3>1 DEF ToSet
    <3>2. CASE k > Len(s)
      <4>1. k - Len(s) \in 1..Len(t)
          BY <1>2, <3>2
      <4> QED BY <1>1, <1>2, <3>2, <4>1 DEF ToSet
    <3> QED BY <1>2, <3>1, <3>2
  <2>2. CASE i \in 1..Len(s) /\ j \in 1..Len(s)
      BY <1>2, <1>6, <2>1, <2>2 DEF IsInjective
  <2>3. CASE i > Len(s) /\ j > Len(s)
    <3>1. i - Len(s) = j - Len(s)
        BY <1>2, <1>6, <2>1, <2>3 DEF IsInjective
    <3> QED BY <1>2, <3>1
  <2>4. CASE ~(i \in 1..Len(s) /\ j \in 1..Len(s)) /\ ~(i > Len(s) /\ j > Len(s))
      BY <1>2, <1>6, <2>1, <2>4
  <2> QED BY <2>2, <2>3, <2>4
<1> QED BY <1>1, <1>3, <1>4, <1>5, <1>6

\* The first of some places.
LEMMA MinIs ==
    ASSUME NEW S, S \subseteq Nat, S # {}
    PROVE  Min(S) \in S /\ \A i \in S : Min(S) <= i
<1> DEFINE Below(m) == 0 .. m
           All == {Below(m) : m \in S}
<1>1. All \subseteq FiniteSubsetsOf(Nat)
  <2>1. \A m \in S : Below(m) \in SUBSET Nat /\ IsFiniteSet(Below(m))
      BY FS_Interval
  <2>2. \A m \in S : Below(m) \in FiniteSubsetsOf(Nat)
      BY <2>1 DEF FiniteSubsetsOf
  <2> HIDE DEF Below
  <2> QED BY <2>2
<1>2. All # {}
    OBVIOUS
<1>3. PICK B \in All : \A C \in All : <<C, B>> \notin StrictSubsetOrdering(Nat)
  <2> HIDE DEF All
  <2> QED BY <1>1, <1>2, FS_StrictSubsetOrderingWellFounded, WFMin
<1>4. PICK m \in S : B = Below(m)
    BY <1>3
<1>5. ASSUME NEW i \in S PROVE m <= i
  <2> SUFFICES ASSUME i < m PROVE FALSE
      OBVIOUS
  <2>1. Below(i) \in All
      OBVIOUS
  <2>2. Below(i) \subseteq Below(m) /\ m \in Below(m) /\ m \notin Below(i) /\ Below(m) \subseteq Nat
      OBVIOUS
  <2>3. <<Below(i), Below(m)>> \in StrictSubsetOrdering(Nat)
    <3> HIDE DEF Below
    <3> QED BY <2>2 DEF StrictSubsetOrdering
  <2> HIDE DEF All
  <2> QED BY <1>3, <1>4, <2>1, <2>3
<1> QED BY <1>5 DEF Min

\* The list of a name after an object was added to it.
LEMMA InsertIs ==
    ASSUME NEW S, NEW o \in S, NEW ret, Listed(o) \in Seq(S), ret = 2 => Rivals(o) # {}
    PROVE  /\ Insert(o, ret) \in Seq(S)
           /\ ret # 2 => ToSet(Insert(o, ret)) = ToSet(Listed(o)) \union {o}
           /\ ret = 2 => /\ Rival(o) \in ToSet(Listed(o))
                         /\ ToSet(Insert(o, ret)) = (ToSet(Listed(o)) \ {Rival(o)}) \union {o}
<1> DEFINE list == Listed(o)
<1>1. /\ Len(list) \in Nat /\ DOMAIN list = 1..Len(list) /\ list \in [1..Len(list) -> S]
    BY LenProperties
<1>2. CASE list = <<>>
  <2>1. Insert(o, ret) = <<o>>
      BY <1>2 DEF Insert
  <2>2. <<o>> \in Seq(S) /\ ToSet(<<o>>) = {o} /\ ToSet(<<>>) = {}
      BY DEF ToSet
  <2>3. ret # 2
      BY <1>2 DEF Rivals
  <2> QED BY <1>2, <2>1, <2>2, <2>3
<1>3. CASE list # <<>> /\ ret = 2
  <2>1. Insert(o, ret) = [i \in DOMAIN list |-> IF list[i] = Rival(o) THEN o ELSE list[i]]
      BY <1>3 DEF Insert
  <2>2. Min(Rivals(o)) \in DOMAIN list
    <3>1. Rivals(o) \subseteq DOMAIN list
        BY DEF Rivals
    <3> QED BY <1>1, <1>3, <3>1, MinIs
  <2>3. Rival(o) \in ToSet(list)
      BY <2>2 DEF Rival, ToSet
  <2> HIDE DEF list
  <2>4. Insert(o, ret) \in Seq(S)
      BY <1>1, <2>1
  <2>5. DOMAIN Insert(o, ret) = DOMAIN list
      BY <2>1
  <2>6. ToSet(Insert(o, ret)) = {Insert(o, ret)[i] : i \in DOMAIN list}
      BY <2>5 DEF ToSet
  <2>7. \A i \in DOMAIN list : Insert(o, ret)[i] = IF list[i] = Rival(o) THEN o ELSE list[i]
      BY <2>1
  <2>8. ToSet(Insert(o, ret)) = (ToSet(list) \ {Rival(o)}) \union {o}
    <3>1. PICK k \in DOMAIN list : list[k] = Rival(o)
        BY <2>3 DEF ToSet
    <3>2. o \in ToSet(Insert(o, ret))
        BY <2>6, <2>7, <3>1
    <3>3. ToSet(Insert(o, ret)) \subseteq (ToSet(list) \ {Rival(o)}) \union {o}
      <4>1. \A i \in DOMAIN list :
              Insert(o, ret)[i] \in (ToSet(list) \ {Rival(o)}) \union {o}
          BY <2>7 DEF ToSet
      <4> QED BY <2>6, <4>1
    <3>4. ToSet(list) \ {Rival(o)} \subseteq ToSet(Insert(o, ret))
      <4> SUFFICES ASSUME NEW x \in ToSet(list), x # Rival(o)
                   PROVE  x \in ToSet(Insert(o, ret))
          OBVIOUS
      <4>1. PICK i \in DOMAIN list : list[i] = x
          BY DEF ToSet
      <4>2. Insert(o, ret)[i] = x
          BY <2>7, <4>1
      <4> QED BY <2>6, <4>2
    <3> QED BY <3>2, <3>3, <3>4
  <2> QED BY <1>3, <2>3, <2>4, <2>8 DEF list
<1>4. CASE list # <<>> /\ ret # 2
  <2> DEFINE head == SubSeq(list, 1, 1)
             tail == SubSeq(list, 2, Len(list))
             one  == <<o>>
  <2>0. Len(list) >= 1
      BY <1>1, <1>4, EmptySeq
  <2>1. Insert(o, ret) = head \o one \o tail
      BY <1>4 DEF Insert, InsertAt
  <2>2. head \in Seq(S) /\ tail \in Seq(S)
      BY <1>1, <2>0, SubSeqProperties
  <2>a. one \in Seq(S) /\ ToSet(one) = {o}
      BY DEF ToSet
  <2>3. ToSet(head) \union ToSet(tail) = ToSet(list)
    <3>1. Len(head) = 1 /\ head[1] = list[1] /\ DOMAIN head = {1}
        BY <1>1, <2>0
    <3>2. DOMAIN tail = 1 .. Len(list) - 1 /\ \A i \in 1 .. Len(list) - 1 : tail[i] = list[i + 1]
        BY <1>1, <2>0
    <3> HIDE DEF head, tail, list
    <3>3. ToSet(head) = {list[1]}
        BY <3>1 DEF ToSet
    <3>4. ToSet(tail) = {list[i] : i \in 2..Len(list)}
      <4>1. \A i \in 2..Len(list) : i - 1 \in 1 .. Len(list) - 1 /\ (i - 1) + 1 = i
          BY <1>1
      <4>2. \A i \in 1 .. Len(list) - 1 : i + 1 \in 2..Len(list)
          BY <1>1
      <4>3. ToSet(tail) = {tail[i] : i \in 1 .. Len(list) - 1}
          BY <3>2 DEF ToSet
      <4>4. \A i \in 2..Len(list) : tail[i - 1] = list[i]
          BY <3>2, <4>1
      <4>5. \A x \in ToSet(tail) : x \in {list[i] : i \in 2..Len(list)}
          BY <3>2, <4>2, <4>3
      <4>6. \A i \in 2..Len(list) : list[i] \in ToSet(tail)
          BY <4>1, <4>3, <4>4
      <4> QED BY <4>5, <4>6
    <3>5. DOMAIN list = {1} \union 2..Len(list)
        BY <1>1, <2>0
    <3> QED BY <3>3, <3>4, <3>5 DEF ToSet
  <2> HIDE DEF head, tail, one
  <2>4. head \o one \in Seq(S) /\ ToSet(head \o one) = ToSet(head) \union {o}
      BY <2>2, <2>a, ConcatIs
  <2>5. Insert(o, ret) \in Seq(S) /\ ToSet(Insert(o, ret)) = ToSet(head) \union {o} \union ToSet(tail)
    <3> DEFINE both == head \o one
    <3>0. both \in Seq(S) /\ tail \in Seq(S)
        BY <2>2, <2>4
    <3> HIDE DEF both
    <3>1. both \o tail \in Seq(S) /\ ToSet(both \o tail) = ToSet(both) \union ToSet(tail)
        BY <3>0, ConcatIs
    <3> USE DEF both
    <3> DEFINE new == (head \o one) \o tail
    <3>2. Insert(o, ret) = new
        BY <2>1
    <3>3. new \in Seq(S) /\ ToSet(new) = ToSet(head) \union {o} \union ToSet(tail)
        BY <2>4, <3>1
    <3> HIDE DEF new
    <3> QED BY <3>2, <3>3
  <2> QED BY <1>4, <2>3, <2>5
<1> QED BY <1>2, <1>3, <1>4

-----------------------------------------------------------------------------
LEMMA SameCall ==
    ASSUME call' = call
    PROVE  /\ AllObjects' = AllObjects /\ NoarchRepo' = NoarchRepo /\ Repos' = Repos
           /\ \A r : Loaded(r)' = Loaded(r)
BY DEF AllObjects, NoarchRepo, Repos, Loaded

LEMMA ObjectsAre ==
    /\ \A r : \A x \in Loaded(r) : x.repo = r
    /\ \A x \in NoarchRepo : x.repo = 0
    /\ call.noarch = {} => NoarchRepo = {}
    /\ \A r \in Repos : Loaded(r) \subseteq AllObjects
    /\ NoarchRepo \subseteq AllObjects
    /\ \A x \in AllObjects : x \in NoarchRepo \/ \E r \in Repos : x \in Loaded(r)
BY DEF Loaded, NoarchRepo, Object, AllObjects

LEMMA CallIs ==
    ASSUME call \in Calls
    PROVE  /\ \E n \in Nat : Repos = 1..n
           /\ IsFiniteSet(AllObjects)
           /\ \A m, n \in NoarchRepo : m.pkg.href = n.pkg.href => m = n
<1>1. /\ Len(call.repos) \in Nat /\ Repos = 1..Len(call.repos)
      /\ \A r \in Repos : IsFiniteSet(call.repos[r])
      /\ IsFiniteSet(call.noarch)
      /\ \A p, q \in call.noarch : p.href = q.href => p = q
    BY MergeRepoAssumption DEF Repos
<1>2. ASSUME NEW r, NEW S, IsFiniteSet(S)
      PROVE  IsFiniteSet({Object(r, p) : p \in S})
  <2> DEFINE f == [p \in S |-> Object(r, p)]
  <2>1. f \in Surjection(S, {Object(r, p) : p \in S})
      BY DEF Surjection
  <2> HIDE DEF f
  <2> QED BY <1>2, <2>1, FS_Surjection
<1>3. IsFiniteSet(NoarchRepo)
    BY <1>1, <1>2 DEF NoarchRepo
<1>4. \A r \in Repos : IsFiniteSet(Loaded(r))
    BY <1>1, <1>2 DEF Loaded
<1>5. IsFiniteSet({Loaded(r) : r \in Repos})
  <2> DEFINE f == [r \in Repos |-> Loaded(r)]
  <2>1. f \in Surjection(Repos, {Loaded(r) : r \in Repos})
      BY DEF Surjection
  <2>2. IsFiniteSet(Repos)
      BY <1>1, FS_Interval
  <2> HIDE DEF f
  <2> QED BY <2>1, <2>2, FS_Surjection
<1>6. IsFiniteSet(UNION {Loaded(r) : r \in Repos})
  <2> DEFINE All == {Loaded(r) : r \in Repos}
  <2>1. \A T \in All : IsFiniteSet(T)
      BY <1>4
  <2> HIDE DEF All
  <2>2. IsFiniteSet(UNION All)
      BY <1>5, <2>1, FS_UNION DEF All
  <2> QED BY <2>2 DEF All
<1>7. IsFiniteSet(AllObjects)
    BY <1>3, <1>6, FS_Union DEF AllObjects
<1>8. \A m, n \in NoarchRepo : m.pkg.href = n.pkg.href => m = n
    BY <1>1 DEF NoarchRepo, Object
<1> QED BY <1>1, <1>7, <1>8

\* The merged table after an object was added to the list of its name.
LEMMA MergedAfter ==
    ASSUME MergeTypeOK, NEW o \in AllObjects, NEW ret, ret = 2 => Rivals(o) # {},
           merged' = [n \in DOMAIN merged \union {o.pkg.name} |->
                         IF n = o.pkg.name THEN Insert(o, ret) ELSE merged[n]]
    PROVE  /\ \A n \in DOMAIN merged' :
                /\ merged'[n] \in Seq(AllObjects)
                /\ \A i \in DOMAIN merged'[n] : merged'[n][i].pkg.name = n
           /\ ret # 2 => MergedObjects' = MergedObjects \union {o}
           /\ ret = 2 => /\ Rival(o) \in MergedObjects
                         /\ MergedObjects' = (MergedObjects \ {Rival(o)}) \union {o}
<1> DEFINE name == o.pkg.name
<1>1. Listed(o) \in Seq(AllObjects) /\ \A x \in ToSet(Listed(o)) : x.pkg.name = name
    BY DEF Listed, ToSet, MergeTypeOK
<1>2. /\ Insert(o, ret) \in Seq(AllObjects)
      /\ ret # 2 => ToSet(Insert(o, ret)) = ToSet(Listed(o)) \union {o}
      /\ ret = 2 => /\ Rival(o) \in ToSet(Listed(o))
                    /\ ToSet(Insert(o, ret)) = (ToSet(Listed(o)) \ {Rival(o)}) \union {o}
    BY <1>1, InsertIs
<1>3. /\ DOMAIN merged' = DOMAIN merged \union {name} /\ merged'[name] = Insert(o, ret)
      /\ \A n \in DOMAIN merged \ {name} : merged'[n] = merged[n]
    OBVIOUS
<1>4. \A x \in ToSet(Insert(o, ret)) : x.pkg.name = name
    BY <1>1, <1>2
<1>5. ASSUME NEW n \in DOMAIN merged'
      PROVE  merged'[n] \in Seq(AllObjects) /\ \A i \in DOMAIN merged'[n] : merged'[n][i].pkg.name = n
  <2>1. CASE n = name
      BY <1>2, <1>3, <1>4, <2>1 DEF ToSet
  <2>2. CASE n # name
      BY <1>3, <2>2 DEF MergeTypeOK
  <2> QED BY <2>1, <2>2
<1> DEFINE Others == UNION {ToSet(merged[n]) : n \in DOMAIN merged \ {name}}
<1>6. MergedObjects = Others \union ToSet(Listed(o))
  <2>1. CASE name \in DOMAIN merged
    <3>1. Listed(o) = merged[name]
        BY <2>1 DEF Listed
    <3> QED BY <2>1, <3>1 DEF MergedObjects
  <2>2. CASE name \notin DOMAIN merged
    <3>1. Listed(o) = <<>> /\ ToSet(<<>>) = {}
        BY <2>2 DEF Listed, ToSet
    <3> QED BY <2>2, <3>1 DEF MergedObjects
  <2> QED BY <2>1, <2>2
<1>7. MergedObjects' = Others \union ToSet(Insert(o, ret))
  <2>1. \A n \in DOMAIN merged \ {name} : ToSet(merged'[n]) = ToSet(merged[n])
      BY <1>3
  <2>2. ToSet(merged'[name]) = ToSet(Insert(o, ret))
      BY <1>3
  <2>3. MergedObjects' = UNION {ToSet(merged'[n]) : n \in DOMAIN merged'}
      BY DEF MergedObjects, ToSet
  <2> HIDE DEF name
  <2> QED BY <1>3, <2>1, <2>2, <2>3
<1>8. \A x \in Others : x.pkg.name # name
    BY DEF MergeTypeOK, ToSet
<1> HIDE DEF Others, name
<1>9. ret # 2 => MergedObjects' = MergedObjects \union {o}
    BY <1>2, <1>6, <1>7
<1>10. ret = 2 => Rival(o) \in MergedObjects
    BY <1>2, <1>6
<1>11. ret = 2 => MergedObjects' = (MergedObjects \ {Rival(o)}) \union {o}
  <2> HAVE ret = 2
  <2>1. Rival(o) \notin Others
      BY <1>1, <1>2, <1>8
  <2> QED BY <1>2, <1>6, <1>7, <2>1
<1> QED BY <1>5, <1>9, <1>10, <1>11

-----------------------------------------------------------------------------
\* A merge that has not begun owns nothing.
LEMMA NothingOwned ==
    ASSUME call \in Calls, call' = call,
           merged' = NoMap, freed' = <<>>, used' = {}, table' = {},
           pc' \in Before \/ (pc' = "load" /\ repo' = 1)
    PROVE  Owners'
<1>1. MergedObjects' = {} /\ ToSet(freed)' = {} /\ IsInjective(freed)'
    BY DEF MergedObjects, NoMap, ToSet, IsInjective
<1>2. pc' = "load" => \A r \in Repos' : ~Arrived(r)'
  <2>1. PICK n \in Nat : Repos = 1..n
      BY CallIs
  <2>2. Repos' = 1..n
      BY <2>1, SameCall
  <2>3. pc' = "load" => repo' = 1
      BY DEF Before
  <2> QED BY <2>2, <2>3 DEF Arrived
<1> QED BY <1>1, <1>2 DEF Owners, Before

LEMMA BeforeStep == ASSUME OwnInv, Prepare \/ FindBuilds PROVE OwnInv'
<1>1. MergeTypeOK /\ pc \in Before /\ table = {}
    BY DEF OwnInv, Prepare, PrepareNothing, PrepareKoji, BlockedUnreadable, OriginsUnwritable,
           FindBuilds, BuildsLoaded, VisitBuild, BuildsTaken, Before, MergeTypeOK
<1>2. UNCHANGED <<call, table, noarch, used, merged, freed, loaded>>
    BY DEF Prepare, FindBuilds
<1>3. /\ pc' \in Before \ {"koji"} \/ (pc' = "load" /\ repo' = 1)
      /\ repo' \in Nat \ {0}
  <2>1. CASE Prepare
    <3>1. pc = "koji" /\ pc' \in {"builds", "load"} /\ repo' = repo
        BY <2>1 DEF Prepare, PrepareNothing, PrepareKoji, BlockedUnreadable, OriginsUnwritable
    <3> QED BY <1>1, <3>1 DEF Before, MergeTypeOK
  <2>2. CASE FindBuilds
    <3>1. CASE BuildsLoaded
        BY <1>1, <3>1 DEF BuildsLoaded, Before, MergeTypeOK
    <3>2. CASE VisitBuild
      <4>1. pc = "visit" /\ pc' = pc /\ repo' = repo
          BY <3>2 DEF VisitBuild
      <4> QED BY <1>1, <4>1 DEF Before, MergeTypeOK
    <3>3. CASE BuildsTaken
        BY <1>1, <3>3 DEF BuildsTaken, Before, MergeTypeOK
    <3> QED BY <2>2, <3>1, <3>2, <3>3 DEF FindBuilds
  <2> QED BY <2>1, <2>2
<1>4. /\ merged = NoMap /\ freed = <<>> /\ used = {} /\ loaded >= 0 /\ noarch = NoarchRepo
    BY <1>1 DEF MergeTypeOK
<1>5. MergeTypeOK'
    BY <1>1, <1>2, <1>3, <1>4, SameCall DEF MergeTypeOK, Before
<1>6. Owners'
  <2>1. pc' \in Before \/ (pc' = "load" /\ repo' = 1)
      BY <1>3
  <2> QED BY <1>1, <1>2, <1>4, <2>1, NothingOwned DEF MergeTypeOK
<1> QED BY <1>5, <1>6 DEF OwnInv

LEMMA LoadRepoStep == ASSUME OwnInv, LoadRepo PROVE OwnInv'
<1>1. /\ MergeTypeOK /\ pc = "load" /\ repo \in Repos /\ table = {}
      /\ UNCHANGED <<call, repo, noarch, used, merged, freed>>
      /\ loaded >= 0 /\ noarch = NoarchRepo
    BY DEF OwnInv, LoadRepo, MergeTypeOK
<1>2. \/ pc' = "merge" /\ left' = Loaded(repo) /\ table' = Loaded(repo) /\ loaded' = loaded
      \/ pc' = "merged" /\ loaded' = -1 /\ table' = table
    BY DEF LoadRepo
<1>3. PICK n \in Nat : Repos = 1..n
    BY <1>1, CallIs DEF MergeTypeOK
<1>4. MergeTypeOK'
    BY <1>1, <1>2, SameCall DEF MergeTypeOK, Before
<1>5. MergedObjects' = MergedObjects
    BY <1>1 DEF MergedObjects
<1>6. OneOwner' => OneOwner
    BY <1>1 DEF OneOwner, Method
<1>7. ASSUME OneOwner', Owners PROVE Owners'
  <2>1. CASE pc' = "merge"
    <3>1. table' = Loaded(repo) /\ pc' = "merge"
        BY <1>2, <2>1
    <3>2. \A x \in MergedObjects \union ToSet(freed) : x.repo < repo
        BY <1>1, <1>7 DEF Owners, Arrived
    <3>3. \A x \in table' : x.repo = repo
        BY <3>1, ObjectsAre
    <3>4. MergedObjects \cap table' = {} /\ ToSet(freed) \cap table' = {}
        BY <1>1, <3>2, <3>3 DEF MergeTypeOK
    <3>5. \A x \in NoarchRepo : x \notin table'
        BY <1>1, <3>3, ObjectsAre DEF MergeTypeOK
    <3>6. \A r \in Repos : Arrived(r)' =>
             Loaded(r) \subseteq table' \union MergedObjects \union ToSet(freed)
      <4> TAKE r \in Repos
      <4>1. CASE r = repo
          BY <3>1, <4>1
      <4>2. CASE r # repo
        <5>1. Arrived(r)' => Arrived(r)
            BY <1>1, <4>2 DEF Arrived
        <5> QED BY <1>1, <1>7, <5>1 DEF Owners
      <4> QED BY <4>1, <4>2
    <3>7. \A x \in MergedObjects \union ToSet(freed) : Arrived(x.repo)'
        BY <1>1, <3>2 DEF Arrived
    <3> QED BY <1>1, <1>5, <1>7, <3>1, <3>4, <3>6, <3>7, SameCall DEF Owners
  <2>2. CASE pc' = "merged"
    <3>1. loaded' = -1 /\ table' = table /\ pc' = "merged"
        BY <1>2, <2>2
    <3>2. NoarchRepo = {}
        BY <1>1, <1>7, <3>1, ObjectsAre DEF OneOwner
    <3>3. \A r \in Repos : Arrived(r)' => Arrived(r)
        BY <1>1, <3>1 DEF Arrived
    <3> QED BY <1>1, <1>5, <1>7, <3>1, <3>2, <3>3, SameCall DEF Owners
  <2> QED BY <1>2, <2>1, <2>2
<1> QED BY <1>4, <1>6, <1>7 DEF OwnInv

\* An object is taken, and what becomes of it.
LEMMA MergePackageStep == ASSUME OwnInv, MergePackage PROVE OwnInv'
<1>1. /\ MergeTypeOK /\ pc = "merge" /\ pc' = "merge" /\ repo \in Repos
      /\ UNCHANGED <<call, repo, noarch>>
      /\ loaded >= 0 /\ noarch = NoarchRepo /\ left \subseteq table
    BY DEF OwnInv, MergePackage, MergeTypeOK
<1>2. PICK p \in left :
         LET o == Substitute(p)
             ret == AddPackage(o)
         IN  /\ left' = left \ {p}
             /\ IF ret = 0
                  THEN UNCHANGED <<table, used, merged, loaded, freed>>
                  ELSE /\ Keep(p, o)
                       /\ merged' = [n \in DOMAIN merged \union {o.pkg.name} |->
                                        IF n = o.pkg.name THEN Insert(o, ret) ELSE merged[n]]
                       /\ freed' = IF ret = 2 THEN Append(freed, Rival(o)) ELSE freed
                       /\ loaded' = IF Counts(ret) THEN loaded + 1 ELSE loaded
    BY DEF MergePackage
<1> DEFINE o   == Substitute(p)
           ret == AddPackage(o)
<1>3. PICK k \in Nat : Repos = 1..k
    BY <1>1, CallIs DEF MergeTypeOK
<1>4. /\ p \in table /\ p \in Loaded(repo) /\ p.repo = repo /\ repo # 0 /\ p \in AllObjects
    BY <1>1, <1>2, ObjectsAre DEF MergeTypeOK
<1>5. o = p \/ (o \in NoarchRepo /\ o.repo = 0)
  <2>1. o = p \/ o \in noarch
      BY DEF Substitute
  <2> QED BY <1>1, <2>1, ObjectsAre
<1>6. o \in AllObjects
    BY <1>4, <1>5, ObjectsAre
<1>7. /\ ret = 2 => Rivals(o) # {} /\ Method \in {"ts", "nvr"}
      /\ ret # 0 /\ Method \in {"repo", "all"} => ret = 1
    BY DEF AddPackage
<1> HIDE DEF o, ret
<1>8. CASE ret = 0
  <2>1. /\ left' = left \ {p} /\ UNCHANGED <<table, used, merged, loaded, freed>>
      BY <1>2, <1>8 DEF o, ret
  <2>2. MergeTypeOK'
      BY <1>1, <2>1, SameCall DEF MergeTypeOK, Before
  <2>3. MergedObjects' = MergedObjects
      BY <2>1 DEF MergedObjects
  <2>4. OneOwner' = OneOwner
      BY <1>1, <2>1 DEF OneOwner, Method
  <2>5. Owners => Owners'
      BY <1>1, <2>1, <2>3, SameCall DEF Owners, Arrived
  <2> QED BY <2>2, <2>4, <2>5 DEF OwnInv
<1>9. CASE ret # 0
  <2>1. /\ left' = left \ {p} /\ Keep(p, o)
        /\ merged' = [n \in DOMAIN merged \union {o.pkg.name} |->
                         IF n = o.pkg.name THEN Insert(o, ret) ELSE merged[n]]
        /\ freed' = IF ret = 2 THEN Append(freed, Rival(o)) ELSE freed
        /\ loaded' = IF Counts(ret) THEN loaded + 1 ELSE loaded
      BY <1>2, <1>9 DEF o, ret
  <2>2. /\ \A n \in DOMAIN merged' :
              /\ merged'[n] \in Seq(AllObjects)
              /\ \A i \in DOMAIN merged'[n] : merged'[n][i].pkg.name = n
        /\ ret # 2 => MergedObjects' = MergedObjects \union {o}
        /\ ret = 2 => /\ Rival(o) \in MergedObjects
                      /\ MergedObjects' = (MergedObjects \ {Rival(o)}) \union {o}
      BY <1>1, <1>6, <1>7, <2>1, MergedAfter
  <2>3. /\ loaded' \in Int /\ loaded' >= 0
      BY <1>1, <2>1 DEF MergeTypeOK
  <2>4. MergedObjects \subseteq AllObjects
    <3>1. ASSUME NEW n \in DOMAIN merged PROVE ToSet(merged[n]) \subseteq AllObjects
        BY <1>1 DEF MergeTypeOK, ToSet
    <3> QED BY <3>1 DEF MergedObjects
  <2>5. /\ freed \in Seq(AllObjects)
        /\ freed' \in Seq(AllObjects)
        /\ ret # 2 => freed' = freed
        /\ ret = 2 => /\ ToSet(freed') = ToSet(freed) \union {Rival(o)}
                      /\ IsInjective(freed) /\ Rival(o) \notin ToSet(freed) => IsInjective(freed')
    <3>1. freed \in Seq(AllObjects)
        BY <1>1 DEF MergeTypeOK
    <3>2. CASE ret # 2
        BY <2>1, <3>1, <3>2
    <3>3. CASE ret = 2
      <4> DEFINE one == <<Rival(o)>>
                 r   == Rival(o)
      <4>1. r \in AllObjects
          BY <2>2, <2>4, <3>3
      <4> HIDE DEF r
      <4>2. one \in Seq(AllObjects) /\ ToSet(one) = {r} /\ IsInjective(one)
          BY <4>1 DEF ToSet, IsInjective, r
      <4>3. freed' = freed \o one
          BY <2>1, <3>1, <3>3, <4>1, AppendIsConcat DEF r
      <4> HIDE DEF one
      <4>4. /\ freed' \in Seq(AllObjects) /\ ToSet(freed') = ToSet(freed) \union {r}
            /\ IsInjective(freed) /\ r \notin ToSet(freed) => IsInjective(freed')
          BY <3>1, <4>2, <4>3, ConcatIs
      <4> QED BY <3>1, <3>3, <4>4 DEF r
    <3> QED BY <3>2, <3>3
  <2>6. /\ o = p => table' = table \ {p} /\ used' = used
        /\ o # p => table' = table /\ used' = used \union {o.pkg.href}
      BY <2>1 DEF Keep
  <2>7. left' \subseteq table' /\ table' \subseteq table
      BY <1>1, <2>1, <2>6
  <2>8. MergeTypeOK'
      BY <1>1, <2>2, <2>3, <2>5, <2>7, SameCall DEF MergeTypeOK, Before
  <2>9. OneOwner' => OneOwner
      BY <1>1 DEF OneOwner, Method
  <2>10. ASSUME OneOwner, Owners PROVE Owners'
    <3>1. /\ IsInjective(freed)
          /\ ToSet(freed) \cap (MergedObjects \union NoarchRepo \union table) = {}
          /\ MergedObjects \cap table = {}
          /\ \A x \in MergedObjects \union ToSet(freed) : Arrived(x.repo)
          /\ \A r \in Repos : Arrived(r) =>
                Loaded(r) \subseteq table \union MergedObjects \union ToSet(freed)
          /\ \A x \in MergedObjects : x.repo = 0 => x.pkg.href \in used
          /\ \A h \in used : \E x \in MergedObjects : x.repo = 0 /\ x.pkg.href = h
        BY <1>1, <2>10 DEF Owners
    <3>2. NoarchRepo = {} \/ ret = 1
        BY <1>7, <1>9, <2>10, ObjectsAre DEF OneOwner
    <3>3. ret = 2 => /\ o = p /\ Rival(o) \notin ToSet(freed) /\ Rival(o) # o
                     /\ Rival(o) \notin table /\ Rival(o).repo # 0
      <4> HAVE ret = 2
      <4>1. NoarchRepo = {} /\ o = p
          BY <1>5, <3>2
      <4>2. Rival(o) \in MergedObjects
          BY <2>2
      <4>3. Rival(o).repo # 0
        <5>1. Rival(o) \in AllObjects
            BY <2>4, <4>2
        <5>2. PICK r \in Repos : Rival(o) \in Loaded(r)
            BY <4>1, <5>1, ObjectsAre
        <5>3. Rival(o).repo = r
            BY <5>2, ObjectsAre
        <5> QED BY <1>3, <5>3
      <4> QED BY <1>4, <3>1, <4>1, <4>2, <4>3
    <3>4. o \notin ToSet(freed) /\ o \notin table'
      <4>1. CASE o = p
          BY <1>4, <2>6, <3>1, <4>1
      <4>2. CASE o # p
        <5>1. o \in NoarchRepo /\ o.repo = 0
            BY <1>5, <4>2
        <5>2. \A x \in table : x.repo = repo
            BY <1>1, ObjectsAre DEF MergeTypeOK
        <5> QED BY <1>4, <2>6, <3>1, <4>2, <5>1, <5>2
      <4> QED BY <4>1, <4>2
    <3>5. Arrived(o.repo)
        BY <1>1, <1>3, <1>4, <1>5 DEF Arrived, MergeTypeOK
    <3>6. IsInjective(freed')
        BY <2>5, <3>1, <3>3
    <3>7. ToSet(freed') \cap (MergedObjects' \union NoarchRepo \union table') = {}
      <4>1. CASE ret # 2
          BY <2>2, <2>5, <2>7, <3>1, <3>4, <4>1
      <4>2. CASE ret = 2
        <5>1. NoarchRepo = {}
            BY <3>2, <4>2
        <5> QED BY <2>2, <2>5, <2>7, <3>1, <3>3, <3>4, <4>2, <5>1
      <4> QED BY <4>1, <4>2
    <3>8. MergedObjects' \cap table' = {}
        BY <2>2, <2>7, <3>1, <3>4
    <3>9. \A x \in MergedObjects' \union ToSet(freed') : Arrived(x.repo)'
      <4>1. \A x \in MergedObjects' \union ToSet(freed') : Arrived(x.repo)
          BY <2>2, <2>5, <3>1, <3>5
      <4> QED BY <1>1, <4>1 DEF Arrived
    <3>10. \A r \in Repos : Arrived(r)' =>
              Loaded(r) \subseteq table' \union MergedObjects' \union ToSet(freed')
      <4>1. table \union MergedObjects \union ToSet(freed)
               \subseteq table' \union MergedObjects' \union ToSet(freed')
          BY <2>2, <2>5, <2>6
      <4>2. \A r \in Repos : Arrived(r)' => Arrived(r)
          BY <1>1 DEF Arrived
      <4> QED BY <3>1, <4>1, <4>2
    <3>11. \A x \in MergedObjects' : x.repo = 0 => x.pkg.href \in used'
        BY <1>4, <2>2, <2>6, <3>1
    <3>12. \A h \in used' : \E x \in MergedObjects' : x.repo = 0 /\ x.pkg.href = h
      <4> TAKE h \in used'
      <4>1. CASE h \in used
        <5>1. PICK x \in MergedObjects : x.repo = 0 /\ x.pkg.href = h
            BY <3>1, <4>1
        <5>2. x \in MergedObjects'
            BY <2>2, <3>3, <5>1
        <5> QED BY <5>1, <5>2
      <4>2. CASE h \notin used
        <5>1. o # p /\ h = o.pkg.href
            BY <2>6, <4>2
        <5> QED BY <1>5, <2>2, <5>1
      <4> QED BY <4>1, <4>2
    <3>13. noarch' = NoarchRepo /\ pc' = "merge"
        BY <1>1
    <3>14. ToSet(freed)' = ToSet(freed') /\ IsInjective(freed)' = IsInjective(freed')
        BY DEF ToSet, IsInjective
    <3> QED BY <3>6, <3>7, <3>8, <3>9, <3>10, <3>11, <3>12, <3>13, <3>14, <1>1, SameCall DEF Owners
  <2> QED BY <2>8, <2>9, <2>10 DEF OwnInv
<1> QED BY <1>8, <1>9

\* A repository is done: what is left in its table is freed.
LEMMA RepoDoneStep == ASSUME OwnInv, RepoDone PROVE OwnInv'
<1>1. /\ MergeTypeOK /\ pc = "merge" /\ pc' = "load" /\ repo \in Repos /\ repo' = repo + 1
      /\ UNCHANGED <<call, noarch, used, merged, loaded>> /\ table' = {}
      /\ freed' = freed \o SetToSeq(table)
      /\ loaded >= 0 /\ noarch = NoarchRepo
    BY DEF OwnInv, RepoDone, MergeTypeOK
<1>2. PICK k \in Nat : Repos = 1..k
    BY <1>1, CallIs DEF MergeTypeOK
<1>3. table \subseteq AllObjects
    BY <1>1, ObjectsAre DEF MergeTypeOK
<1>4. /\ SetToSeq(table) \in Seq(AllObjects) /\ IsInjective(SetToSeq(table))
      /\ ToSet(SetToSeq(table)) = table
  <2>1. IsFiniteSet(table)
      BY <1>1, <1>3, CallIs, FS_Subset DEF MergeTypeOK
  <2>2. SetToSeq(table) \in Seq(table) /\ IsInjective(SetToSeq(table)) /\ ToSet(SetToSeq(table)) = table
      BY <2>1, SetToSeqIs
  <2> QED BY <1>3, <2>2
<1>5. /\ freed \in Seq(AllObjects) /\ freed' \in Seq(AllObjects)
      /\ ToSet(freed') = ToSet(freed) \union table
      /\ IsInjective(freed) /\ ToSet(freed) \cap table = {} => IsInjective(freed')
  <2>1. freed \in Seq(AllObjects)
      BY <1>1 DEF MergeTypeOK
  <2> QED BY <1>1, <1>4, <2>1, ConcatIs
<1>6. MergeTypeOK'
  <2>1. repo' \in Nat \ {0} /\ table' \subseteq Loaded(repo)'
      BY <1>1, <1>2
  <2> QED BY <1>1, <1>5, <2>1, SameCall DEF MergeTypeOK, Before
<1>7. OneOwner' = OneOwner /\ MergedObjects' = MergedObjects
    BY <1>1 DEF OneOwner, Method, MergedObjects
<1>8. ASSUME Owners PROVE Owners'
  <2>1. ToSet(freed)' = ToSet(freed') /\ IsInjective(freed)' = IsInjective(freed')
      BY DEF ToSet, IsInjective
  <2>2. IsInjective(freed') /\ ToSet(freed') \cap (MergedObjects \union NoarchRepo) = {}
    <3>1. table \cap NoarchRepo = {}
      <4>1. \A x \in table : x.repo = repo
          BY <1>1, ObjectsAre DEF MergeTypeOK
      <4> QED BY <1>1, <1>2, <4>1, ObjectsAre
    <3> QED BY <1>1, <1>5, <1>8, <3>1 DEF Owners
  <2>3. \A x \in MergedObjects \union ToSet(freed') : Arrived(x.repo)'
    <3>1. \A x \in MergedObjects \union ToSet(freed) : Arrived(x.repo)
        BY <1>1, <1>8 DEF Owners
    <3>2. \A x \in table : Arrived(x.repo)
        BY <1>1, ObjectsAre DEF MergeTypeOK, Arrived
    <3>3. \A x \in MergedObjects \union ToSet(freed') : x.repo < repo \/ x.repo = repo
        BY <1>5, <3>1, <3>2 DEF Arrived
    <3>4. \A x \in MergedObjects \union ToSet(freed') : x.repo \in Int
      <4>1. MergedObjects \subseteq AllObjects
        <5>1. ASSUME NEW n \in DOMAIN merged PROVE ToSet(merged[n]) \subseteq AllObjects
            BY <1>1 DEF MergeTypeOK, ToSet
        <5> QED BY <5>1 DEF MergedObjects
      <4>2. ToSet(freed) \subseteq AllObjects
          BY <1>5 DEF ToSet
      <4>3. \A x \in AllObjects : x.repo \in Int
          BY <1>2, ObjectsAre
      <4> QED BY <1>3, <1>5, <4>1, <4>2, <4>3
    <3> QED BY <1>1, <1>2, <3>3, <3>4 DEF Arrived
  <2>4. \A r \in Repos : Arrived(r)' => Loaded(r) \subseteq MergedObjects \union ToSet(freed')
    <3>1. \A r \in Repos : Arrived(r)' => Arrived(r)
        BY <1>1, <1>2 DEF Arrived
    <3> QED BY <1>1, <1>5, <1>8, <3>1 DEF Owners
  <2> QED BY <1>1, <1>7, <1>8, <2>1, <2>2, <2>3, <2>4, SameCall DEF Owners
<1> QED BY <1>6, <1>7, <1>8 DEF OwnInv

LEMMA MergeDoneStep == ASSUME OwnInv, MergeDone PROVE OwnInv'
<1>1. /\ MergeTypeOK /\ pc = "load" /\ pc' = "merged" /\ repo \notin Repos /\ repo' = repo
      /\ UNCHANGED <<call, table, used, merged, loaded, freed>>
      /\ noarch' = {n \in NoarchRepo : n.pkg.href \notin used}
      /\ loaded >= 0 /\ noarch = NoarchRepo /\ table = {}
    BY DEF OwnInv, MergeDone, MergeTypeOK
<1>2. MergeTypeOK'
    BY <1>1, SameCall DEF MergeTypeOK, Before
<1>3. OneOwner' = OneOwner /\ MergedObjects' = MergedObjects
    BY <1>1 DEF OneOwner, Method, MergedObjects
<1>4. ASSUME Owners PROVE Owners'
  <2>1. noarch' \subseteq NoarchRepo
      BY <1>1
  <2>2. \A r \in Repos : Arrived(r)' = Arrived(r)
      BY <1>1 DEF Arrived
  <2>3. ToSet(freed)' = ToSet(freed) /\ IsInjective(freed)' = IsInjective(freed)
      BY <1>1
  <2> QED BY <1>1, <1>3, <1>4, <2>1, <2>2, <2>3, SameCall DEF Owners
<1> QED BY <1>2, <1>3, <1>4 DEF OwnInv

\* At the end the tables free what they own, and a list what is behind its head.
LEMMA MergeCleanupStep == ASSUME OwnInv, MergeCleanup PROVE OwnInv'
<1>1. /\ MergeTypeOK /\ pc = "merged" /\ pc' = "end" /\ repo' = repo
      /\ UNCHANGED <<call, table, used, merged, loaded>>
      /\ noarch' = {} /\ table = {} /\ noarch \subseteq NoarchRepo
    BY DEF OwnInv, MergeCleanup, MergeTypeOK
<1>2. PICK S : S \subseteq MergedObjects /\ freed' = freed \o SetToSeq(noarch) \o SetToSeq(S)
    BY DEF MergeCleanup, FromFirst
<1>3. MergedObjects \subseteq AllObjects
  <2>1. ASSUME NEW n \in DOMAIN merged PROVE ToSet(merged[n]) \subseteq AllObjects
      BY <1>1 DEF MergeTypeOK, ToSet
  <2> QED BY <2>1 DEF MergedObjects
<1>4. ASSUME NEW T, T \subseteq AllObjects
      PROVE  /\ SetToSeq(T) \in Seq(AllObjects) /\ IsInjective(SetToSeq(T))
             /\ ToSet(SetToSeq(T)) = T
  <2>1. IsFiniteSet(T)
      BY <1>1, <1>4, CallIs, FS_Subset DEF MergeTypeOK
  <2>2. SetToSeq(T) \in Seq(T) /\ IsInjective(SetToSeq(T)) /\ ToSet(SetToSeq(T)) = T
      BY <2>1, SetToSeqIs
  <2> QED BY <1>4, <2>2
<1>5. /\ SetToSeq(noarch) \in Seq(AllObjects) /\ IsInjective(SetToSeq(noarch))
      /\ ToSet(SetToSeq(noarch)) = noarch
    BY <1>1, <1>4, ObjectsAre
<1>6. /\ SetToSeq(S) \in Seq(AllObjects) /\ IsInjective(SetToSeq(S)) /\ ToSet(SetToSeq(S)) = S
    BY <1>2, <1>3, <1>4
<1>7. freed \in Seq(AllObjects)
    BY <1>1 DEF MergeTypeOK
<1> DEFINE first == freed \o SetToSeq(noarch)
<1>8. /\ first \in Seq(AllObjects) /\ ToSet(first) = ToSet(freed) \union noarch
      /\ IsInjective(freed) /\ ToSet(freed) \cap noarch = {} => IsInjective(first)
    BY <1>5, <1>7, ConcatIs
<1>9. /\ freed' \in Seq(AllObjects) /\ ToSet(freed') = ToSet(freed) \union noarch \union S
      /\ IsInjective(first) /\ (ToSet(freed) \union noarch) \cap S = {} => IsInjective(freed')
  <2> HIDE DEF first
  <2>1. freed' = first \o SetToSeq(S)
      BY <1>2 DEF first
  <2> QED BY <1>6, <1>8, <2>1, ConcatIs
<1>10. MergeTypeOK'
    BY <1>1, <1>9, SameCall DEF MergeTypeOK, Before
<1>11. OneOwner' = OneOwner /\ MergedObjects' = MergedObjects
    BY <1>1 DEF OneOwner, Method, MergedObjects
<1>12. ASSUME Owners PROVE Owners'
  <2>1. noarch = {n \in NoarchRepo : n.pkg.href \notin used} /\ (loaded >= 0 => repo \notin Repos)
      BY <1>1, <1>12 DEF Owners
  <2>2. MergedObjects \cap noarch = {}
    <3> SUFFICES ASSUME NEW x \in MergedObjects, x \in noarch PROVE FALSE
        OBVIOUS
    <3>1. x.repo = 0
        BY <1>1, ObjectsAre
    <3> QED BY <1>12, <2>1, <3>1 DEF Owners
  <2>3. IsInjective(freed')
      BY <1>1, <1>2, <1>8, <1>9, <1>12, <2>2 DEF Owners
  <2>4. ASSUME loaded >= 0 PROVE AllObjects \ MergedObjects \subseteq ToSet(freed')
    <3> SUFFICES ASSUME NEW x \in AllObjects, x \notin MergedObjects
                 PROVE  x \in ToSet(freed) \union noarch
        BY <1>9
    <3>1. CASE x \in NoarchRepo
      <4>1. ASSUME x.pkg.href \in used PROVE FALSE
        <5>1. PICK y \in MergedObjects : y.repo = 0 /\ y.pkg.href = x.pkg.href
            BY <1>12, <4>1 DEF Owners
        <5>2. y \in NoarchRepo
          <6>1. y \in AllObjects
              BY <1>3
          <6>2. PICK k \in Nat : Repos = 1..k
              BY <1>1, CallIs DEF MergeTypeOK
          <6>3. \A r \in Repos : y \notin Loaded(r)
              BY <5>1, <6>2, ObjectsAre
          <6> QED BY <6>1, <6>3, ObjectsAre
        <5>3. y = x
            BY <1>1, <3>1, <5>1, <5>2, CallIs DEF MergeTypeOK
        <5> QED BY <5>1, <5>3
      <4> QED BY <2>1, <3>1, <4>1
    <3>2. ASSUME NEW r \in Repos, x \in Loaded(r) PROVE x \in ToSet(freed)
      <4>1. PICK k \in Nat : Repos = 1..k
          BY <1>1, CallIs DEF MergeTypeOK
      <4>2. Arrived(r)
          BY <1>1, <2>1, <2>4, <4>1 DEF Arrived, MergeTypeOK
      <4> QED BY <1>1, <1>12, <3>2, <4>2 DEF Owners
    <3> QED BY <3>1, <3>2, ObjectsAre
  <2>5. ToSet(freed)' = ToSet(freed') /\ IsInjective(freed)' = IsInjective(freed')
      BY DEF ToSet, IsInjective
  <2> QED BY <1>1, <1>11, <1>12, <2>3, <2>4, <2>5, SameCall DEF Owners
<1> QED BY <1>10, <1>11, <1>12 DEF OwnInv

\* Nothing that is freed is used, so nothing can go wrong with it.
LEMMA MergeCrashStep == ASSUME OwnInv, MergeCrash PROVE OwnInv'
<1>1. /\ MergeTypeOK /\ Dangling /\ pc # "end" /\ pc' = "crashed"
      /\ UNCHANGED <<call, repo, left, table, noarch, used, merged, loaded, freed>>
    BY DEF OwnInv, MergeCrash
<1>2. MergeTypeOK'
    BY <1>1, SameCall DEF MergeTypeOK, Before
<1>3. OneOwner' = OneOwner
    BY <1>1 DEF OneOwner, Method
<1>4. ~OneOwner
    BY <1>1 DEF OwnInv, Owners, Dangling
<1> QED BY <1>2, <1>3, <1>4 DEF OwnInv

\* The invariant behind the result about the packages freed.
THEOREM OwnInductive == MergeSpec => []OwnInv
<1>1. MergeInit => OwnInv
  <2> SUFFICES ASSUME MergeInit PROVE OwnInv
      OBVIOUS
  <2>1. /\ call \in Calls /\ pc = "koji" /\ repo = 1 /\ table = {} /\ used = {}
        /\ noarch = NoarchRepo /\ merged = NoMap /\ loaded = 0 /\ freed = <<>>
      BY DEF MergeInit, NoarchRepo
  <2>2. MergeTypeOK
      BY <2>1 DEF MergeTypeOK, Before, NoMap
  <2>3. MergedObjects = {} /\ ToSet(freed) = {} /\ IsInjective(freed)
      BY <2>1 DEF MergedObjects, NoMap, ToSet, IsInjective
  <2>4. Owners
      BY <2>1, <2>3 DEF Owners
  <2> QED BY <2>2, <2>4 DEF OwnInv
<1>2. OwnInv /\ [MergeNext]_mergeVars => OwnInv'
  <2> SUFFICES ASSUME OwnInv, [MergeNext]_mergeVars PROVE OwnInv'
      OBVIOUS
  <2>1. CASE UNCHANGED mergeVars
    <3>1. UNCHANGED <<call, pc, repo, left, table, noarch, used, merged, loaded, freed>>
        BY <2>1 DEF mergeVars
    <3>2. MergedObjects' = MergedObjects /\ OneOwner' = OneOwner
        BY <3>1 DEF MergedObjects, OneOwner, Method
    <3> QED BY <3>1, <3>2, SameCall DEF OwnInv, MergeTypeOK, Owners, Arrived
  <2> QED BY <2>1, BeforeStep, LoadRepoStep, MergePackageStep, RepoDoneStep, MergeDoneStep,
             MergeCleanupStep, MergeCrashStep DEF MergeNext
<1> QED BY <1>1, <1>2, PTL DEF MergeSpec

\* However the repositories overlap, merge_repos and the cleanup free no package
\* twice, none that is merged, and in the end every other one.
THEOREM FreedOnlyOnce == MergeSpec => []FreedOnce
<1>1. OwnInv => FreedOnce
  <2> SUFFICES ASSUME OwnInv, OneOwner PROVE
          /\ IsInjective(freed)
          /\ pc # "end" => ToSet(freed) \cap MergedObjects = {}
          /\ pc = "end" /\ loaded >= 0 => AllObjects \ MergedObjects \subseteq ToSet(freed)
      BY DEF FreedOnce, OneOwner, AllObjects
  <2> QED BY DEF OwnInv, Owners
<1> QED BY <1>1, OwnInductive, PTL

-----------------------------------------------------------------------------
(***************************************************************************)
(* What is merged.  Offers are the objects that were offered so far and    *)
(* are wanted; the merged repository has one of each kind of them, and     *)
(* none of the others is better.                                           *)
(***************************************************************************)

RepoObjects == UNION {Loaded(r) : r \in Repos}
Undamaged == Repos \cap call.damaged = {}
Merging == pc \in {"load", "merge", "merged"} /\ loaded >= 0

Offers ==
    LET earlier == {q \in Repos : q < repo}
        visited == IF pc = "merge" THEN Loaded(repo) \ left ELSE {}
    IN  {o \in {Replacement(p) : p \in visited} : Wanted(o)}
          \union UNION {Offered(r) : r \in earlier}

\* The options of koji_stuff, as far as it was made.
StuffInv ==
    /\ pc = "koji" => include = NoMap /\ ~simple /\ blocked = {} /\ ~open
    /\ pc \in {"builds", "visit"} => call.koji /\ open
    /\ ~call.koji /\ open => call.pkgorigins
    /\ pc # "koji" /\ call.koji =>
         \/ open /\ blocked = call.blocked /\ simple = call.simple
         \/ ~open /\ include = NoMap /\ ~simple
         \/ ~open /\ include = NoMap /\ blocked = call.blocked /\ simple = call.simple

\* The builds inc are those that are taken out of the objects W.
BuildsOf(inc, W) ==
    /\ \A w \in W : HasSrpm(w) =>
         /\ w.pkg.srpm.name \in DOMAIN inc
         /\ inc[w.pkg.srpm.name].repo <= w.repo
         /\ inc[w.pkg.srpm.name].repo = w.repo => w.pkg.srpm.vr <= inc[w.pkg.srpm.name].vr
    /\ \A n \in DOMAIN inc :
         \E w \in W : /\ HasSrpm(w) /\ w.pkg.srpm.name = n
                      /\ inc[n].repo = w.repo /\ inc[n].vr = w.pkg.srpm.vr
Visited == {w \in RepoObjects : w.repo < repo \/ (pc = "visit" /\ w.repo = repo /\ w \notin left)}

BuildInv ==
    /\ pc = "visit" => repo \in Repos /\ left \subseteq Loaded(repo)
    /\ pc \in {"builds", "visit"} => BuildsOf(include, Visited)
    /\ call.koji /\ open /\ Undamaged /\ Merging => BuildsOf(include, RepoObjects)

\* No repository that cannot be loaded is behind.
StageInv ==
    /\ Merging => \A r \in Repos : r < repo => r \notin call.damaged
    /\ Merging /\ pc = "merge" => repo \notin call.damaged
    /\ Merging /\ pc = "merged" => repo \notin Repos

\* Of the objects V, those of M: one of each kind, and a best one.
Chosen(M, V) ==
    /\ \A c \in V : \E m \in M : Alike(m) = Alike(c)
    /\ \A m, n \in M : Alike(m) = Alike(n) => m = n
    /\ \A c \in V : \A m \in M : Alike(m) = Alike(c) => ~Beats(c, m)
ChoiceInv ==
    /\ MergedObjects \subseteq Offers
    /\ Faultless =>
         /\ Chosen(MergedObjects, Offers)
         /\ call.koji /\ ~call.simple => seen = {Nvra(m) : m \in MergedObjects}

CountInv ==
    /\ IsFiniteSet(Places)
    /\ Method # "duplicates" => loaded = Cardinality(Places)
OriginInv ==
    Method \in {"repo", "all"} /\ open => origins = {<<Nvra(o), FirstRepo(o)>> : o \in MergedObjects}

Based(o) == ~call.omitBaseurl /\ ~(KojiStuff /\ o.repo = 1)
BaseInv ==
    /\ \A o \in DOMAIN base :
         /\ o.pkg.base # "own"
         /\ \/ o \in NoarchRepo /\ base[o] = 0
            \/ o \in RepoObjects /\ base[o] = o.repo /\ Based(o)
    /\ \A o \in NoarchRepo : o.pkg.base = "none" => o \in DOMAIN base
    /\ \A o \in MergedObjects \ NoarchRepo : o.pkg.base # "own" /\ Based(o) => o \in DOMAIN base

RightInv ==
    /\ StuffInv /\ BuildInv /\ StageInv
    /\ pc \in Before => MergedObjects = {} /\ seen = {} /\ origins = {} /\ loaded = 0
    /\ Merging /\ Undamaged => ChoiceInv /\ OriginInv
    /\ loaded >= 0 => CountInv
    /\ pc \in Before => \A o \in DOMAIN base : o \in NoarchRepo
    /\ BaseInv

-----------------------------------------------------------------------------
\* Which object is wanted, and what it is compared by, does not change.
LEMMA SameOffers ==
    ASSUME call' = call, open' = open
    PROVE  /\ RepoObjects' = RepoObjects /\ Undamaged' = Undamaged /\ Method' = Method
           /\ Faultless' = Faultless /\ KojiStuff' = KojiStuff
           /\ \A r : Offered(r)' = Offered(r)
           /\ \A o : FirstRepo(o)' = FirstRepo(o)
           /\ \A o : Alike(o)' = Alike(o)
           /\ \A o, c : Beats(o, c)' = Beats(o, c)
           /\ \A o : Wanted(o)' = Wanted(o) /\ Replacement(o)' = Replacement(o)
<1>1. /\ Repos' = Repos /\ KojiStuff' = KojiStuff /\ NoarchRepo' = NoarchRepo
      /\ \A r : Loaded(r)' = Loaded(r)
    BY SameCall DEF KojiStuff
<1>2. RepoObjects' = RepoObjects
    BY <1>1 DEF RepoObjects
<1>3. \A n, r : Having(n, r)' = Having(n, r)
    BY <1>1 DEF Having
<1>4. ASSUME NEW n PROVE Build(n)' = Build(n)
  <2>1. {q \in Repos : Having(n, q) # {}}' = {q \in Repos : Having(n, q) # {}}
      BY <1>1, <1>3
  <2> DEFINE r == Min({q \in Repos : Having(n, q) # {}})
  <2>2. r' = r
      BY <2>1
  <2>3. Having(n, r)' = Having(n, r)
      BY <1>1, <2>2 DEF Having
  <2> HIDE DEF r
  <2>4. {o.pkg.srpm.vr : o \in Having(n, r)}' = {o.pkg.srpm.vr : o \in Having(n, r)}
      BY <2>3
  <2>5. Max({o.pkg.srpm.vr : o \in Having(n, r)})' = Max({o.pkg.srpm.vr : o \in Having(n, r)})
      BY <2>4
  <2> QED BY <2>5 DEF Build, r
<1>5. ASSUME NEW o PROVE RightArch(o)' = RightArch(o)
    BY DEF RightArch
<1>6. ASSUME NEW o PROVE Wanted(o)' = Wanted(o)
    BY <1>1, <1>3, <1>4, <1>5 DEF Wanted
<1>7. ASSUME NEW o PROVE Replacement(o)' = Replacement(o)
    BY <1>1 DEF Replacement
<1>8. ASSUME NEW r PROVE Offered(r)' = Offered(r)
    BY <1>1, <1>6, <1>7 DEF Offered
<1>9. ASSUME NEW o PROVE FirstRepo(o)' = FirstRepo(o)
  <2>1. {r \in Repos : o \in Offered(r)}' = {r \in Repos : o \in Offered(r)}
      BY <1>1, <1>8
  <2> QED BY <2>1 DEF FirstRepo
<1>10. \A o : Alike(o)' = Alike(o) /\ Rank(o)' = Rank(o)
    BY DEF Alike, Rank, Method
<1>11. \A o, c : Beats(o, c)' = Beats(o, c)
    BY <1>9, <1>10 DEF Beats
<1> QED BY <1>1, <1>2, <1>6, <1>7, <1>8, <1>9, <1>10, <1>11 DEF Undamaged, Method, Faultless

\* The order of versions.
LEMMA AboveIsOrder ==
    ASSUME NEW k \in Nat, NEW a \in [1..k -> Nat], NEW b \in [1..k -> Nat], NEW c \in [1..k -> Nat]
    PROVE  ~Above(a, a) /\ (Above(a, b) /\ Above(b, c) => Above(a, c))
<1>1. ~Above(a, a)
    BY DEF Above
<1>2. ASSUME Above(a, b), Above(b, c) PROVE Above(a, c)
  <2>1. PICK i \in 1..k : a[i] > b[i] /\ \A j \in 1..i-1 : a[j] = b[j]
      BY <1>2 DEF Above
  <2>2. PICK h \in 1..k : b[h] > c[h] /\ \A j \in 1..h-1 : b[j] = c[j]
      BY <1>2 DEF Above
  <2>3. CASE i < h
    <3>1. a[i] > c[i] /\ \A j \in 1..i-1 : a[j] = c[j]
        BY <2>1, <2>2, <2>3
    <3> QED BY <3>1 DEF Above
  <2>4. CASE i >= h
    <3>1. a[h] > c[h]
      <4>1. a[h] >= b[h]
          BY <2>1, <2>4
      <4> QED BY <2>2, <4>1
    <3>2. \A j \in 1..h-1 : a[j] = c[j]
        BY <2>1, <2>2, <2>4
    <3> QED BY <3>1, <3>2 DEF Above
  <2> QED BY <2>3, <2>4
<1> QED BY <1>1, <1>2

\* The builds that were found in all the repositories are those of the promise.
LEMMA BuildIs ==
    ASSUME call \in Calls, BuildsOf(include, RepoObjects), NEW name
    PROVE  /\ name \in DOMAIN include <=> \E r \in Repos : Having(name, r) # {}
           /\ name \in DOMAIN include => include[name].vr = Build(name)
<1>1. PICK k \in Nat : Repos = 1..k
    BY CallIs
<1>2. \A w \in RepoObjects : w.repo \in Repos /\ w \in Loaded(w.repo)
    BY ObjectsAre DEF RepoObjects
<1>3. \A r \in Repos : \A w \in Loaded(r) : w \in RepoObjects /\ w.repo = r /\ w.pkg.srpm.vr \in Nat
  <2> TAKE r \in Repos
  <2> TAKE w \in Loaded(r)
  <2>1. w.pkg \in call.repos[r]
      BY DEF Loaded, Object
  <2>2. w.pkg.srpm.vr \in Nat
      BY <2>1, MergeRepoAssumption DEF Repos
  <2> QED BY <2>2, ObjectsAre DEF RepoObjects
<1>4. (\E r \in Repos : Having(name, r) # {}) => name \in DOMAIN include
    BY <1>3 DEF Having, BuildsOf
<1>5. ASSUME name \in DOMAIN include
      PROVE  /\ \E r \in Repos : Having(name, r) # {}
             /\ include[name].vr = Build(name)
  <2>1. PICK w \in RepoObjects : /\ HasSrpm(w) /\ w.pkg.srpm.name = name
                                 /\ include[name].repo = w.repo /\ include[name].vr = w.pkg.srpm.vr
      BY <1>5 DEF BuildsOf
  <2> DEFINE having == {q \in Repos : Having(name, q) # {}}
             r == w.repo
             vrs == {o.pkg.srpm.vr : o \in Having(name, r)}
  <2>2. r \in Repos /\ w \in Having(name, r) /\ r \in having
      BY <1>2, <2>1 DEF Having
  <2>3. \A q \in having : r <= q
    <3> TAKE q \in having
    <3>1. PICK o \in Having(name, q) : TRUE
        OBVIOUS
    <3>2. o \in RepoObjects /\ HasSrpm(o) /\ o.pkg.srpm.name = name /\ o.repo = q
        BY <1>3, <3>1 DEF Having
    <3> QED BY <2>1, <3>2 DEF BuildsOf
  <2>4. Min(having) = r
    <3>1. Min(having) \in having /\ \A q \in having : Min(having) <= q
      <4> HIDE DEF r
      <4>1. having \subseteq Nat
          BY <1>1
      <4> HIDE DEF having
      <4> QED BY <2>2, <4>1, MinIs
    <3>2. Min(having) <= r /\ r <= Min(having)
        BY <2>2, <2>3, <3>1
    <3>3. Min(having) \in Nat /\ r \in Nat
        BY <1>1, <2>2, <3>1
    <3> HIDE DEF having, r
    <3> QED BY <3>2, <3>3
  <2>5. w.pkg.srpm.vr \in vrs /\ \A v \in vrs : w.pkg.srpm.vr >= v
    <3>1. \A o \in Having(name, r) : o.pkg.srpm.vr <= w.pkg.srpm.vr
      <4> TAKE o \in Having(name, r)
      <4>1. o \in RepoObjects /\ HasSrpm(o) /\ o.pkg.srpm.name = name /\ o.repo = r
          BY <1>3, <2>2 DEF Having
      <4> QED BY <2>1, <4>1 DEF BuildsOf
    <3>2. w.pkg.srpm.vr \in Nat /\ \A o \in Having(name, r) : o.pkg.srpm.vr \in Nat
        BY <1>3, <2>2 DEF Having
    <3> QED BY <2>2, <3>1, <3>2
  <2>6. Max(vrs) = w.pkg.srpm.vr
    <3>1. \A v \in vrs : v \in Nat
        BY <1>3, <2>2 DEF Having
    <3> HIDE DEF vrs
    <3>2. Max(vrs) \in vrs /\ \A v \in vrs : Max(vrs) >= v
        BY <2>5 DEF Max
    <3> QED BY <2>5, <3>1, <3>2
  <2>7. Build(name) = w.pkg.srpm.vr
      BY <2>4, <2>6 DEF Build
  <2> QED BY <2>1, <2>2, <2>7
<1> QED BY <1>4, <1>5

\* What the options say in the code is what they say in the promise.
LEMMA OptionsAre ==
    ASSUME call \in Calls
    PROVE  /\ call.koji \in BOOLEAN /\ call.simple \in BOOLEAN /\ call.all \in BOOLEAN
           /\ call.omitBaseurl \in BOOLEAN /\ call.pkgorigins \in BOOLEAN
           /\ call.method \in {"repo", "ts", "nvr"}
           /\ \A o \in AllObjects : /\ o.pkg.evr \in [1..3 -> Nat] /\ o.pkg.time \in Nat
                                    /\ o.pkg.base \in {"own", "none"}
<1>1. /\ {call.koji, call.simple, call.all, call.omitBaseurl, call.pkgorigins} \subseteq BOOLEAN
      /\ call.method \in {"repo", "ts", "nvr"}
      /\ \A p \in call.noarch \union UNION {call.repos[r] : r \in Repos} :
            /\ p.evr \in [1..3 -> Nat] /\ p.time \in Nat /\ p.base \in {"own", "none"}
    BY MergeRepoAssumption DEF Repos
<1>2. \A o \in AllObjects : o.pkg \in call.noarch \union UNION {call.repos[r] : r \in Repos}
    BY DEF AllObjects, NoarchRepo, Loaded, Object
<1> QED BY <1>1, <1>2

\* koji takes what is wanted, and of each package the first one it meets.
LEMMA AllowedIs ==
    ASSUME MergeTypeOK, StuffInv, BuildInv, Undamaged, Merging, NEW o
    PROVE  /\ RightArch(o) /\ KojiAllows(o) => Wanted(o)
           /\ Faultless /\ Wanted(o) /\ (call.koji /\ ~call.simple => Nvra(o) \notin seen)
                => RightArch(o) /\ KojiAllows(o)
           /\ RightArch(o) /\ KojiAllows(o) /\ Faultless /\ call.koji /\ ~call.simple
                => Nvra(o) \notin seen
<1>1. call \in Calls /\ pc # "koji"
    BY DEF MergeTypeOK, Merging
<1> DEFINE name == o.pkg.srpm.name
<1>2. CASE ~call.koji
    BY <1>2 DEF KojiAllows, Wanted, KojiStuff
<1>3. CASE call.koji /\ open
  <2>1. /\ blocked = call.blocked /\ simple = call.simple
        /\ BuildsOf(include, RepoObjects)
      BY <1>1, <1>3 DEF StuffInv, BuildInv
  <2>2. /\ name \in DOMAIN include <=> \E r \in Repos : Having(name, r) # {}
        /\ name \in DOMAIN include => include[name].vr = Build(name)
      BY <1>1, <2>1, BuildIs
  <2>3. BuildAllowed(o) <=> (name # "none" =>
           /\ name \notin call.blocked
           /\ ~call.simple => /\ \E r \in Repos : Having(name, r) # {}
                              /\ o.pkg.srpm.vr = Build(name))
      BY <2>1, <2>2 DEF BuildAllowed
  <2>4. Unseen(o) <=> (call.simple \/ Nvra(o) \notin seen)
      BY <2>1 DEF Unseen
  <2> QED BY <1>3, <2>3, <2>4 DEF KojiAllows, Wanted, KojiStuff
<1>4. CASE call.koji /\ ~open
  <2>1. ~Faultless /\ include = NoMap
      BY <1>1, <1>4 DEF Faultless, StuffInv
  <2>2. name \notin DOMAIN include
      BY <2>1 DEF NoMap
  <2>3. simple => blocked = call.blocked /\ call.simple
      BY <1>1, <1>4 DEF StuffInv
  <2>4. BuildAllowed(o) /\ name # "none" => name \notin call.blocked /\ call.simple
      BY <2>2, <2>3 DEF BuildAllowed
  <2> QED BY <1>4, <2>1, <2>4 DEF KojiAllows, Wanted, KojiStuff
<1> QED BY <1>2, <1>3, <1>4

\* An object of the repository at hand that was not offered before is of no
\* earlier one.
LEMMA FirstRepoIs ==
    ASSUME MergeTypeOK, Merging, NEW o
    PROVE  /\ o \in Offers => FirstRepo(o) \in Nat /\ FirstRepo(o) <= repo
           /\ pc = "merge" /\ o \in Offered(repo) /\ o \notin Offers => FirstRepo(o) = repo
<1>1. PICK k \in Nat : Repos = 1..k
    BY CallIs DEF MergeTypeOK
<1> DEFINE from == {r \in Repos : o \in Offered(r)}
<1>2. \A r \in from : Min(from) \in from /\ Min(from) <= r
  <2>1. from \subseteq Nat
      BY <1>1
  <2> HIDE DEF from
  <2> QED BY <2>1, MinIs
<1>3. ASSUME o \in Offers PROVE \E r \in from : r <= repo
  <2>1. CASE \E r \in Repos : r < repo /\ o \in Offered(r)
      BY <1>1, <2>1 DEF MergeTypeOK
  <2>2. CASE pc = "merge" /\ o \in Offered(repo)
      BY <1>1, <2>2 DEF MergeTypeOK
  <2> QED BY <1>3, <2>1, <2>2 DEF Offers, Offered
<1>4. ASSUME pc = "merge", o \in Offered(repo), o \notin Offers
      PROVE  repo \in from /\ \A r \in from : r >= repo
    BY <1>1, <1>4 DEF Offers, MergeTypeOK
<1>5. \A r \in from : r \in Nat
    BY <1>1
<1>6. FirstRepo(o) = Min(from)
    BY DEF FirstRepo
<1> HIDE DEF from
<1>7. ASSUME o \in Offers PROVE FirstRepo(o) \in Nat /\ FirstRepo(o) <= repo
  <2>1. PICK r \in from : r <= repo
      BY <1>3, <1>7
  <2> QED BY <1>2, <1>5, <1>6, <2>1 DEF MergeTypeOK
<1>8. ASSUME pc = "merge", o \in Offered(repo), o \notin Offers PROVE FirstRepo(o) = repo
    BY <1>2, <1>4, <1>5, <1>6, <1>8 DEF MergeTypeOK
<1> QED BY <1>7, <1>8

\* The places of an object's rivals in the list of its name, as objects.
LEMMA RivalsAre ==
    ASSUME MergeTypeOK, NEW o
    PROVE  /\ Rivals(o) # {} =>
                /\ Rival(o) \in MergedObjects
                /\ Rival(o).pkg.name = o.pkg.name /\ Rival(o).pkg.arch = o.pkg.arch
                /\ Method \notin {"repo", "ts", "nvr"} => Rival(o).pkg.evr = o.pkg.evr
           /\ Rivals(o) = {} => \A m \in MergedObjects :
                ~ /\ m.pkg.name = o.pkg.name /\ m.pkg.arch = o.pkg.arch
                  /\ Method \notin {"repo", "ts", "nvr"} => m.pkg.evr = o.pkg.evr
<1> DEFINE list == Listed(o)
<1>1. /\ list \in Seq(AllObjects) /\ \A i \in DOMAIN list : list[i].pkg.name = o.pkg.name
    BY DEF Listed, MergeTypeOK
<1>2. \A i \in DOMAIN list : list[i] \in MergedObjects
    BY DEF Listed, MergedObjects, ToSet
<1>3. \A m \in MergedObjects : m.pkg.name = o.pkg.name => \E i \in DOMAIN list : list[i] = m
  <2> TAKE m \in MergedObjects
  <2> HAVE m.pkg.name = o.pkg.name
  <2>1. PICK n \in DOMAIN merged : m \in ToSet(merged[n])
      BY DEF MergedObjects
  <2>2. PICK i \in DOMAIN merged[n] : merged[n][i] = m
      BY <2>1 DEF ToSet
  <2>3. n = o.pkg.name
      BY <2>1, <2>2 DEF MergeTypeOK
  <2> QED BY <2>1, <2>2, <2>3 DEF Listed
<1>4. Rivals(o) # {} => Min(Rivals(o)) \in Rivals(o)
  <2>1. DOMAIN list \subseteq Nat
      BY <1>1
  <2>2. Rivals(o) \subseteq Nat
      BY <2>1 DEF Rivals
  <2> QED BY <2>2, MinIs
<1> HIDE DEF list
<1>5. Rivals(o) = {i \in DOMAIN list :
         /\ list[i].pkg.arch = o.pkg.arch
         /\ Method \notin {"repo", "ts", "nvr"} => list[i].pkg.evr = o.pkg.evr}
    BY DEF Rivals, list
<1>6. Rival(o) = list[Min(Rivals(o))]
    BY DEF Rival, list
<1>7. ASSUME Rivals(o) # {}
      PROVE  /\ Rival(o) \in MergedObjects
             /\ Rival(o).pkg.name = o.pkg.name /\ Rival(o).pkg.arch = o.pkg.arch
             /\ Method \notin {"repo", "ts", "nvr"} => Rival(o).pkg.evr = o.pkg.evr
  <2> DEFINE i == Min(Rivals(o))
  <2>1. i \in Rivals(o)
      BY <1>4, <1>7
  <2> HIDE DEF i
  <2>2. Rival(o) = list[i]
      BY <1>6 DEF i
  <2> QED BY <1>1, <1>2, <1>5, <2>1, <2>2
<1> QED BY <1>3, <1>5, <1>7

\* What AddPackage says of an object, in terms of the promise.
LEMMA AddPackageIs ==
    ASSUME MergeTypeOK, StuffInv, BuildInv, Undamaged, Merging, ChoiceInv, pc = "merge",
           NEW o \in AllObjects, Wanted(o) => o \in Offered(repo)
    PROVE  LET ret == AddPackage(o)
               same == {m \in MergedObjects : Alike(m) = Alike(o)}
           IN  /\ ret # 0 => RightArch(o) /\ KojiAllows(o) /\ Wanted(o)
               /\ Faultless /\ ret \in {1, 3} => same \subseteq {o}
               /\ Faultless /\ ret = 2 =>
                    /\ Rival(o) \in same
                    /\ Above(Rank(o), Rank(Rival(o)))
               /\ Faultless /\ ret = 0 /\ Wanted(o) =>
                    \E m \in same : ~Beats(o, m)
               /\ Faultless /\ call.koji /\ ~call.simple /\ RightArch(o) /\ KojiAllows(o) => ret = 1
<1> DEFINE ret == AddPackage(o)
           same == {m \in MergedObjects : Alike(m) = Alike(o)}
           allowed == RightArch(o) /\ KojiAllows(o)
           shared(m) == /\ m.pkg.name = o.pkg.name /\ m.pkg.arch = o.pkg.arch
                        /\ Method \notin {"repo", "ts", "nvr"} => m.pkg.evr = o.pkg.evr
<1>1. /\ allowed => Wanted(o)
      /\ Faultless /\ Wanted(o) /\ (call.koji /\ ~call.simple => Nvra(o) \notin seen) => allowed
      /\ allowed /\ Faultless /\ call.koji /\ ~call.simple => Nvra(o) \notin seen
    BY AllowedIs
<1>2. /\ Rivals(o) # {} => Rival(o) \in MergedObjects /\ shared(Rival(o))
      /\ Rivals(o) = {} => \A m \in MergedObjects : ~shared(m)
    BY RivalsAre
<1>3. /\ ret = 0 <=> (~allowed \/ (Rivals(o) # {} /\ Method # "duplicates"
                                   /\ ~(Method \in {"ts", "nvr"} /\ Newer(o, Rival(o)))))
      /\ ret = 2 <=> (allowed /\ Rivals(o) # {} /\ Method \in {"ts", "nvr"} /\ Newer(o, Rival(o)))
      /\ ret = 1 <=> (allowed /\ Rivals(o) = {})
      /\ ret = 3 => Method = "duplicates"
    BY DEF AddPackage
<1>4. /\ call.koji \in BOOLEAN /\ call.simple \in BOOLEAN /\ call.all \in BOOLEAN
      /\ call.method \in {"repo", "ts", "nvr"}
      /\ MergedObjects \subseteq Offers
    BY OptionsAre DEF MergeTypeOK, ChoiceInv, Chosen
<1>5. /\ call.koji /\ call.simple => Method = "duplicates"
      /\ call.koji /\ ~call.simple => Method = "all"
      /\ ~call.koji /\ call.all => Method = "all"
      /\ ~call.koji /\ ~call.all => Method = call.method
    BY <1>4 DEF Method
<1>6. /\ call.koji /\ call.simple => \A m \in MergedObjects : Alike(m) = Alike(o) => m = o
      /\ call.koji /\ ~call.simple => \A m : Alike(m) = Alike(o) <=> Nvra(m) = Nvra(o)
      /\ ~call.koji => \A m : Alike(m) = Alike(o) <=> shared(m)
  <2>1. call.koji /\ call.simple => \A m \in MergedObjects : Alike(m) = Alike(o) => m = o
    <3>1. call.koji /\ call.simple => \A m : Alike(m) = <<m>>
        BY DEF Alike
    <3> QED BY <3>1
  <2>2. call.koji /\ ~call.simple => \A m : Alike(m) = Alike(o) <=> Nvra(m) = Nvra(o)
      BY DEF Alike
  <2>3. CASE ~call.koji /\ call.all
    <3>1. \A m : Alike(m) = <<m.pkg.name, m.pkg.evr, m.pkg.arch>>
        BY <2>3 DEF Alike
    <3> QED BY <1>5, <2>1, <2>2, <2>3, <3>1
  <2>4. CASE ~call.koji /\ ~call.all
    <3>1. \A m : Alike(m) = <<m.pkg.name, m.pkg.arch>>
        BY <2>4 DEF Alike
    <3> QED BY <1>4, <1>5, <2>1, <2>2, <2>4, <3>1
  <2> QED BY <1>4, <2>1, <2>2, <2>3, <2>4
<1>7. /\ Faultless => \A c \in Offers : \A m \in same : Alike(c) = Alike(o) => ~Beats(c, m)
      /\ Faultless /\ call.koji /\ ~call.simple => seen = {Nvra(m) : m \in MergedObjects}
    BY DEF ChoiceInv, Chosen
<1>8. \A m : shared(m) => Nvra(m) = Nvra(o) \/ Method \in {"repo", "ts", "nvr"}
    BY DEF Nvra
\* koji: a package whose nvra was seen is not allowed.
<1>9. Faultless /\ call.koji /\ ~call.simple /\ allowed => Rivals(o) = {} /\ same = {}
  <2> HAVE Faultless /\ call.koji /\ ~call.simple /\ allowed
  <2>1. \A m \in MergedObjects : Nvra(m) # Nvra(o)
      BY <1>1, <1>7
  <2> QED BY <1>2, <1>5, <1>6, <1>8, <2>1
<1>10. Method \in {"ts", "nvr"} =>
         \A c \in AllObjects : Newer(o, c) <=> Above(Rank(o), Rank(c))
  <2>2. ASSUME Method = "ts", NEW c \in AllObjects PROVE Newer(o, c) <=> Above(Rank(o), Rank(c))
    <3>1. Rank(o) = <<o.pkg.time>> /\ Rank(c) = <<c.pkg.time>>
        BY <2>2 DEF Rank
    <3>2. Newer(o, c) <=> o.pkg.time > c.pkg.time
        BY <2>2 DEF Newer
    <3> DEFINE a == <<o.pkg.time>>
               b == <<c.pkg.time>>
    <3>3. DOMAIN a = {1} /\ a[1] = o.pkg.time /\ b[1] = c.pkg.time
        OBVIOUS
    <3>4. Above(a, b) <=> a[1] > b[1]
      <4> HIDE DEF a, b
      <4> QED BY <3>3 DEF Above
    <3> QED BY <3>1, <3>2, <3>3, <3>4
  <2>3. ASSUME Method = "nvr", NEW c \in AllObjects PROVE Newer(o, c) <=> Above(Rank(o), Rank(c))
    <3>1. Rank(o) = o.pkg.evr /\ Rank(c) = c.pkg.evr
        BY <2>3 DEF Rank
    <3>2. DOMAIN o.pkg.evr = 1..3
        BY OptionsAre DEF MergeTypeOK
    <3> QED BY <2>3, <3>1, <3>2 DEF Newer, Above
  <2> QED BY <2>2, <2>3
<1>11. Method \notin {"ts", "nvr"} => \A c : Rank(o) = <<0>> /\ Rank(c) = <<0>> /\ ~Above(<<0>>, <<0>>)
  <2>1. ~Above(<<0>>, <<0>>)
    <3> DEFINE z == <<0>>
    <3>1. z \in [1..1 -> Nat]
        OBVIOUS
    <3> HIDE DEF z
    <3>2. ~Above(z, z)
        BY <3>1, AboveIsOrder
    <3> QED BY <3>2 DEF z
  <2>2. Method \notin {"ts", "nvr"} => \A c : Rank(c) = <<0>>
      BY DEF Rank
  <2> HIDE DEF ret, same, allowed, shared
  <2> QED BY <2>1, <2>2
\* An object that is like another in the table is not of an earlier repository.
<1>12. ASSUME Faultless, Wanted(o), NEW m \in same, ~Above(Rank(o), Rank(m))
       PROVE  ~Beats(o, m)
  <2>1. CASE o \in Offers
      BY <1>7, <1>12, <2>1
  <2>2. CASE o \notin Offers
    <3>1. FirstRepo(o) = repo /\ FirstRepo(m) <= repo /\ FirstRepo(m) \in Nat
        BY <1>4, <1>12, <2>2, FirstRepoIs
    <3>2. ~(FirstRepo(o) < FirstRepo(m))
        BY <3>1 DEF MergeTypeOK
    <3> QED BY <1>12, <3>2 DEF Beats
  <2> QED BY <2>1, <2>2
<1>13. MergedObjects \subseteq AllObjects
  <2>1. ASSUME NEW n \in DOMAIN merged PROVE ToSet(merged[n]) \subseteq AllObjects
      BY DEF MergeTypeOK, ToSet
  <2> QED BY <2>1 DEF MergedObjects
<1> HIDE DEF ret, shared
<1>14. ret # 0 => allowed /\ Wanted(o)
    BY <1>1, <1>3
<1>15. Faultless /\ ret \in {1, 3} => same \subseteq {o}
  <2>1. CASE call.koji /\ call.simple
      BY <1>6, <2>1
  <2>2. CASE call.koji /\ ~call.simple
      BY <1>9, <1>14, <2>2
  <2>3. CASE ~call.koji
    <3>1. Method # "duplicates"
        BY <1>4, <1>5, <2>3
    <3> QED BY <1>2, <1>3, <1>6, <2>3, <3>1
  <2> QED BY <1>4, <2>1, <2>2, <2>3
<1>16. Faultless /\ ret = 2 => Rival(o) \in same /\ Above(Rank(o), Rank(Rival(o)))
  <2> HAVE Faultless /\ ret = 2
  <2>1. Rivals(o) # {} /\ Method \in {"ts", "nvr"} /\ Newer(o, Rival(o))
      BY <1>3
  <2>2. ~call.koji
      BY <1>4, <1>5, <2>1
  <2> QED BY <1>2, <1>6, <1>10, <1>13, <2>1, <2>2
<1>17. Faultless /\ ret = 0 /\ Wanted(o) => \E m \in same : ~Beats(o, m)
  <2> HAVE Faultless /\ ret = 0 /\ Wanted(o)
  <2>1. CASE call.koji /\ ~call.simple
    <3>1. ~allowed
        BY <1>3, <1>9, <2>1
    <3>2. Nvra(o) \in seen
        BY <1>1, <2>1, <3>1
    <3>3. PICK m \in MergedObjects : Nvra(m) = Nvra(o)
        BY <1>7, <2>1, <3>2
    <3>4. m \in same /\ ~Above(Rank(o), Rank(m))
        BY <1>5, <1>6, <1>11, <2>1, <3>3
    <3> QED BY <1>12, <3>4
  <2>2. CASE call.koji /\ call.simple
    <3>1. allowed /\ Method = "duplicates"
        BY <1>1, <1>5, <2>2
    <3> QED BY <1>3, <3>1
  <2>3. CASE ~call.koji
    <3>1. allowed
        BY <1>1, <2>3
    <3>2. Rivals(o) # {} /\ ~(Method \in {"ts", "nvr"} /\ Newer(o, Rival(o)))
        BY <1>3, <3>1
    <3>3. Rival(o) \in same
        BY <1>2, <1>6, <2>3, <3>2
    <3>4. ~Above(Rank(o), Rank(Rival(o)))
        BY <1>10, <1>11, <1>13, <3>2, <3>3
    <3> QED BY <1>12, <3>3, <3>4
  <2> QED BY <1>4, <2>1, <2>2, <2>3
<1>18. Faultless /\ call.koji /\ ~call.simple /\ allowed => ret = 1
    BY <1>3, <1>9
<1> QED BY <1>14, <1>15, <1>16, <1>17, <1>18 DEF ret

\* The invariant holds before anything was merged.
LEMMA BeforeRight == ASSUME OwnInv, OwnInv', RightInv, Prepare \/ FindBuilds PROVE RightInv'
<1>1. /\ MergeTypeOK /\ MergeTypeOK' /\ pc \in Before
      /\ UNCHANGED <<call, table, noarch, used, merged, freed, loaded, base, seen, origins>>
    BY DEF OwnInv, Prepare, PrepareNothing, PrepareKoji, BlockedUnreadable, OriginsUnwritable,
           FindBuilds, BuildsLoaded, VisitBuild, BuildsTaken, Before, kojiVars
<1>2. PICK k \in Nat : Repos = 1..k
    BY <1>1, CallIs DEF MergeTypeOK
<1>3. /\ Repos' = Repos /\ NoarchRepo' = NoarchRepo /\ \A r : Loaded(r)' = Loaded(r)
    BY <1>1, SameCall
<1>4. MergedObjects' = {} /\ seen' = {} /\ origins' = {} /\ loaded' = 0 /\ Places' = {}
  <2>1. MergedObjects = {} /\ seen = {} /\ origins = {} /\ loaded = 0 /\ DOMAIN merged = {}
      BY <1>1 DEF RightInv, MergeTypeOK, NoMap
  <2>2. MergedObjects' = MergedObjects
      BY <1>1 DEF MergedObjects
  <2>3. Places' = {}
      BY <1>1, <2>1 DEF Places
  <2> QED BY <1>1, <2>1, <2>2, <2>3
<1>5. Merging' => pc' = "load" /\ repo' = 1 /\ Offers' = {}
  <2>1. pc' \in {"builds", "visit", "load"} /\ (pc' = "load" => repo' = 1)
      BY <1>1 DEF Prepare, PrepareNothing, PrepareKoji, BlockedUnreadable, OriginsUnwritable,
             FindBuilds, BuildsLoaded, VisitBuild, BuildsTaken, MergeTypeOK
  <2>2. pc' = "load" => \A r \in Repos' : ~(r < repo')
      BY <1>2, <1>3, <2>1
  <2>3. pc' = "load" => Offers' = {}
    <3> HAVE pc' = "load"
    <3>1. {q \in Repos : q < repo}' = {}
        BY <2>2
    <3> QED BY <3>1 DEF Offers
  <2> QED BY <2>1, <2>3 DEF Merging
<1>6. StageInv' /\ (Merging' => ChoiceInv' /\ OriginInv') /\ CountInv'
  <2>1. StageInv'
      BY <1>2, <1>3, <1>5 DEF StageInv
  <2>2. Merging' => ChoiceInv'
      BY <1>4, <1>5 DEF ChoiceInv, Chosen
  <2>3. OriginInv'
      BY <1>4 DEF OriginInv
  <2>4. CountInv'
      BY <1>4, FS_EmptySet DEF CountInv
  <2> QED BY <2>1, <2>2, <2>3, <2>4
<1>7. BaseInv' /\ \A o \in DOMAIN base' : o \in NoarchRepo'
  <2>1. \A o \in DOMAIN base : o \in NoarchRepo
      BY <1>1 DEF RightInv
  <2>2. \A o \in NoarchRepo : o.repo = 0 /\ o \notin RepoObjects
    <3>1. \A r \in Repos : \A o \in Loaded(r) : o.repo # 0
        BY <1>2, ObjectsAre
    <3> QED BY <3>1, ObjectsAre DEF RepoObjects
  <2> QED BY <1>1, <1>3, <1>4, <2>1, <2>2 DEF RightInv, BaseInv
<1>8. /\ StuffInv'
      /\ UNCHANGED <<blocked, simple, open>> \/ pc = "koji"
  <2>1. CASE Prepare
    <3>1. CASE PrepareNothing
        BY <1>1, <2>1, <3>1, OptionsAre DEF PrepareNothing, StuffInv, MergeTypeOK
    <3>2. CASE PrepareKoji
        BY <1>1, <2>1, <3>2 DEF PrepareKoji, StuffInv
    <3>3. CASE BlockedUnreadable
        BY <1>1, <2>1, <3>3 DEF BlockedUnreadable, StuffInv, RightInv, kojiVars
    <3>4. CASE OriginsUnwritable
        BY <1>1, <2>1, <3>4 DEF OriginsUnwritable, StuffInv, RightInv
    <3> QED BY <2>1, <3>1, <3>2, <3>3, <3>4 DEF Prepare, PrepareNothing, PrepareKoji,
                BlockedUnreadable, OriginsUnwritable
  <2>2. CASE FindBuilds
    <3>1. pc \in {"builds", "visit"} /\ pc' \in {"builds", "visit", "load"}
        BY <2>2 DEF FindBuilds, BuildsLoaded, VisitBuild, BuildsTaken
    <3>2. UNCHANGED <<call, blocked, simple, open>>
        BY <2>2 DEF FindBuilds
    <3> QED BY <3>1, <3>2 DEF StuffInv, RightInv
  <2> QED BY <2>1, <2>2
<1>9. RepoObjects' = RepoObjects /\ Undamaged' = Undamaged
    BY <1>1, <1>3 DEF RepoObjects, Undamaged
<1>10. \A w \in RepoObjects : w.repo \in Repos /\ w \in Loaded(w.repo)
    BY ObjectsAre DEF RepoObjects
<1>11. CASE Prepare
  <2>1. /\ pc = "koji" /\ include' = include /\ include = NoMap /\ repo' = 1
        /\ pc' \in {"builds", "load"} /\ (pc' = "load" => ~(call.koji /\ open'))
    <3>1. pc = "koji" /\ include = NoMap /\ ~open /\ repo' = repo /\ repo = 1
        BY <1>1, <1>11 DEF Prepare, PrepareNothing, PrepareKoji, BlockedUnreadable,
               OriginsUnwritable, MergeTypeOK, RightInv, StuffInv
    <3>2. CASE PrepareNothing
        BY <3>1, <3>2 DEF PrepareNothing, kojiVars
    <3>3. CASE PrepareKoji
        BY <3>1, <3>3 DEF PrepareKoji
    <3>4. CASE BlockedUnreadable
        BY <3>1, <3>4 DEF BlockedUnreadable, kojiVars
    <3>5. CASE OriginsUnwritable
        BY <3>1, <3>5 DEF OriginsUnwritable
    <3> QED BY <1>11, <3>2, <3>3, <3>4, <3>5 DEF Prepare
  <2>2. BuildsOf(include', Visited')
    <3>1. Visited' = {}
        BY <1>2, <1>9, <1>10, <2>1 DEF Visited
    <3>2. DOMAIN include' = {}
        BY <2>1 DEF NoMap
    <3> QED BY <3>1, <3>2 DEF BuildsOf
  <2> QED BY <1>1, <1>4, <1>6, <1>7, <1>8, <2>1, <2>2 DEF RightInv, BuildInv, Merging
<1>12. CASE FindBuilds
  <2>0. pc \in {"builds", "visit"} /\ BuildInv
      BY <1>12 DEF FindBuilds, BuildsLoaded, VisitBuild, BuildsTaken, RightInv
  <2>1. CASE BuildsLoaded /\ pc' = "visit"
    <3>1. /\ pc = "builds" /\ repo \in Repos /\ left' = Loaded(repo) /\ repo' = repo
          /\ include' = include
        BY <2>1 DEF BuildsLoaded
    <3>2. Visited' = Visited
        BY <1>9, <1>10, <2>1, <3>1 DEF Visited
    <3>3. BuildsOf(include', Visited')
      <4>1. BuildsOf(include, Visited)
          BY <2>0, <3>1 DEF BuildInv
      <4> QED BY <3>1, <3>2, <4>1
    <3> QED BY <1>1, <1>3, <1>4, <1>6, <1>7, <1>8, <2>1, <3>1, <3>3 DEF RightInv, BuildInv, Merging
  <2>2. CASE BuildsLoaded /\ pc' = "load"
    <3>1. /\ pc = "builds" /\ include' = include /\ (repo \notin Repos \/ repo \in call.damaged)
        BY <2>2 DEF BuildsLoaded, Loadable
    <3>2. Undamaged => Visited = RepoObjects
      <4> HAVE Undamaged
      <4>1. \A r \in Repos : r < repo
          BY <1>1, <1>2, <3>1 DEF Undamaged, MergeTypeOK
      <4> QED BY <1>10, <4>1 DEF Visited
    <3>3. Undamaged => BuildsOf(include', RepoObjects)
      <4>1. BuildsOf(include, Visited)
          BY <2>0, <3>1 DEF BuildInv
      <4> QED BY <1>9, <3>1, <3>2, <4>1
    <3> QED BY <1>1, <1>4, <1>6, <1>7, <1>8, <1>9, <2>2, <3>3 DEF RightInv, BuildInv, Before
  <2>3. CASE BuildsTaken
    <3>1. /\ pc = "visit" /\ pc' = "builds" /\ repo' = repo + 1 /\ left = {}
          /\ include' = include
        BY <2>3 DEF BuildsTaken
    <3>2. Visited' = Visited
      <4>1. \A w \in RepoObjects : w.repo \in Nat
          BY <1>2, <1>10
      <4>2. repo \in Nat
          BY <1>1 DEF MergeTypeOK
      <4>3. \A w \in RepoObjects : w.repo < repo' <=> (w.repo < repo \/ w.repo = repo)
          BY <3>1, <4>1, <4>2
      <4> QED BY <1>9, <3>1, <4>3 DEF Visited
    <3>3. BuildsOf(include', Visited')
      <4>1. BuildsOf(include, Visited)
          BY <2>0, <3>1 DEF BuildInv
      <4> QED BY <3>1, <3>2, <4>1
    <3> QED BY <1>1, <1>4, <1>6, <1>7, <1>8, <3>1, <3>3 DEF RightInv, BuildInv, Merging
  <2>4. CASE VisitBuild
    <3>1. pc = "visit" /\ pc' = pc /\ repo' = repo /\ repo \in Repos /\ left \subseteq Loaded(repo)
        BY <2>0, <2>4 DEF VisitBuild, BuildInv
    <3>2. PICK o \in left :
            /\ left' = left \ {o}
            /\ include' =
                 IF HasSrpm(o) /\ NewBuild(o.pkg.srpm)
                   THEN [n \in DOMAIN include \union {o.pkg.srpm.name} |->
                            IF n = o.pkg.srpm.name
                              THEN [repo |-> repo, vr |-> o.pkg.srpm.vr] ELSE include[n]]
                   ELSE include
        BY <2>4 DEF VisitBuild
    <3>3. o \in RepoObjects /\ o.repo = repo
        BY <3>1, ObjectsAre DEF RepoObjects
    <3>4. Visited' = Visited \union {o}
        BY <1>1, <1>9, <3>1, <3>2, <3>3 DEF Visited, MergeTypeOK
    <3>5. \A w \in Visited : w.repo <= repo /\ w.repo \in Nat
        BY <1>1, <1>2, <1>10 DEF Visited, MergeTypeOK
    <3>6. \A w \in RepoObjects : w.pkg.srpm.vr \in Nat
      <4> TAKE w \in RepoObjects
      <4>1. w.pkg \in call.repos[w.repo] /\ w.repo \in Repos
          BY <1>10 DEF Loaded, Object
      <4> QED BY <1>1, <4>1, MergeRepoAssumption DEF Repos, MergeTypeOK
    <3>7. BuildsOf(include, Visited)
        BY <2>0, <3>1 DEF BuildInv
    <3>8. BuildsOf(include', Visited \union {o})
      <4> DEFINE name == o.pkg.srpm.name
                 vr == o.pkg.srpm.vr
      <4>1. CASE ~HasSrpm(o)
          BY <3>2, <3>7, <4>1 DEF BuildsOf
      <4>2. CASE HasSrpm(o) /\ ~NewBuild(o.pkg.srpm)
        <5>1. /\ name \in DOMAIN include
              /\ include[name].repo = repo => ~(vr > include[name].vr)
            BY <4>2 DEF NewBuild
        <5>2. PICK w \in Visited : include[name].repo = w.repo /\ include[name].vr = w.pkg.srpm.vr
            BY <3>7, <5>1 DEF BuildsOf
        <5>3. include[name].repo <= repo /\ (include[name].repo = repo => vr <= include[name].vr)
            BY <3>3, <3>5, <3>6, <5>1, <5>2 DEF Visited
        <5>4. include' = include
            BY <3>2, <4>2
        <5> QED BY <3>3, <3>7, <5>1, <5>3, <5>4 DEF BuildsOf
      <4>3. CASE HasSrpm(o) /\ NewBuild(o.pkg.srpm)
        <5>1. /\ DOMAIN include' = DOMAIN include \union {name}
              /\ include'[name] = [repo |-> repo, vr |-> vr]
              /\ \A n \in DOMAIN include \ {name} : include'[n] = include[n]
            BY <3>2, <4>3
        <5>2. ASSUME NEW w \in Visited, HasSrpm(w), w.pkg.srpm.name = name
              PROVE  w.repo = repo /\ w.pkg.srpm.vr <= vr
          <6>1. /\ name \in DOMAIN include /\ include[name].repo <= w.repo
                /\ include[name].repo = w.repo => w.pkg.srpm.vr <= include[name].vr
              BY <3>7, <5>2 DEF BuildsOf
          <6>2. include[name].repo = repo /\ vr > include[name].vr
              BY <4>3, <6>1 DEF NewBuild
          <6>3. PICK x \in Visited : include[name].vr = x.pkg.srpm.vr
              BY <3>7, <6>1 DEF BuildsOf
          <6>4. include[name].vr \in Nat /\ vr \in Nat /\ w.pkg.srpm.vr \in Nat
              BY <3>3, <3>6, <5>2, <6>3 DEF Visited
          <6>5. w.repo = repo
              BY <1>1, <3>5, <5>2, <6>1, <6>2 DEF MergeTypeOK
          <6> QED BY <6>1, <6>2, <6>4, <6>5
        <5>3. ASSUME NEW w \in Visited \union {o}, HasSrpm(w)
              PROVE  /\ w.pkg.srpm.name \in DOMAIN include'
                     /\ include'[w.pkg.srpm.name].repo <= w.repo
                     /\ include'[w.pkg.srpm.name].repo = w.repo
                          => w.pkg.srpm.vr <= include'[w.pkg.srpm.name].vr
          <6>1. CASE w = o
            <7>1. vr \in Nat
                BY <3>3, <3>6
            <7> QED BY <1>1, <3>3, <5>1, <6>1, <7>1 DEF MergeTypeOK
          <6>2. CASE w # o /\ w.pkg.srpm.name = name
            <7>1. w.repo = repo /\ w.pkg.srpm.vr <= vr
                BY <5>2, <5>3, <6>2
            <7> QED BY <1>1, <5>1, <6>2, <7>1 DEF MergeTypeOK
          <6>3. CASE w # o /\ w.pkg.srpm.name # name
              BY <3>7, <5>1, <5>3, <6>3 DEF BuildsOf
          <6> QED BY <6>1, <6>2, <6>3
        <5>4. ASSUME NEW n \in DOMAIN include'
              PROVE  \E w \in Visited \union {o} :
                        /\ HasSrpm(w) /\ w.pkg.srpm.name = n
                        /\ include'[n].repo = w.repo /\ include'[n].vr = w.pkg.srpm.vr
          <6>1. CASE n = name
              BY <3>3, <4>3, <5>1, <6>1
          <6>2. CASE n # name
              BY <3>7, <5>1, <6>2 DEF BuildsOf
          <6> QED BY <6>1, <6>2
        <5> QED BY <5>3, <5>4 DEF BuildsOf
      <4> QED BY <4>1, <4>2, <4>3
    <3>9. BuildsOf(include', Visited')
        BY <3>4, <3>8
    <3> QED BY <1>1, <1>3, <1>4, <1>6, <1>7, <1>8, <3>1, <3>2, <3>9 DEF RightInv, BuildInv, Merging
  <2> QED BY <1>12, <2>1, <2>2, <2>3, <2>4 DEF FindBuilds, BuildsLoaded
<1> QED BY <1>11, <1>12

\* A step that leaves the merged packages and what they depend on alone.
LEMMA RestRight ==
    ASSUME OwnInv, RightInv, pc' \notin Before, StageInv',
           UNCHANGED <<call, blocked, simple, include, seen, open, origins, merged, base>>,
           Merging' => Merging /\ Offers' = Offers,
           loaded' = loaded \/ ~(loaded' >= 0)
    PROVE  RightInv'
<1>1. /\ MergedObjects' = MergedObjects /\ Places' = Places
      /\ Repos' = Repos /\ NoarchRepo' = NoarchRepo /\ \A r : Loaded(r)' = Loaded(r)
    BY SameCall DEF MergedObjects, Places
<1>2. /\ RepoObjects' = RepoObjects /\ Undamaged' = Undamaged /\ Method' = Method
      /\ Faultless' = Faultless /\ KojiStuff' = KojiStuff
      /\ \A o : FirstRepo(o)' = FirstRepo(o) /\ Alike(o)' = Alike(o)
      /\ \A o, c : Beats(o, c)' = Beats(o, c)
    BY SameOffers
<1>3. StuffInv'
    BY DEF RightInv, StuffInv, Before
<1>4. BuildInv'
  <2>1. pc' # "visit" /\ pc' \notin {"builds", "visit"}
      BY DEF Before
  <2>2. call'.koji /\ open' /\ Undamaged' /\ Merging' => BuildsOf(include', RepoObjects')
    <3>1. BuildInv
        BY DEF RightInv
    <3> QED BY <1>2, <3>1 DEF BuildInv
  <2> QED BY <2>1, <2>2 DEF BuildInv
<1>5. Merging' /\ Undamaged' => ChoiceInv' /\ OriginInv'
  <2> HAVE Merging' /\ Undamaged'
  <2>1. ChoiceInv /\ OriginInv /\ Offers' = Offers
      BY <1>2 DEF RightInv
  <2>2. ChoiceInv'
      BY <1>1, <1>2, <2>1 DEF ChoiceInv, Chosen
  <2>3. OriginInv'
      BY <1>1, <1>2, <2>1 DEF OriginInv
  <2> QED BY <2>2, <2>3
<1>6. loaded' >= 0 => CountInv'
    BY <1>1, <1>2 DEF RightInv, CountInv
<1>7. BaseInv'
    BY <1>1, <1>2 DEF RightInv, BaseInv, Based
<1> QED BY <1>3, <1>4, <1>5, <1>6, <1>7 DEF RightInv

\* The steps between the packages.
LEMMA StagesRight ==
    ASSUME OwnInv, OwnInv', RightInv,
           LoadRepo \/ RepoDone \/ MergeDone \/ MergeCleanup \/ MergeCrash
    PROVE  RightInv'
<1>1. MergeTypeOK /\ MergeTypeOK' /\ StageInv
    BY DEF OwnInv, RightInv
<1>2. PICK k \in Nat : Repos = 1..k
    BY <1>1, CallIs DEF MergeTypeOK
<1>3. /\ UNCHANGED <<call, blocked, simple, include, seen, open, origins, merged, base>>
      /\ pc' \notin Before
      /\ loaded' = loaded \/ ~(loaded' >= 0)
    BY DEF LoadRepo, RepoDone, MergeDone, MergeCleanup, MergeCrash, kojiVars, Before
<1>4. /\ Repos' = Repos /\ \A r : Loaded(r)' = Loaded(r) /\ Offered(r)' = Offered(r)
      /\ \A o : Wanted(o)' = Wanted(o) /\ Replacement(o)' = Replacement(o)
    BY <1>3, SameCall, SameOffers
<1>5. CASE LoadRepo
  <2>1. pc = "load" /\ repo' = repo /\ loaded >= 0
      BY <1>1, <1>5 DEF LoadRepo, MergeTypeOK
  <2>2. CASE Loadable
    <3>1. pc' = "merge" /\ left' = Loaded(repo) /\ loaded' = loaded
        BY <1>5, <2>2 DEF LoadRepo
    <3>2. StageInv'
        BY <1>1, <1>3, <1>4, <2>1, <2>2, <3>1 DEF StageInv, Merging, Loadable
    <3>3. Offers' = Offers
        BY <1>4, <2>1, <3>1 DEF Offers
    <3> QED BY <1>3, <2>1, <3>2, <3>3, RestRight DEF Merging
  <2>3. CASE ~Loadable
    <3>1. loaded' = -1
        BY <1>5, <2>3 DEF LoadRepo
    <3>2. ~Merging' /\ StageInv'
        BY <3>1 DEF Merging, StageInv
    <3> QED BY <1>3, <3>2, RestRight
  <2> QED BY <2>2, <2>3
<1>6. CASE RepoDone
  <2>1. /\ pc = "merge" /\ pc' = "load" /\ left = {} /\ repo' = repo + 1 /\ repo \in Repos
        /\ loaded' = loaded
      BY <1>1, <1>6 DEF RepoDone, MergeTypeOK
  <2>2. StageInv'
      BY <1>1, <1>2, <1>3, <1>4, <2>1 DEF StageInv, Merging
  <2>3. Offers' = Offers
    <3>1. {q \in Repos : q < repo}' = {q \in Repos : q < repo} \union {repo}
        BY <1>2, <1>4, <2>1
    <3>2. Offered(repo) = {o \in {Replacement(p) : p \in Loaded(repo) \ left} : Wanted(o)}
        BY <2>1 DEF Offered
    <3> QED BY <1>4, <2>1, <3>1, <3>2 DEF Offers
  <2> QED BY <1>3, <2>1, <2>2, <2>3, RestRight DEF Merging
<1>7. CASE MergeDone
  <2>1. pc = "load" /\ pc' = "merged" /\ repo' = repo /\ repo \notin Repos /\ loaded' = loaded
      BY <1>7 DEF MergeDone
  <2>2. StageInv'
      BY <1>1, <1>3, <1>4, <2>1 DEF StageInv, Merging
  <2>3. Offers' = Offers
      BY <1>4, <2>1 DEF Offers
  <2> QED BY <1>3, <2>1, <2>2, <2>3, RestRight DEF Merging
<1>8. CASE MergeCleanup \/ MergeCrash
  <2>1. ~Merging' /\ StageInv'
      BY <1>8 DEF MergeCleanup, MergeCrash, Merging, StageInv
  <2> QED BY <1>3, <2>1, RestRight
<1> QED BY <1>5, <1>6, <1>7, <1>8

-----------------------------------------------------------------------------
\* A package that is added makes the list longer by one.
LEMMA LongerBy1 ==
    ASSUME NEW S, NEW o \in S, NEW ret, ret # 2, Listed(o) \in Seq(S)
    PROVE  DOMAIN Insert(o, ret) = 1 .. Len(Listed(o)) + 1
<1> DEFINE list == Listed(o)
           one  == <<o>>
<1>1. list \in Seq(S) /\ Len(list) \in Nat /\ DOMAIN list = 1..Len(list)
    BY LenProperties
<1>2. one \in Seq(S) /\ Len(one) = 1 /\ DOMAIN one = 1..1
    OBVIOUS
<1>3. CASE list = <<>>
  <2>1. Insert(o, ret) = one /\ Len(list) = 0
      BY <1>3 DEF Insert
  <2> HIDE DEF one
  <2> QED BY <1>2, <2>1
<1>4. CASE list # <<>>
  <2> DEFINE head == SubSeq(list, 1, 1)
             tail == SubSeq(list, 2, Len(list))
  <2>1. Insert(o, ret) = (head \o one) \o tail
      BY <1>4 DEF Insert, InsertAt
  <2>2. Len(list) >= 1
      BY <1>1, <1>4, EmptySeq
  <2>3. /\ head \in Seq(S) /\ Len(head) = 1
        /\ tail \in Seq(S) /\ Len(tail) = Len(list) - 1
      BY <1>1, <2>2, SubSeqProperties
  <2> HIDE DEF head, tail, one, list
  <2>4. ASSUME NEW s \in Seq(S), NEW t \in Seq(S)
        PROVE  s \o t \in Seq(S) /\ Len(s \o t) = Len(s) + Len(t)
      BY ConcatProperties
  <2> DEFINE both == head \o one
  <2>5. both \in Seq(S) /\ Len(both) = 2
    <3>1. both \in Seq(S) /\ Len(both) = Len(head) + Len(one)
        BY <1>2, <2>3, <2>4
    <3> QED BY <1>2, <2>3, <3>1
  <2> HIDE DEF both
  <2>6. both \o tail \in Seq(S) /\ Len(both \o tail) = Len(both) + Len(tail)
      BY <2>3, <2>4, <2>5
  <2> DEFINE all == both \o tail
  <2>7. all \in Seq(S) /\ Len(all) = Len(list) + 1
      BY <1>1, <2>3, <2>5, <2>6
  <2> HIDE DEF all
  <2>8. DOMAIN all = 1..Len(all)
      BY <2>7, LenProperties
  <2>9. Insert(o, ret) = all
      BY <2>1 DEF all, both
  <2> QED BY <2>7, <2>8, <2>9 DEF list
<1> QED BY <1>3, <1>4

\* The places of the table after an object was added to the list of its name.
LEMMA PlacesAfter ==
    ASSUME MergeTypeOK, NEW o \in AllObjects, NEW ret, ret = 2 => Rivals(o) # {},
           merged' = [n \in DOMAIN merged \union {o.pkg.name} |->
                         IF n = o.pkg.name THEN Insert(o, ret) ELSE merged[n]],
           IsFiniteSet(Places)
    PROVE  /\ IsFiniteSet(Places')
           /\ ret = 2 => Cardinality(Places') = Cardinality(Places)
           /\ ret # 2 => Cardinality(Places') = Cardinality(Places) + 1
<1> DEFINE name == o.pkg.name
           list == Listed(o)
           new == Insert(o, ret)
<1>1. list \in Seq(AllObjects) /\ Len(list) \in Nat /\ DOMAIN list = 1..Len(list)
  <2>1. list \in Seq(AllObjects)
      BY DEF Listed, MergeTypeOK
  <2> QED BY <2>1, LenProperties
<1>2. name \in DOMAIN merged => list = merged[name]
    BY DEF Listed
<1>3. name \notin DOMAIN merged => DOMAIN list = {}
    BY DEF Listed
<1>4. ret = 2 => name \in DOMAIN merged /\ DOMAIN new = DOMAIN list
  <2> HAVE ret = 2
  <2>1. DOMAIN list # {}
      BY DEF Rivals
  <2>2. list # <<>>
      BY <2>1
  <2> QED BY <1>3, <2>1, <2>2 DEF Insert
<1>5. ret # 2 => DOMAIN new = 1 .. Len(list) + 1
    BY <1>1, LongerBy1
<1>6. /\ DOMAIN merged' = DOMAIN merged \union {name} /\ merged'[name] = new
      /\ \A n \in DOMAIN merged \ {name} : merged'[n] = merged[n]
    OBVIOUS
<1>7. Places' = UNION {{n} \X DOMAIN merged'[n] : n \in DOMAIN merged'}
    BY DEF Places
<1> HIDE DEF name, list, new
<1>8. CASE ret = 2
  <2>1. \A n \in DOMAIN merged : DOMAIN merged'[n] = DOMAIN merged[n]
      BY <1>2, <1>4, <1>6, <1>8
  <2>2. DOMAIN merged' = DOMAIN merged
      BY <1>4, <1>6, <1>8
  <2>3. Places' = Places
    <3> DEFINE before(n) == {n} \X DOMAIN merged[n]
               after(n)  == {n} \X DOMAIN merged'[n]
    <3>1. \A n \in DOMAIN merged : after(n) = before(n)
        BY <2>1
    <3>2. /\ Places = UNION {before(n) : n \in DOMAIN merged}
          /\ Places' = UNION {after(n) : n \in DOMAIN merged}
        BY <1>7, <2>2 DEF Places
    <3> HIDE DEF before, after
    <3> QED BY <3>1, <3>2
  <2> QED BY <1>8, <2>3
<1>9. CASE ret # 2
  <2> DEFINE place == <<name, Len(list) + 1>>
             Others == UNION {{n} \X DOMAIN merged[n] : n \in DOMAIN merged \ {name}}
  <2>1. Places = Others \union ({name} \X DOMAIN list)
    <3>1. CASE name \in DOMAIN merged
        BY <1>2, <3>1 DEF Places
    <3>2. CASE name \notin DOMAIN merged
      <4>1. {name} \X DOMAIN list = {}
          BY <1>3, <3>2
      <4> QED BY <3>2, <4>1 DEF Places
    <3> QED BY <3>1, <3>2
  <2>2. Places' = Others \union ({name} \X DOMAIN new)
    <3>1. \A n \in DOMAIN merged \ {name} :
             {n} \X DOMAIN merged'[n] = {n} \X DOMAIN merged[n]
        BY <1>6
    <3>2. {name} \X DOMAIN merged'[name] = {name} \X DOMAIN new
        BY <1>6
    <3>3. DOMAIN merged' = (DOMAIN merged \ {name}) \union {name}
        BY <1>6
    <3>4. Places' = ({name} \X DOMAIN merged'[name])
                      \union UNION {{n} \X DOMAIN merged'[n] : n \in DOMAIN merged \ {name}}
      <4> DEFINE at(n) == {n} \X DOMAIN merged'[n]
                 names == DOMAIN merged \ {name}
      <4>1. Places' = UNION {at(n) : n \in names \union {name}}
          BY <1>7, <3>3
      <4> HIDE DEF at, names
      <4>2. UNION {at(n) : n \in names \union {name}} = at(name) \union UNION {at(n) : n \in names}
          OBVIOUS
      <4> QED BY <4>1, <4>2 DEF at, names
    <3>5. UNION {{n} \X DOMAIN merged'[n] : n \in DOMAIN merged \ {name}} = Others
        BY <3>1
    <3> QED BY <3>2, <3>4, <3>5
  <2>3. {name} \X DOMAIN new = ({name} \X DOMAIN list) \union {place}
      BY <1>1, <1>5, <1>9
  <2>4. place \notin Places
    <3>1. place \notin Others
        OBVIOUS
    <3>2. place \notin {name} \X DOMAIN list
        BY <1>1
    <3> QED BY <2>1, <3>1, <3>2
  <2> HIDE DEF place, Others
  <2>5. Places' = Places \union {place}
      BY <2>1, <2>2, <2>3
  <2>6. IsFiniteSet(Places') /\ Cardinality(Places') = Cardinality(Places) + 1
      BY <2>4, <2>5, FS_AddElement
  <2> QED BY <1>9, <2>6
<1> QED BY <1>8, <1>9

-----------------------------------------------------------------------------
\* What there is of one kind after an object was offered.
LEMMA ChosenAfter ==
    ASSUME MergeTypeOK, StuffInv, BuildInv, Undamaged, Merging, ChoiceInv, pc = "merge",
           repo \in Repos, NEW o \in AllObjects, Wanted(o) => o \in Offered(repo),
           NEW ret, ret = AddPackage(o), Faultless,
           NEW M, NEW V,
           V = Offers \union (IF Wanted(o) THEN {o} ELSE {}),
           ret = 0 => M = MergedObjects,
           ret \in {1, 3} => M = MergedObjects \union {o},
           ret = 2 => M = (MergedObjects \ {Rival(o)}) \union {o}
    PROVE  Chosen(M, V)
<1> DEFINE same == {m \in MergedObjects : Alike(m) = Alike(o)}
<1>1. /\ ret # 0 => Wanted(o)
      /\ ret \in {1, 3} => same \subseteq {o}
      /\ ret = 2 => Rival(o) \in same /\ Above(Rank(o), Rank(Rival(o)))
      /\ ret = 0 /\ Wanted(o) => \E m \in same : ~Beats(o, m)
    BY AddPackageIs
<1>2. /\ MergedObjects \subseteq Offers
      /\ \A c \in Offers : \E m \in MergedObjects : Alike(m) = Alike(c)
      /\ \A m, n \in MergedObjects : Alike(m) = Alike(n) => m = n
      /\ \A c \in Offers : \A m \in MergedObjects : Alike(m) = Alike(c) => ~Beats(c, m)
    BY DEF ChoiceInv, Chosen
<1>3. ret \in {0, 1, 2, 3}
    BY DEF AddPackage
<1>4. CASE ret = 0 /\ ~Wanted(o)
    BY <1>2, <1>4 DEF Chosen
<1>5. CASE ret = 0 /\ Wanted(o)
    BY <1>1, <1>2, <1>5 DEF Chosen
<1> DEFINE k == IF Method = "nvr" THEN 3 ELSE 1
\* No object is better than itself, and what is better than a better one is better.
<1>6. /\ \A x \in AllObjects : Rank(x) \in [1..k -> Nat]
      /\ Offers \subseteq AllObjects
  <2>1. \A x \in AllObjects : x.pkg.evr \in [1..3 -> Nat] /\ x.pkg.time \in Nat
      BY OptionsAre DEF MergeTypeOK
  <2>2. \A x \in AllObjects : Rank(x) \in [1..k -> Nat]
    <3> TAKE x \in AllObjects
    <3>1. CASE Method = "nvr"
        BY <2>1, <3>1 DEF Rank
    <3>2. CASE Method # "nvr"
      <4>1. \A v \in Nat : <<v>> \in [1..1 -> Nat]
          OBVIOUS
      <4>2. Rank(x) = <<x.pkg.time>> \/ Rank(x) = <<0>>
          BY <3>2 DEF Rank
      <4> QED BY <2>1, <3>2, <4>1, <4>2
    <3> QED BY <3>1, <3>2
  <2>3. \A r \in Repos : \A p \in Loaded(r) : Replacement(p) \in AllObjects
    <3>1. \A p : Replacement(p) = p \/ Replacement(p) \in NoarchRepo
        BY DEF Replacement
    <3> QED BY <3>1, ObjectsAre
  <2>4. \A r \in Repos : Offered(r) \subseteq AllObjects
      BY <2>3 DEF Offered
  <2>5. Offers \subseteq AllObjects
      BY <2>3, <2>4 DEF Offers
  <2> QED BY <2>2, <2>5
<1> HIDE DEF k
<1>7. k \in Nat
    BY DEF k
<1>8. Wanted(o) => ~Beats(o, o)
  <2> HAVE Wanted(o)
  <2>1. ~Above(Rank(o), Rank(o))
      BY <1>6, <1>7, AboveIsOrder
  <2>2. o \in Offers \/ FirstRepo(o) = repo
      BY FirstRepoIs
  <2>3. FirstRepo(o) \in Nat
      BY <2>2, FirstRepoIs DEF MergeTypeOK
  <2> QED BY <2>1, <2>3 DEF Beats
<1>9. CASE ret \in {1, 3}
  <2>1. V = Offers \union {o} /\ M = MergedObjects \union {o} /\ same \subseteq {o} /\ ~Beats(o, o)
      BY <1>1, <1>8, <1>9
  <2>2. \A c \in V : \E m \in M : Alike(m) = Alike(c)
      BY <1>2, <2>1
  <2>3. ASSUME NEW m \in M, NEW n \in M, Alike(m) = Alike(n) PROVE m = n
      BY <1>2, <2>1, <2>3
  <2>4. ASSUME NEW c \in V, NEW m \in M, Alike(m) = Alike(c) PROVE ~Beats(c, m)
    <3>1. CASE m = o
      <4>1. CASE c = o
          BY <2>1, <3>1, <4>1
      <4>2. CASE c # o
        <5>1. c \in Offers
            BY <2>1, <4>2
        <5>2. PICK n \in MergedObjects : Alike(n) = Alike(c)
            BY <1>2, <5>1
        <5>3. n = o
            BY <2>1, <2>4, <3>1, <5>2
        <5> QED BY <1>2, <2>4, <3>1, <5>1, <5>2, <5>3
      <4> QED BY <4>1, <4>2
    <3>2. CASE m # o
      <4>1. m \in MergedObjects
          BY <2>1, <3>2
      <4>2. c # o
          BY <2>1, <2>4, <3>2, <4>1
      <4>3. c \in Offers
          BY <2>1, <4>2
      <4> QED BY <1>2, <2>4, <4>1, <4>3
    <3> QED BY <3>1, <3>2
  <2> QED BY <2>2, <2>3, <2>4 DEF Chosen
<1>10. CASE ret = 2
  <2> DEFINE old == Rival(o)
  <2>1. /\ V = Offers \union {o} /\ M = (MergedObjects \ {old}) \union {o}
        /\ old \in MergedObjects /\ Alike(old) = Alike(o) /\ Above(Rank(o), Rank(old))
        /\ ~Beats(o, o)
      BY <1>1, <1>8, <1>10
  <2> HIDE DEF old
  <2>2. \A c \in V : \E m \in M : Alike(m) = Alike(c)
    <3> TAKE c \in V
    <3>1. PICK m \in MergedObjects \union {o} : Alike(m) = Alike(c)
        BY <1>2, <2>1
    <3>2. CASE m = old
        BY <2>1, <3>1, <3>2
    <3> QED BY <2>1, <3>1, <3>2
  <2>3. \A m \in MergedObjects : Alike(m) = Alike(o) => m = old
      BY <1>2, <2>1
  <2>4. ASSUME NEW m \in M, NEW n \in M, Alike(m) = Alike(n) PROVE m = n
      BY <1>2, <2>1, <2>3, <2>4
  <2>5. ASSUME NEW c \in V, NEW m \in M, Alike(m) = Alike(c) PROVE ~Beats(c, m)
    <3>1. CASE m = o /\ c # o
      <4>1. c \in Offers /\ ~Beats(c, old)
          BY <1>2, <2>1, <2>5, <3>1
      <4>2. ~Above(Rank(c), Rank(old))
          BY <4>1 DEF Beats
      <4>3. /\ Rank(c) \in [1..k -> Nat] /\ Rank(o) \in [1..k -> Nat]
            /\ Rank(old) \in [1..k -> Nat]
          BY <1>2, <1>6, <2>1, <4>1
      <4>4. ~Above(Rank(c), Rank(o))
          BY <1>7, <2>1, <4>2, <4>3, AboveIsOrder
      <4>5. Rank(c) # Rank(o)
          BY <2>1, <4>2
      <4> QED BY <3>1, <4>4, <4>5 DEF Beats
    <3>2. CASE m = o /\ c = o
        BY <2>1, <3>2
    <3>3. CASE m # o
      <4>1. m \in MergedObjects /\ m # old
          BY <2>1, <3>3
      <4>2. c # o
          BY <2>3, <2>5, <4>1
      <4>3. c \in Offers
          BY <2>1, <4>2
      <4> QED BY <1>2, <2>5, <4>1, <4>3
    <3> QED BY <3>1, <3>2, <3>3
  <2> QED BY <2>2, <2>4, <2>5 DEF Chosen
<1> QED BY <1>3, <1>4, <1>5, <1>9, <1>10

\* An object is offered, and taken or not.
LEMMA MergePackageRight == ASSUME OwnInv, OwnInv', RightInv, MergePackage PROVE RightInv'
<1>1. /\ MergeTypeOK /\ MergeTypeOK' /\ pc = "merge" /\ pc' = "merge" /\ repo \in Repos
      /\ UNCHANGED <<call, pc, repo, noarch, blocked, simple, include, open>>
      /\ loaded >= 0 /\ noarch = NoarchRepo /\ left \subseteq Loaded(repo)
      /\ StuffInv /\ BuildInv /\ StageInv /\ CountInv /\ BaseInv
      /\ Undamaged => ChoiceInv /\ OriginInv
    BY DEF OwnInv, MergePackage, MergeTypeOK, RightInv, Merging
<1>2. PICK p \in left :
         LET o == Substitute(p)
             ret == AddPackage(o)
         IN  /\ left' = left \ {p}
             /\ seen' = IF call.koji /\ ~simple /\ RightArch(o) /\ KojiAllows(o)
                          THEN seen \union {Nvra(o)} ELSE seen
             /\ IF ret = 0
                  THEN UNCHANGED <<merged, base, loaded, origins>>
                  ELSE /\ merged' = [n \in DOMAIN merged \union {o.pkg.name} |->
                                        IF n = o.pkg.name THEN Insert(o, ret) ELSE merged[n]]
                       /\ base' = IF o.pkg.base = "own" \/ o \in DOMAIN base \/ Repopath = {}
                                    THEN base
                                    ELSE [x \in DOMAIN base \union {o} |->
                                             IF x = o THEN repo ELSE base[x]]
                       /\ loaded' = IF Counts(ret) THEN loaded + 1 ELSE loaded
                       /\ origins' = IF Counts(ret) /\ open
                                       THEN origins \union {<<Nvra(o), repo>>} ELSE origins
    BY DEF MergePackage
<1> DEFINE o   == Substitute(p)
           ret == AddPackage(o)
<1>3. PICK k \in Nat : Repos = 1..k
    BY <1>1, CallIs DEF MergeTypeOK
<1>4. p \in Loaded(repo) /\ p \in AllObjects /\ p \in RepoObjects /\ p.repo = repo /\ repo # 0
    BY <1>1, <1>3, ObjectsAre DEF RepoObjects
<1>5. o = Replacement(p) /\ (o = p \/ o \in NoarchRepo)
  <2>1. o = Replacement(p)
      BY <1>1 DEF Substitute, Replacement
  <2>2. o = p \/ o \in noarch
      BY DEF Substitute
  <2> QED BY <1>1, <2>1, <2>2
<1>6. o \in AllObjects /\ (Wanted(o) => o \in Offered(repo))
    BY <1>4, <1>5, ObjectsAre DEF Offered
<1>7. /\ ret \in {0, 1, 2, 3}
      /\ ret = 2 => Rivals(o) # {}
      /\ ret = 1 => Rivals(o) = {}
      /\ ret = 3 => Method = "duplicates"
      /\ ret = 2 => Method \in {"ts", "nvr"}
    BY DEF AddPackage
<1>8. ret = 0 => UNCHANGED <<merged, base, loaded, origins>>
    BY <1>2
<1>9. ret # 0 =>
        /\ merged' = [n \in DOMAIN merged \union {o.pkg.name} |->
                         IF n = o.pkg.name THEN Insert(o, ret) ELSE merged[n]]
        /\ base' = IF o.pkg.base = "own" \/ o \in DOMAIN base \/ Repopath = {}
                     THEN base
                     ELSE [x \in DOMAIN base \union {o} |-> IF x = o THEN repo ELSE base[x]]
        /\ loaded' = IF ret = 1 THEN loaded + 1 ELSE loaded
        /\ origins' = IF ret = 1 /\ open THEN origins \union {<<Nvra(o), repo>>} ELSE origins
    BY <1>2 DEF Counts
<1>10. /\ left' = left \ {p}
       /\ seen' = IF call.koji /\ ~simple /\ RightArch(o) /\ KojiAllows(o)
                    THEN seen \union {Nvra(o)} ELSE seen
    BY <1>2
<1> HIDE DEF o, ret
<1>11. /\ ret = 0 => MergedObjects' = MergedObjects
       /\ ret \in {1, 3} => MergedObjects' = MergedObjects \union {o}
       /\ ret = 2 => /\ Rival(o) \in MergedObjects
                     /\ MergedObjects' = (MergedObjects \ {Rival(o)}) \union {o}
  <2>1. CASE ret = 0
      BY <1>8, <2>1 DEF MergedObjects
  <2>2. CASE ret # 0
      BY <1>1, <1>6, <1>7, <1>9, <2>2, MergedAfter
  <2> QED BY <2>1, <2>2
<1>12. /\ RepoObjects' = RepoObjects /\ Undamaged' = Undamaged /\ Method' = Method
       /\ Faultless' = Faultless /\ KojiStuff' = KojiStuff
       /\ Repos' = Repos /\ NoarchRepo' = NoarchRepo /\ \A r : Loaded(r)' = Loaded(r)
       /\ \A r : Offered(r)' = Offered(r)
       /\ \A x : FirstRepo(x)' = FirstRepo(x) /\ Alike(x)' = Alike(x)
       /\ \A x, c : Beats(x, c)' = Beats(x, c)
       /\ \A x : Wanted(x)' = Wanted(x) /\ Replacement(x)' = Replacement(x)
    BY <1>1, SameOffers, SameCall
<1>13. StuffInv' /\ StageInv'
  <2>1. StuffInv'
      BY <1>1 DEF StuffInv
  <2>2. StageInv'
      BY <1>1, <1>12 DEF StageInv, Merging
  <2> QED BY <2>1, <2>2
<1>14. BuildInv'
  <2>1. pc' \notin {"builds", "visit"}
      BY <1>1
  <2>2. Merging
      BY <1>1 DEF Merging
  <2> QED BY <1>1, <1>12, <2>1, <2>2 DEF BuildInv
<1>15. Offers' = Offers \union (IF Wanted(o) THEN {o} ELSE {})
  <2> DEFINE of(S) == {x \in {Replacement(q) : q \in S} : Wanted(x)}
             earlier == {q \in Repos : q < repo}
  <2>1. Offers = of(Loaded(repo) \ left) \union UNION {Offered(r) : r \in earlier}
      BY <1>1 DEF Offers
  <2>2. Offers' = of(Loaded(repo) \ left') \union UNION {Offered(r) : r \in earlier}
      BY <1>1, <1>12 DEF Offers
  <2>3. Loaded(repo) \ left' = (Loaded(repo) \ left) \union {p}
      BY <1>1, <1>4, <1>10
  <2>4. of((Loaded(repo) \ left) \union {p}) =
           of(Loaded(repo) \ left) \union (IF Wanted(o) THEN {o} ELSE {})
      BY <1>5
  <2> HIDE DEF of, earlier
  <2> QED BY <2>1, <2>2, <2>3, <2>4
<1>16. ASSUME Undamaged PROVE ChoiceInv'
  <2>1. ChoiceInv /\ Merging
      BY <1>1, <1>16 DEF Merging
  <2>2. /\ ret # 0 => Wanted(o) /\ RightArch(o) /\ KojiAllows(o)
        /\ Faultless /\ call.koji /\ ~call.simple /\ RightArch(o) /\ KojiAllows(o) => ret = 1
      BY <1>1, <1>6, <1>16, <2>1, AddPackageIs DEF ret
  <2>3. MergedObjects' \subseteq Offers'
      BY <1>7, <1>11, <1>15, <2>1, <2>2 DEF ChoiceInv, Chosen
  <2>4. ASSUME Faultless
        PROVE  /\ \A c \in Offers' : \E m \in MergedObjects' : Alike(m) = Alike(c)
               /\ \A m, n \in MergedObjects' : Alike(m) = Alike(n) => m = n
               /\ \A c \in Offers' : \A m \in MergedObjects' : Alike(m) = Alike(c) => ~Beats(c, m)
    <3> DEFINE M == MergedObjects'
               V == Offers'
    <3>1. /\ V = Offers \union (IF Wanted(o) THEN {o} ELSE {})
          /\ ret = 0 => M = MergedObjects
          /\ ret \in {1, 3} => M = MergedObjects \union {o}
          /\ ret = 2 => M = (MergedObjects \ {Rival(o)}) \union {o}
        BY <1>11, <1>15
    <3>2. ret = AddPackage(o)
        BY DEF ret
    <3> HIDE DEF M, V
    <3>3. Chosen(M, V)
      <4>1. /\ MergeTypeOK /\ StuffInv /\ BuildInv /\ Undamaged /\ Merging /\ ChoiceInv
            /\ pc = "merge" /\ repo \in Repos /\ o \in AllObjects /\ Faultless
            /\ Wanted(o) => o \in Offered(repo)
          BY <1>1, <1>6, <1>16, <2>1, <2>4
      <4> QED BY <3>1, <3>2, <4>1, ChosenAfter
    <3> QED BY <3>3 DEF Chosen, M, V
  <2>5. ASSUME Faultless, call.koji, ~call.simple
        PROVE  seen' = {Nvra(m) : m \in MergedObjects'}
    <3>1. seen = {Nvra(m) : m \in MergedObjects}
        BY <2>1, <2>5 DEF ChoiceInv, Chosen
    <3>2. ~simple
        BY <1>1, <2>5 DEF StuffInv, Faultless
    <3>3. CASE RightArch(o) /\ KojiAllows(o)
        BY <1>10, <1>11, <2>2, <2>5, <3>1, <3>2, <3>3
    <3>4. CASE ~(RightArch(o) /\ KojiAllows(o))
        BY <1>10, <1>11, <2>2, <3>1, <3>4
    <3> QED BY <3>3, <3>4
  <2> QED BY <1>1, <1>12, <2>3, <2>4, <2>5 DEF ChoiceInv, Chosen
<1>17. ASSUME Undamaged PROVE OriginInv'
  <2> SUFFICES ASSUME Method \in {"repo", "all"}, open
               PROVE  origins' = {<<Nvra(x), FirstRepo(x)>> : x \in MergedObjects'}
      BY <1>1, <1>12 DEF OriginInv
  <2>1. origins = {<<Nvra(x), FirstRepo(x)>> : x \in MergedObjects}
      BY <1>1, <1>17 DEF OriginInv
  <2>2. CASE ret = 0
      BY <1>8, <1>11, <2>1, <2>2
  <2>3. CASE ret = 1
    <3>1. ChoiceInv /\ Merging /\ Faultless
        BY <1>1, <1>17 DEF Merging, Faultless
    <3>2. Wanted(o) /\ {m \in MergedObjects : Alike(m) = Alike(o)} \subseteq {o}
        BY <1>1, <1>6, <1>17, <2>3, <3>1, AddPackageIs DEF ret
    <3>3. o \notin MergedObjects
        BY <1>1, <1>7, <2>3, RivalsAre
    <3>4. o \notin Offers
        BY <3>1, <3>2, <3>3 DEF ChoiceInv, Chosen
    <3>5. FirstRepo(o) = repo
        BY <1>1, <1>6, <3>1, <3>2, <3>4, FirstRepoIs
    <3> QED BY <1>9, <1>11, <2>1, <2>3, <3>5
  <2> QED BY <1>7, <2>2, <2>3
<1>18. CountInv'
  <2>1. CASE ret = 0
    <3>1. Places' = Places
        BY <1>8, <2>1 DEF Places
    <3> QED BY <1>1, <1>8, <1>12, <2>1, <3>1 DEF CountInv
  <2>2. CASE ret # 0
    <3>1. /\ IsFiniteSet(Places')
          /\ ret = 2 => Cardinality(Places') = Cardinality(Places)
          /\ ret # 2 => Cardinality(Places') = Cardinality(Places) + 1
        BY <1>1, <1>6, <1>7, <1>9, <2>2, PlacesAfter DEF CountInv
    <3> QED BY <1>1, <1>7, <1>9, <1>12, <2>2, <3>1 DEF CountInv
  <2> QED BY <2>1, <2>2
<1>19. BaseInv'
  <2>1. \A x : Based(x)' = Based(x)
      BY <1>1, <1>12 DEF Based
  <2>2. CASE ret = 0
      BY <1>8, <1>11, <1>1, <1>12, <2>1, <2>2 DEF BaseInv
  <2>3. CASE ret # 0 /\ base' = base
    <3>1. o.pkg.base = "own" \/ o \in DOMAIN base \/ Repopath = {}
      <4> SUFFICES ASSUME ~(o.pkg.base = "own" \/ o \in DOMAIN base \/ Repopath = {})
                   PROVE  FALSE
          OBVIOUS
      <4>1. base' = [x \in DOMAIN base \union {o} |-> IF x = o THEN repo ELSE base[x]]
          BY <1>9, <2>3
      <4>2. o \in DOMAIN base'
          BY <4>1
      <4> QED BY <2>3, <4>2
    <3>2. o \notin NoarchRepo /\ o.pkg.base # "own" /\ Based(o) => o \in DOMAIN base
      <4>1. o \notin NoarchRepo /\ Based(o) => Repopath # {}
          BY <1>4, <1>5 DEF Based, Repopath
      <4> QED BY <3>1, <4>1
    <3>3. MergedObjects' \subseteq MergedObjects \union {o}
        BY <1>7, <1>11
    <3> QED BY <1>1, <1>12, <2>1, <2>3, <3>2, <3>3 DEF BaseInv
  <2>4. CASE ret # 0 /\ base' # base
    <3>1. /\ o.pkg.base # "own" /\ o \notin DOMAIN base /\ Repopath # {}
          /\ base' = [x \in DOMAIN base \union {o} |-> IF x = o THEN repo ELSE base[x]]
        BY <1>9, <2>4
    <3>2. o \notin NoarchRepo
      <4>1. o.pkg.base \in {"own", "none"}
          BY <1>1, <1>6, OptionsAre DEF MergeTypeOK
      <4> QED BY <1>1, <3>1, <4>1 DEF BaseInv
    <3>3. o \in RepoObjects /\ o.repo = repo /\ Based(o)
        BY <1>4, <1>5, <3>1, <3>2 DEF Based, Repopath
    <3>4. /\ DOMAIN base' = DOMAIN base \union {o} /\ base'[o] = repo
          /\ \A x \in DOMAIN base : base'[x] = base[x]
        BY <3>1
    <3>5. MergedObjects' \subseteq MergedObjects \union {o}
        BY <1>7, <1>11
    <3> QED BY <1>1, <1>12, <2>1, <3>1, <3>3, <3>4, <3>5 DEF BaseInv
  <2> QED BY <2>2, <2>3, <2>4
<1>20. pc' \notin Before
    BY <1>1 DEF Before
<1> QED BY <1>12, <1>13, <1>14, <1>16, <1>17, <1>18, <1>19, <1>20 DEF RightInv

\* The invariant behind what is merged.
THEOREM RightInductive == MergeSpec => []RightInv
<1>1. MergeInit /\ OwnInv => RightInv
  <2> SUFFICES ASSUME MergeInit, OwnInv PROVE RightInv
      OBVIOUS
  <2>1. /\ call \in Calls /\ pc = "koji" /\ noarch = NoarchRepo /\ merged = NoMap /\ loaded = 0
        /\ blocked = {} /\ ~simple /\ include = NoMap /\ seen = {} /\ ~open /\ origins = {}
        /\ base = [o \in {n \in noarch : n.pkg.base = "none"} |-> 0]
      BY DEF MergeInit, NoarchRepo
  <2>2. MergedObjects = {} /\ Places = {}
      BY <2>1 DEF MergedObjects, Places, NoMap
  <2>3. StuffInv /\ BuildInv /\ StageInv /\ ~Merging
      BY <2>1 DEF StuffInv, BuildInv, StageInv, Merging
  <2>4. CountInv
      BY <2>1, <2>2, FS_EmptySet DEF CountInv
  <2>5. BaseInv /\ \A o \in DOMAIN base : o \in NoarchRepo
      BY <2>1, <2>2 DEF BaseInv
  <2> QED BY <2>1, <2>2, <2>3, <2>4, <2>5 DEF RightInv
<1>2. OwnInv /\ OwnInv' /\ RightInv /\ [MergeNext]_mergeVars => RightInv'
  <2> SUFFICES ASSUME OwnInv, OwnInv', RightInv, [MergeNext]_mergeVars PROVE RightInv'
      OBVIOUS
  <2>1. CASE UNCHANGED mergeVars
    <3>1. UNCHANGED <<call, pc, repo, left, blocked, simple, include, seen, open, origins,
                      merged, base, loaded>>
        BY <2>1 DEF mergeVars, kojiVars
    <3>2. /\ MergedObjects' = MergedObjects /\ Places' = Places
          /\ Repos' = Repos /\ NoarchRepo' = NoarchRepo /\ \A r : Loaded(r)' = Loaded(r)
        BY <3>1, SameCall DEF MergedObjects, Places
    <3>3. /\ RepoObjects' = RepoObjects /\ Undamaged' = Undamaged /\ Method' = Method
          /\ Faultless' = Faultless /\ KojiStuff' = KojiStuff
          /\ \A r : Offered(r)' = Offered(r)
          /\ \A x : FirstRepo(x)' = FirstRepo(x) /\ Alike(x)' = Alike(x)
          /\ \A x, c : Beats(x, c)' = Beats(x, c)
          /\ \A x : Wanted(x)' = Wanted(x) /\ Replacement(x)' = Replacement(x)
        BY <3>1, SameOffers
    <3>4. Offers' = Offers /\ Visited' = Visited
        BY <3>1, <3>2, <3>3 DEF Offers, Visited
    <3>5. StuffInv' /\ StageInv' /\ Merging' = Merging
        BY <3>1, <3>2 DEF RightInv, StuffInv, StageInv, Merging
    <3>6. BuildInv'
        BY <3>1, <3>2, <3>3, <3>4, <3>5 DEF RightInv, BuildInv
    <3>7. Merging' /\ Undamaged' => ChoiceInv' /\ OriginInv'
      <4> HAVE Merging' /\ Undamaged'
      <4>1. ChoiceInv /\ OriginInv
          BY <3>3, <3>5 DEF RightInv
      <4>2. ChoiceInv'
          BY <3>1, <3>2, <3>3, <3>4, <4>1 DEF ChoiceInv, Chosen
      <4>3. OriginInv'
          BY <3>1, <3>2, <3>3, <4>1 DEF OriginInv
      <4> QED BY <4>2, <4>3
    <3>8. /\ loaded' >= 0 => CountInv'
          /\ BaseInv'
        BY <3>1, <3>2, <3>3 DEF RightInv, CountInv, BaseInv, Based
    <3> QED BY <3>1, <3>2, <3>5, <3>6, <3>7, <3>8 DEF RightInv
  <2> QED BY <2>1, BeforeRight, StagesRight, MergePackageRight DEF MergeNext
<1> QED BY <1>1, <1>2, OwnInductive, PTL DEF MergeSpec

\* Whatever the order of the hash tables, merge_repos takes of the packages that
\* are alternatives exactly one, and none that is worse than another; it counts
\* them, and gives them the base of the repository they are from.
THEOREM MergesAsPromised == MergeSpec => []MergedRight
<1>1. OwnInv /\ RightInv => MergedRight
  <2> SUFFICES ASSUME OwnInv, RightInv, Merges PROVE MergedRight
      BY DEF MergedRight, MergedAsPromised, CountsMatch, BasesSet
  <2>1. /\ MergeTypeOK /\ Merging /\ pc = "merged" /\ repo \notin Repos /\ StageInv
      BY DEF OwnInv, RightInv, Merges, Merging, StageInv
  <2>2. PICK k \in Nat : Repos = 1..k
      BY <2>1, CallIs DEF MergeTypeOK
  <2>3. \A r \in Repos : r < repo
      BY <2>1, <2>2 DEF MergeTypeOK
  <2>4. Undamaged
      BY <2>1, <2>3 DEF StageInv, Undamaged
  <2>5. Offers = Candidates
    <3>1. {q \in Repos : q < repo} = Repos
        BY <2>3
    <3> QED BY <2>1, <3>1 DEF Offers, Candidates
  <2>6. ChoiceInv /\ OriginInv /\ CountInv /\ BaseInv /\ StuffInv
      BY <2>1, <2>4 DEF RightInv, Merging
  <2>7. MergedAsPromised
    <3> SUFFICES ASSUME Faultless
                 PROVE  /\ MergedObjects \subseteq Candidates
                        /\ \A c \in Candidates :
                             /\ Cardinality({m \in MergedObjects : Alike(m) = Alike(c)}) = 1
                             /\ \A m \in MergedObjects : Alike(m) = Alike(c) => ~Beats(c, m)
        BY DEF MergedAsPromised
    <3>1. ASSUME NEW c \in Candidates
          PROVE  Cardinality({m \in MergedObjects : Alike(m) = Alike(c)}) = 1
      <4>1. PICK m \in MergedObjects : Alike(m) = Alike(c)
          BY <2>5, <2>6 DEF ChoiceInv, Chosen
      <4>2. {x \in MergedObjects : Alike(x) = Alike(c)} = {m}
          BY <2>6, <4>1 DEF ChoiceInv, Chosen
      <4> QED BY <4>2, FS_Singleton
    <3> QED BY <2>5, <2>6, <3>1 DEF ChoiceInv, Chosen
  <2>8. CountsMatch
    <3>1. open => Faultless
        BY DEF Faultless
    <3> QED BY <2>6 DEF CountsMatch, CountInv, OriginInv
  <2>9. ASSUME ~(call.pkgorigins /\ ~call.koji), NEW o \in MergedObjects PROVE HasBase(o)
    <3>1. o \in Candidates /\ o \in AllObjects
      <4>1. \A n \in DOMAIN merged : ToSet(merged[n]) \subseteq AllObjects
          BY <2>1 DEF MergeTypeOK, ToSet
      <4> QED BY <2>5, <2>6, <4>1 DEF ChoiceInv, Chosen, MergedObjects
    <3>2. o.pkg.base \in {"own", "none"}
        BY <2>1, <3>1, OptionsAre DEF MergeTypeOK
    <3>3. \A x \in NoarchRepo : x.repo = 0 /\ x \notin RepoObjects
      <4>1. \A r \in Repos : \A x \in Loaded(r) : x.repo # 0
          BY <2>2, ObjectsAre
      <4> QED BY <4>1, ObjectsAre DEF RepoObjects
    <3>4. CASE o \in NoarchRepo
        BY <2>6, <3>2, <3>3, <3>4 DEF BaseInv, HasBase
    <3>5. CASE o \notin NoarchRepo
      <4>1. o \in RepoObjects /\ o.repo \in Repos /\ o.repo # 0
          BY <2>2, <3>1, <3>5, ObjectsAre DEF RepoObjects
      <4>2. FirstRepo(o) = o.repo
        <5> DEFINE from == {r \in Repos : o \in Offered(r)}
        <5>1. \A r \in from : r = o.repo
          <6> TAKE r \in from
          <6>1. PICK p \in Loaded(r) : o = Replacement(p)
              BY DEF Offered
          <6>2. o = p
              BY <3>5, <6>1 DEF Replacement
          <6> QED BY <6>1, <6>2, ObjectsAre
        <5>2. from # {} /\ from \subseteq Nat
            BY <2>2, <3>1 DEF Candidates
        <5>3. FirstRepo(o) = Min(from)
            BY DEF FirstRepo
        <5> HIDE DEF from
        <5>4. Min(from) \in from
            BY <5>2, MinIs
        <5> QED BY <5>1, <5>3, <5>4
      <4>3. KojiStuff <=> call.koji
        <5>1. open => call.koji
            BY <2>6, <2>9 DEF StuffInv
        <5> QED BY <5>1 DEF KojiStuff
      <4>4. Based(o) <=> ~(call.omitBaseurl \/ (call.koji /\ o.repo = 1))
          BY <4>3 DEF Based
      <4>5. /\ o \in DOMAIN base => o.pkg.base # "own" /\ base[o] = o.repo /\ Based(o)
            /\ o.pkg.base # "own" /\ Based(o) => o \in DOMAIN base
          BY <2>6, <3>5 DEF BaseInv
      <4> QED BY <4>1, <4>2, <4>4, <4>5 DEF HasBase
    <3> QED BY <3>4, <3>5
  <2> QED BY <2>7, <2>8, <2>9 DEF MergedRight, BasesSet
<1> QED BY <1>1, OwnInductive, RightInductive, PTL
===============================================================================
