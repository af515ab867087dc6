-------------------------------- MODULE RepoDir --------------------------------
(***************************************************************************)
(* A repository as the tools that change it in place see it: the files of  *)
(* repodata/, the records of repomd.xml, and the operations of repomd.c on *)
(* both.  A record is a promise: there is a file of this name, and this is *)
(* its checksum.  Records are kept by type (cr_repomd_set_record admits    *)
(* one of each), so the order that cr_repomd_sort_records gives them is    *)
(* left out.                                                               *)
(***************************************************************************)
EXTENDS Naturals, FiniteSets, Sequences, SequencesExt

CONSTANTS
    Types,          \* types of records, which are also base names of files
    Data            \* what a file may say

Partial == "partial"        \* a file that was not written to its end

\* What is in a file: metadata of which kind, with what they say, and how they
\* are compressed.  The checksum of a file is as good as its content.
Formats  == {"", ".gz", ".zck"}
Contents == [about : Types, data : Data \union {Partial}, sfx : Formats]
NoSum    == [about |-> "", data |-> "", sfx |-> ""]

\* A name: an optional checksum as prefix, the base name, the suffix.
Names   == [base : Types, sfx : Formats, sum : Contents \union {NoSum}]
Records == [href : Names, sum : Contents \union {NoSum}]

VARIABLES
    files,          \* the files of repodata/, by name
    repomd          \* repomd.xml: "whole" or truncated, its revision, its records

dirVars == <<files, repomd>>

-----------------------------------------------------------------------------
(* Files.                                                                  *)

Has(fs, n)    == n \in DOMAIN fs
Put(fs, n, c) == [m \in DOMAIN fs \union {n} |-> IF m = n THEN c ELSE fs[m]]
Drop(fs, ns)  == [m \in DOMAIN fs \ ns |-> fs[m]]

\* A record is kept when its file is there and has the checksum it says.
Kept(rec, fs) == Has(fs, rec.href) /\ fs[rec.href] = rec.sum

-----------------------------------------------------------------------------
(* Records.                                                                *)

SetRecord(recs, t, rec) == [u \in DOMAIN recs \union {t} |->
                               IF u = t THEN rec ELSE recs[u]]
Detach(recs, ts) == [u \in DOMAIN recs \ ts |-> recs[u]]

\* The checksum of a missing file is not computed, and nobody asks whether the
\* record was filled.
Filled(n, fs) == [href |-> n, sum |-> IF Has(fs, n) THEN fs[n] ELSE NoSum]

\* rename_file: nothing to do if the name begins with the checksum of the
\* record; another checksum in front of the name is replaced.  Without a
\* checksum the record keeps its name.
UniqueName(rec) == [rec.href EXCEPT !.sum = rec.sum]
NeedsRename(rec) == rec.sum # NoSum /\ rec.href.sum # rec.sum

\* The file of that name is removed first; the rename fails without a source,
\* and then the record keeps the name the file had.
RemoveTarget(rec, fs) == Drop(fs, {UniqueName(rec)})
RenameFile(rec, fs) == Put(Drop(fs, {rec.href}), UniqueName(rec), fs[rec.href])
Renamed(rec) == [rec EXCEPT !.href = UniqueName(rec)]
=============================================================================
