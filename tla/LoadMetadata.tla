---------------------------- MODULE LoadMetadata ----------------------------
(***************************************************************************)
(* Loading the metadata of repositories into one table                     *)
(* (src/load_metadata.c).  createrepo_c --update loads its own repository  *)
(* and every --update-md-path, one after another, into one cr_Metadata.    *)
(*                                                                         *)
(* A load parses primary, filelists and other in this order into a table   *)
(* of its own, by pkgId, and then moves the packages, in the arbitrary     *)
(* order of that hash table, into the caller's table under the key the     *)
(* caller has chosen.  Twice something has to be done about duplicates:    *)
(* different packages with one pkgId, as their filelists could not be told *)
(* apart, and different packages with one key.                             *)
(***************************************************************************)
EXTENDS Integers, Sequences, FiniteSets, Functions

CONSTANTS
    Elems,          \* the package elements of primary files
    PkgId,          \* their checksum
    Basename,       \* the base name of their location
    Stat,           \* their time_file and size_package
    Key,            \* what the caller's table is indexed by
    Inputs          \* what is loaded: records of the fields below

PkgIds == {PkgId[e] : e \in Elems}
Keys == {Key[e] : e \in Elems}

ASSUME LoadMetadataAssumption ==
    /\ DOMAIN PkgId = Elems /\ DOMAIN Basename = Elems
    /\ DOMAIN Stat = Elems /\ DOMAIN Key = Elems
    /\ \A i \in Inputs :
         /\ i.repos \in Seq([primary : Seq(Elems), filelists : Seq(PkgIds),
                              other : Seq(PkgIds)])
         /\ i.repos # <<>>
         /\ i.dupaction \in {"keepfirst", "removeall"}
         /\ i.listed \subseteq Range(Basename)

VARIABLES
    input,          \* the repositories, dupaction, and pkglist as a set
    repo,           \* which repository is loaded
    lpc,             \* the file that is parsed, then "fill", and "loaded"
    at,             \* the elements of that file that are parsed
    intern,         \* intern_hashtable: from a pkgId to a package
    ignoredIds,     \* ignored_pkgIds
    ignoredKeys,    \* ignored_keys
    table,          \* md->ht: from a key to a package
    before          \* md->ht when the load began

vars == <<input, repo, lpc, at, intern, ignoredIds, ignoredKeys, table, before>>

NoTable == [k \in {} |-> 0]
Put(t, k, v) == [l \in DOMAIN t \union {k} |-> IF l = k THEN v ELSE t[l]]

Init ==
    /\ input \in Inputs
    /\ repo = 1
    /\ lpc = "primary" /\ at = 0
    /\ intern = NoTable /\ ignoredIds = {} /\ ignoredKeys = {}
    /\ table = NoTable /\ before = NoTable

Content(f) == input.repos[repo][f]

\* The load that is going on ends, with an empty intern table.
Over(t) ==
    /\ intern' = NoTable /\ ignoredIds' = {} /\ ignoredKeys' = {}
    /\ table' = t
    /\ lpc' = "loaded"
    /\ UNCHANGED <<input, repo, at>>

-----------------------------------------------------------------------------
(* Parsing primary: primary_pkgcb.                                         *)

Element == Content("primary")[at + 1]
Id == PkgId[Element]

ParsePackage ==
    /\ lpc = "primary"
    /\ at < Len(Content("primary"))
    /\ at' = at + 1
    /\ UNCHANGED <<input, repo, lpc, ignoredKeys, table, before>>

Ignored == Basename[Element] \notin input.listed \/ Id \in ignoredIds

DropIgnored ==
    /\ ParsePackage
    /\ Ignored
    /\ UNCHANGED <<intern, ignoredIds>>

NewEntry(e) == [elem |-> e, filelists |-> 0, other |-> 0]

StorePackage ==
    /\ ParsePackage
    /\ ~Ignored /\ Id \notin DOMAIN intern
    /\ intern' = Put(intern, Id, NewEntry(Element))
    /\ UNCHANGED ignoredIds

\* The code also compares a basename, but of the new package with itself.
SamePackage(e, f) == Stat[e] = Stat[f]

\* The same package once more: the first stays.
DropRepeated ==
    /\ ParsePackage
    /\ ~Ignored /\ Id \in DOMAIN intern
    /\ SamePackage(intern[Id].elem, Element)
    /\ UNCHANGED <<intern, ignoredIds>>

\* The package that came first is used all the same.
Mutant_DropConflict ==
    /\ ParsePackage
    /\ ~Ignored /\ Id \in DOMAIN intern
    /\ ~SamePackage(intern[Id].elem, Element)
    /\ ignoredIds' = ignoredIds \union {Id}
    /\ UNCHANGED intern
\* Another package with the same pkgId: neither is used, nor any later one.
DropConflict ==
    /\ ParsePackage
    /\ ~Ignored /\ Id \in DOMAIN intern
    /\ ~SamePackage(intern[Id].elem, Element)
    /\ intern' = Restrict(intern, DOMAIN intern \ {Id})
    /\ ignoredIds' = ignoredIds \union {Id}

-----------------------------------------------------------------------------
(* Parsing filelists and other: newpkgcb.                                  *)

PartId == Content(lpc)[at + 1]

ParsePart ==
    /\ lpc \in {"filelists", "other"}
    /\ at < Len(Content(lpc))
    /\ at' = at + 1
    /\ UNCHANGED <<input, repo, lpc, ignoredIds, ignoredKeys, table, before>>

\* CR_PACKAGE_LOADED_FIL or CR_PACKAGE_LOADED_OTH is not set yet.
NotLoaded(entry) == entry[lpc] = 0

LoadPart ==
    /\ ParsePart
    /\ PartId \in DOMAIN intern /\ NotLoaded(intern[PartId])
    /\ intern' = [intern EXCEPT ![PartId][lpc] = at + 1]

SkipPart ==
    /\ ParsePart
    /\ PartId \in DOMAIN intern => ~NotLoaded(intern[PartId])
    /\ UNCHANGED intern

\* The next file; the ids that are ignored are forgotten after primary, as the
\* packages are not in the table.
EndOfFile ==
    /\ lpc \in {"primary", "filelists", "other"}
    /\ at = Len(Content(lpc))
    /\ lpc' = CASE lpc = "primary"   -> "filelists"
               [] lpc = "filelists" -> "other"
               [] OTHER            -> "fill"
    /\ at' = 0
    /\ ignoredIds' = {}
    /\ UNCHANGED <<input, repo, intern, ignoredKeys, table, before>>

\* The repository is not found, or a file cannot be read or parsed.
LoadFails ==
    /\ lpc \in {"primary", "filelists", "other"}
    /\ Over(table)
    /\ UNCHANGED before

-----------------------------------------------------------------------------
(* Filling the caller's table.                                             *)

Fill(id) ==
    /\ lpc = "fill"
    /\ id \in DOMAIN intern
    /\ intern' = Restrict(intern, DOMAIN intern \ {id})
    /\ UNCHANGED <<input, repo, lpc, at, ignoredIds, before>>

KeyOf(id) == Key[intern[id].elem]

MovePackage(id) ==
    /\ Fill(id)
    /\ KeyOf(id) \notin DOMAIN table
    /\ table' = Put(table, KeyOf(id), intern[id])
    /\ UNCHANGED ignoredKeys

SameEntry(e, f) ==
    /\ Stat[e] = Stat[f]
    /\ PkgId[e] = PkgId[f]
    /\ Basename[e] = Basename[f]

DropKnown(id) ==
    /\ Fill(id)
    /\ KeyOf(id) \in DOMAIN table
    /\ \/ input.dupaction = "keepfirst"
       \/ SameEntry(intern[id].elem, table[KeyOf(id)].elem)
    /\ UNCHANGED <<table, ignoredKeys>>

\* The package in the table stays until all packages are through.
DropClash(id) ==
    /\ Fill(id)
    /\ KeyOf(id) \in DOMAIN table
    /\ input.dupaction = "removeall"
    /\ ~SameEntry(intern[id].elem, table[KeyOf(id)].elem)
    /\ ignoredKeys' = ignoredKeys \union {KeyOf(id)}
    /\ UNCHANGED table

RemoveIgnored ==
    /\ lpc = "fill"
    /\ intern = NoTable
    /\ Over(Restrict(table, DOMAIN table \ ignoredKeys))
    /\ UNCHANGED before

\* The next repository is loaded into the same table.
LoadNext ==
    /\ lpc = "loaded"
    /\ repo < Len(input.repos)
    /\ repo' = repo + 1
    /\ lpc' = "primary" /\ at' = 0
    /\ before' = table
    /\ UNCHANGED <<input, intern, ignoredIds, ignoredKeys, table>>

ParsePrimary == DropIgnored \/ StorePackage \/ DropRepeated \/ DropConflict

Next ==
    \/ ParsePrimary
    \/ LoadPart \/ SkipPart
    \/ EndOfFile \/ LoadFails
    \/ \E id \in PkgIds : MovePackage(id) \/ DropKnown(id) \/ DropClash(id)
    \/ RemoveIgnored
    \/ LoadNext

Spec == Init /\ [][Next]_vars

-----------------------------------------------------------------------------
(* Properties.                                                             *)

\* What a load makes of primary, said of the file as a whole: the first of the
\* wanted elements with each pkgId, if they all have the same time and size.
WantedAt == {i \in DOMAIN Content("primary") :
               Basename[Content("primary")[i]] \in input.listed}
Parsed ==
    {Content("primary")[i] : i \in
       {j \in WantedAt :
          \A l \in WantedAt :
            LET e == Content("primary")[j]
                f == Content("primary")[l]
            IN  PkgId[e] = PkgId[f] => SamePackage(e, f) /\ j <= l}}

\* The packages with a key, those that were in the table before included.
WithKey(k) ==
    {e \in Parsed : Key[e] = k}
      \union (IF k \in DOMAIN before THEN {before[k].elem} ELSE {})
NoClash(k) == \A e, f \in WithKey(k) : SameEntry(e, f)

\* At the end of a load the table is what it was, or it has the packages of the
\* repository too, whatever the order of the two hash tables and of the file:
\* with removeall every key without different packages, with keepfirst every
\* key, and what was there before is only ever removed, never replaced.
LoadedAsPromised ==
    lpc = "loaded" =>
      \/ table = before
      \/ /\ DOMAIN table =
              {k \in Keys : WithKey(k) # {}
                            /\ (input.dupaction = "removeall" => NoClash(k))}
         /\ \A k \in DOMAIN table :
              IF k \in DOMAIN before THEN table[k] = before[k]
                                     ELSE table[k].elem \in WithKey(k)

\* A package that was loaded has the first part with its pkgId that each of the
\* two files holds, and none only if there is none: parts are never mixed up
\* between packages and a repeated part does not replace the first.
Paired ==
    lpc = "loaded" =>
      \A k \in DOMAIN table \ DOMAIN before, f \in {"filelists", "other"} :
        LET id == PkgId[table[k].elem]
            here == {i \in DOMAIN Content(f) : Content(f)[i] = id}
        IN  IF here = {} THEN table[k][f] = 0
                         ELSE /\ table[k][f] \in here
                              /\ \A i \in here : table[k][f] <= i

\* After each load of cr_metadata_load_xml the table holds what its duplicate
\* action promises, whatever the order of the hash table, and a package has the
\* filelists and other of its own pkgId.
LoadedRight == LoadedAsPromised /\ Paired
=============================================================================
