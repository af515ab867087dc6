----------------------------- MODULE FilesProofs -----------------------------
(***************************************************************************)
(* The files of metadata, read and written: what loading promises for any  *)
(* number of repositories, any contents of their files and any order of    *)
(* the two hash tables; and what writing promises about the files of any   *)
(* number of packages, wherever the disk fills up and whatever cannot be   *)
(* read.                                                                   *)
(***************************************************************************)
EXTENDS LoadMetadata, MetadataFiles, SequenceTheorems, FiniteSetTheorems,
        WellFoundedInduction, TLAPS

(***************************************************************************)
(* Loading. While primary is parsed, the intern table stands for what a    *)
(* reader of as much of the file would choose (ParsingPrimary); in the end *)
(* that is Parsed. An entry has the first part of its own in what is       *)
(* parsed of filelists and other (Parts). While the caller's table is      *)
(* filled, it is what it was and one package of each key of those that     *)
(* have been moved, and a key is to be removed if one of these differs     *)
(* from it (Filling).                                                      *)
(***************************************************************************)

PartFiles == {"filelists", "other"}
Entry == [elem : Elems, filelists : Nat, other : Nat]

TypeOK ==
    /\ input \in Inputs
    /\ repo \in 1 .. Len(input.repos)
    /\ lpc \in {"primary", "filelists", "other", "fill", "loaded"}
    /\ lpc \in {"primary", "filelists", "other"} => at \in 0 .. Len(Content(lpc))
    /\ DOMAIN intern \subseteq PkgIds
    /\ \A id \in DOMAIN intern :
          intern[id] \in Entry /\ PkgId[intern[id].elem] = id
    /\ DOMAIN table \subseteq Keys

\* What is empty when.
Tidy ==
    /\ lpc \in {"primary", "filelists", "other"} => table = before /\ ignoredKeys = {}
    /\ lpc # "primary" => ignoredIds = {}
    /\ lpc = "loaded" => intern = NoTable /\ ignoredKeys = {}

\* The first n elements of primary, as far as they are wanted.
WantedTo(n) == {i \in WantedAt : i <= n}
Elem(i) == Content("primary")[i]
Differ(i, j) == PkgId[Elem(i)] = PkgId[Elem(j)] /\ ~SamePackage(Elem(i), Elem(j))

\* The one element that stands for its pkgId among the first n.
Stands(i, n) ==
    /\ i \in WantedTo(n)
    /\ \A l \in WantedTo(n) :
          PkgId[Elem(i)] = PkgId[Elem(l)] => SamePackage(Elem(i), Elem(l)) /\ i <= l

ParsingPrimary ==
    lpc = "primary" =>
      /\ \A i \in WantedTo(at) :
            PkgId[Elem(i)] \in DOMAIN intern \union ignoredIds
      /\ \A id \in DOMAIN intern :
            /\ id \notin ignoredIds
            /\ \E i \in WantedTo(at) :
                  /\ intern[id] = NewEntry(Elem(i))
                  /\ Stands(i, at)
      /\ \A id \in ignoredIds :
            \E i, j \in WantedTo(at) : PkgId[Elem(i)] = id /\ Differ(i, j)

\* After primary the entries are the packages of Parsed.
InternParsed ==
    /\ lpc \in {"filelists", "other", "fill"} =>
          \A id \in DOMAIN intern : intern[id].elem \in Parsed
    /\ lpc \in {"filelists", "other"} =>
          \A e \in Parsed : PkgId[e] \in DOMAIN intern

\* v is where id comes first among the first n elements of f, 0 if nowhere.
FirstIn(id, v, f, n) ==
    /\ v \in 0 .. n
    /\ v # 0 => Content(f)[v] = id
    /\ \A i \in 1 .. n : Content(f)[i] = id => v # 0 /\ v <= i

HasParts(entry, filelists, other) ==
    /\ FirstIn(PkgId[entry.elem], entry.filelists, "filelists", filelists)
    /\ FirstIn(PkgId[entry.elem], entry.other, "other", other)

Parts ==
    \A id \in DOMAIN intern :
        /\ lpc = "primary"   => HasParts(intern[id], 0, 0)
        /\ lpc = "filelists" => HasParts(intern[id], at, 0)
        /\ lpc = "other"     => HasParts(intern[id], Len(Content("filelists")), at)
        /\ lpc = "fill"      => HasParts(intern[id], Len(Content("filelists")),
                                                Len(Content("other")))

\* The packages that have left the intern table for the caller's.
Moved == {e \in Parsed : PkgId[e] \notin DOMAIN intern}

Filling ==
    lpc = "fill" =>
      /\ DOMAIN before \subseteq DOMAIN table
      /\ \A k \in DOMAIN before : table[k] = before[k]
      /\ \A k \in DOMAIN table \ DOMAIN before :
            /\ table[k] \in Entry
            /\ table[k].elem \in Moved /\ Key[table[k].elem] = k
            /\ HasParts(table[k], Len(Content("filelists")), Len(Content("other")))
      /\ \A e \in Moved : Key[e] \in DOMAIN table
      /\ ignoredKeys =
            IF input.dupaction = "keepfirst" THEN {}
            ELSE {Key[e] : e \in {m \in Moved : ~SameEntry(m, table[Key[m]].elem)}}

IInv ==
    /\ TypeOK /\ Tidy /\ ParsingPrimary /\ InternParsed /\ Parts /\ Filling
    /\ LoadedRight

-----------------------------------------------------------------------------
(* Lemmas.                                                                 *)

\* The three files of a repository are sequences.
LEMMA FileTypes ==
    ASSUME TypeOK
    PROVE  /\ Content("primary") \in Seq(Elems)
           /\ Content("filelists") \in Seq(PkgIds)
           /\ Content("other") \in Seq(PkgIds)
<1> DEFINE R == [primary : Seq(Elems), filelists : Seq(PkgIds), other : Seq(PkgIds)]
<1>1. input.repos \in Seq(R) /\ repo \in 1 .. Len(input.repos)
    BY LoadMetadataAssumption DEF TypeOK
<1>2. input.repos[repo] \in R
  <2> HIDE DEF R
  <2> QED BY <1>1
<1> QED BY <1>2 DEF Content

\* What the files hold does not change while a repository is loaded.
LEMMA SameFiles ==
    ASSUME UNCHANGED <<input, repo>>
    PROVE  /\ \A f : Content(f)' = Content(f)
           /\ WantedAt' = WantedAt /\ Parsed' = Parsed
           /\ \A i : Elem(i)' = Elem(i)
BY DEF Content, WantedAt, Parsed, Elem

\* The wanted elements that come into view with one more element.
LEMMA OneMore ==
    ASSUME TypeOK, lpc = "primary", at < Len(Content("primary"))
    PROVE  /\ at + 1 \in DOMAIN Content("primary")
           /\ Element = Elem(at + 1) /\ Element \in Elems
           /\ Basename[Element] \in input.listed =>
                 WantedTo(at + 1) = WantedTo(at) \union {at + 1}
           /\ Basename[Element] \notin input.listed =>
                 WantedTo(at + 1) = WantedTo(at)
<1>1. at \in Nat /\ Content("primary") \in Seq(Elems)
    BY FileTypes DEF TypeOK
<1>2. at + 1 \in DOMAIN Content("primary") /\ Element = Elem(at + 1)
    BY <1>1 DEF Element, Elem
<1>3. Element \in Elems
    BY <1>1, <1>2 DEF Elem
<1>4. \A i \in DOMAIN Content("primary") : i \in Nat
    BY <1>1
<1>5. \A i \in WantedAt : i \in Nat
    BY <1>4 DEF WantedAt
<1>6. at + 1 \in WantedAt <=> Basename[Element] \in input.listed
    BY <1>2 DEF WantedAt, Elem
<1>7. \A i \in Nat : i <= at + 1 <=> i <= at \/ i = at + 1
    BY <1>1
<1>8. WantedTo(at + 1) = {i \in WantedAt : i <= at \/ i = at + 1}
    BY <1>5, <1>7 DEF WantedTo
<1> QED BY <1>2, <1>3, <1>6, <1>8 DEF WantedTo

\* With the whole of primary in view, what stands for a pkgId is Parsed.
LEMMA ParsedWhole ==
    ASSUME TypeOK
    PROVE  /\ WantedTo(Len(Content("primary"))) = WantedAt
           /\ Parsed = {Elem(i) : i \in {j \in WantedAt :
                                     Stands(j, Len(Content("primary")))}}
<1>1. WantedTo(Len(Content("primary"))) = WantedAt
    BY FileTypes DEF WantedTo, WantedAt
<1> QED BY <1>1 DEF Parsed, Stands, Elem

-----------------------------------------------------------------------------
(* Parsing primary.                                                        *)

\* What all the actions of this stage keep in the same way.
LEMMA ParsePackageKeeps ==
    ASSUME IInv, ParsePackage, ParsingPrimary',
           \A id \in DOMAIN intern' :
              \/ id \in DOMAIN intern /\ intern'[id] = intern[id]
              \/ id = Id /\ intern'[id] = NewEntry(Element)
    PROVE  IInv'
<1>1. /\ lpc = "primary" /\ lpc' = "primary" /\ at' = at + 1
      /\ at < Len(Content("primary")) /\ TypeOK
      /\ UNCHANGED <<input, repo, ignoredKeys, table, before>>
    BY DEF ParsePackage, IInv
<1>2. /\ \A f : Content(f)' = Content(f)
      /\ at \in 0 .. Len(Content("primary")) /\ Len(Content("primary")) \in Nat
      /\ Element \in Elems
    BY <1>1, SameFiles, FileTypes, OneMore DEF TypeOK
<1>3. \A id \in DOMAIN intern' :
         intern'[id] \in Entry /\ PkgId[intern'[id].elem] = id /\ id \in PkgIds
    BY <1>1, <1>2 DEF TypeOK, Entry, NewEntry, Id, PkgIds
<1>4. TypeOK'
    BY <1>1, <1>2, <1>3 DEF TypeOK
<1>5. Tidy'
    BY <1>1 DEF IInv, Tidy
<1>6. \A id \in DOMAIN intern' : HasParts(intern[id], 0, 0)'
    BY <1>1, <1>2 DEF IInv, Parts, HasParts, FirstIn, NewEntry
<1>7. Parts'
    BY <1>1, <1>6 DEF Parts
<1>8. InternParsed' /\ Filling' /\ LoadedRight'
    BY <1>1 DEF InternParsed, Filling, LoadedRight, LoadedAsPromised, Paired
<1> QED BY <1>4, <1>5, <1>7, <1>8 DEF IInv

\* The view of the file after one more of its elements.
LEMMA ParsePackageView ==
    ASSUME IInv, ParsePackage
    PROVE  /\ lpc = "primary" /\ lpc' = "primary" /\ at' = at + 1 /\ at \in Nat
           /\ \A i : Elem(i)' = Elem(i)
           /\ WantedTo(at)' = WantedTo(at + 1)
           /\ WantedTo(at) \subseteq 0 .. at
           /\ \A i : Stands(i, at)' <=> Stands(i, at + 1)
           /\ Element = Elem(at + 1)
<1>1. /\ lpc = "primary" /\ lpc' = "primary" /\ at' = at + 1
      /\ at < Len(Content("primary")) /\ TypeOK
      /\ UNCHANGED <<input, repo>>
    BY DEF ParsePackage, IInv
<1>2. /\ \A i : Elem(i)' = Elem(i)
      /\ WantedTo(at)' = WantedTo(at + 1)
    BY <1>1, SameFiles DEF WantedTo
<1>3. at \in Nat /\ Element = Elem(at + 1)
    BY <1>1, OneMore, FileTypes DEF TypeOK
<1>4. WantedTo(at) \subseteq 0 .. at
    BY <1>1, <1>3, FileTypes DEF WantedTo, WantedAt
<1>5. \A i : Stands(i, at)' <=> Stands(i, at + 1)
    BY <1>2, <1>1 DEF Stands, SamePackage
<1> QED BY <1>1, <1>2, <1>3, <1>4, <1>5

\* One more element that is not wanted, or whose pkgId is ignored.
LEMMA DropIgnoredKeeps ==
    ASSUME IInv, DropIgnored
    PROVE  IInv'
<1>1. /\ ParsePackage /\ Ignored /\ UNCHANGED <<intern, ignoredIds>>
      /\ TypeOK /\ ParsingPrimary /\ at < Len(Content("primary"))
    BY DEF DropIgnored, ParsePackage, IInv
<1>2. /\ lpc = "primary" /\ lpc' = "primary" /\ at' = at + 1 /\ at \in Nat
      /\ \A i : Elem(i)' = Elem(i)
      /\ WantedTo(at)' = WantedTo(at + 1)
      /\ \A i : Stands(i, at)' <=> Stands(i, at + 1)
      /\ Element = Elem(at + 1)
    BY <1>1, ParsePackageView
<1>3. CASE Basename[Element] \notin input.listed
  <2>1. WantedTo(at + 1) = WantedTo(at)
    BY <1>1, <1>2, <1>3, OneMore
  <2>2. \A i : Stands(i, at + 1) <=> Stands(i, at)
    BY <2>1 DEF Stands
  <2>3. ParsingPrimary'
    BY <1>1, <1>2, <2>1, <2>2 DEF ParsingPrimary, Differ, NewEntry, SamePackage
  <2> QED BY <1>1, <2>3, ParsePackageKeeps
<1>4. CASE Basename[Element] \in input.listed
  <2>1. WantedTo(at + 1) = WantedTo(at) \union {at + 1}
    BY <1>1, <1>2, <1>4, OneMore
  <2>2. Id \in ignoredIds /\ Id = PkgId[Elem(at + 1)]
    BY <1>1, <1>2, <1>4 DEF Ignored, Id
  <2>3. \A i \in WantedTo(at) : PkgId[Elem(i)] \notin ignoredIds /\ Stands(i, at)
                                   => Stands(i, at + 1)
    BY <2>1, <2>2 DEF Stands
  <2>4. \A id \in DOMAIN intern : \E i \in WantedTo(at) :
           intern[id] = NewEntry(Elem(i)) /\ Stands(i, at)
             /\ PkgId[Elem(i)] = id /\ id \notin ignoredIds
    BY <1>1, <1>2 DEF ParsingPrimary, TypeOK, NewEntry
  <2>5. \A id \in DOMAIN intern : \E i \in WantedTo(at + 1) :
           intern[id] = NewEntry(Elem(i)) /\ Stands(i, at + 1)
    BY <2>1, <2>3, <2>4
  <2>6. ParsingPrimary'
    BY <1>1, <1>2, <2>1, <2>2, <2>4, <2>5
       DEF ParsingPrimary, Differ, NewEntry, SamePackage
  <2> QED BY <1>1, <2>6, ParsePackageKeeps
<1> QED BY <1>3, <1>4

\* One more element that is wanted and whose pkgId is not ignored.
LEMMA WantedView ==
    ASSUME IInv, ParsePackage, ~Ignored
    PROVE  /\ WantedTo(at + 1) = WantedTo(at) \union {at + 1}
           /\ Id \notin ignoredIds /\ Id = PkgId[Elem(at + 1)]
           /\ Element = Elem(at + 1)
           /\ \A id \in DOMAIN intern : \E i \in WantedTo(at) :
                 /\ intern[id] = NewEntry(Elem(i)) /\ Stands(i, at)
                 /\ PkgId[Elem(i)] = id /\ id \notin ignoredIds
<1>1. TypeOK /\ lpc = "primary" /\ at < Len(Content("primary")) /\ ParsingPrimary
    BY DEF IInv, ParsePackage
<1>2. Basename[Element] \in input.listed /\ Id \notin ignoredIds
    BY DEF Ignored
<1>3. /\ WantedTo(at + 1) = WantedTo(at) \union {at + 1}
      /\ Element = Elem(at + 1)
    BY <1>1, <1>2, OneMore
<1>4. \A id \in DOMAIN intern : PkgId[intern[id].elem] = id
    BY <1>1 DEF TypeOK
<1>5. \A id \in DOMAIN intern : \E i \in WantedTo(at) :
         /\ intern[id] = NewEntry(Elem(i)) /\ Stands(i, at)
         /\ PkgId[Elem(i)] = id /\ id \notin ignoredIds
    BY <1>1, <1>4 DEF ParsingPrimary, NewEntry
<1> QED BY <1>2, <1>3, <1>5 DEF Id

\* The first wanted element with its pkgId.
LEMMA StorePackageKeeps ==
    ASSUME IInv, StorePackage
    PROVE  IInv'
<1>1. /\ ParsePackage /\ ~Ignored /\ Id \notin DOMAIN intern
      /\ intern' = Put(intern, Id, NewEntry(Element))
      /\ ignoredIds' = ignoredIds /\ ParsingPrimary
    BY DEF StorePackage, IInv
<1>2. /\ lpc = "primary" /\ lpc' = "primary" /\ at' = at + 1 /\ at \in Nat
      /\ \A i : Elem(i)' = Elem(i)
      /\ WantedTo(at)' = WantedTo(at + 1)
      /\ WantedTo(at) \subseteq 0 .. at
      /\ \A i : Stands(i, at)' <=> Stands(i, at + 1)
    BY <1>1, ParsePackageView
<1>3. /\ WantedTo(at + 1) = WantedTo(at) \union {at + 1}
      /\ Id \notin ignoredIds /\ Id = PkgId[Elem(at + 1)]
      /\ Element = Elem(at + 1)
      /\ \A id \in DOMAIN intern : \E i \in WantedTo(at) :
            /\ intern[id] = NewEntry(Elem(i)) /\ Stands(i, at)
            /\ PkgId[Elem(i)] = id /\ id \notin ignoredIds
    BY <1>1, WantedView
<1>4. /\ DOMAIN intern' = DOMAIN intern \union {Id}
      /\ intern'[Id] = NewEntry(Element)
      /\ \A id \in DOMAIN intern : intern'[id] = intern[id]
    BY <1>1 DEF Put
<1>5. \A i \in WantedTo(at) : PkgId[Elem(i)] # Id
    BY <1>1, <1>2, <1>3 DEF ParsingPrimary
<1>6. Stands(at + 1, at + 1)
    BY <1>2, <1>3, <1>5 DEF Stands, SamePackage
<1>7. \A i \in WantedTo(at) : Stands(i, at) => Stands(i, at + 1)
    BY <1>3, <1>5 DEF Stands
<1>8. \A id \in DOMAIN intern' : \E i \in WantedTo(at + 1) :
         intern'[id] = NewEntry(Elem(i)) /\ Stands(i, at + 1) /\ id \notin ignoredIds
    BY <1>3, <1>4, <1>6, <1>7
<1>9. ParsingPrimary'
    BY <1>1, <1>2, <1>3, <1>4, <1>8 DEF ParsingPrimary, Differ, NewEntry, SamePackage
<1> QED BY <1>1, <1>4, <1>9, ParsePackageKeeps

\* A repetition of the element that stands for its pkgId.
LEMMA DropRepeatedKeeps ==
    ASSUME IInv, DropRepeated
    PROVE  IInv'
<1>1. /\ ParsePackage /\ ~Ignored /\ Id \in DOMAIN intern
      /\ SamePackage(intern[Id].elem, Element)
      /\ UNCHANGED <<intern, ignoredIds>> /\ ParsingPrimary
    BY DEF DropRepeated, IInv
<1>2. /\ lpc = "primary" /\ lpc' = "primary" /\ at' = at + 1 /\ at \in Nat
      /\ \A i : Elem(i)' = Elem(i)
      /\ WantedTo(at)' = WantedTo(at + 1)
      /\ WantedTo(at) \subseteq 0 .. at
      /\ \A i : Stands(i, at)' <=> Stands(i, at + 1)
    BY <1>1, ParsePackageView
<1>3. /\ WantedTo(at + 1) = WantedTo(at) \union {at + 1}
      /\ Id \notin ignoredIds /\ Id = PkgId[Elem(at + 1)]
      /\ Element = Elem(at + 1)
      /\ \A id \in DOMAIN intern : \E i \in WantedTo(at) :
            /\ intern[id] = NewEntry(Elem(i)) /\ Stands(i, at)
            /\ PkgId[Elem(i)] = id /\ id \notin ignoredIds
    BY <1>1, WantedView
<1>4. \A id \in DOMAIN intern : \E i \in WantedTo(at + 1) :
         intern[id] = NewEntry(Elem(i)) /\ Stands(i, at + 1)
  <2> SUFFICES ASSUME NEW id \in DOMAIN intern
               PROVE  \E i \in WantedTo(at + 1) :
                         intern[id] = NewEntry(Elem(i)) /\ Stands(i, at + 1)
      OBVIOUS
  <2>1. PICK i \in WantedTo(at) : /\ intern[id] = NewEntry(Elem(i)) /\ Stands(i, at)
                                  /\ PkgId[Elem(i)] = id
      BY <1>3
  <2>2. id = Id => SamePackage(Elem(i), Elem(at + 1))
      BY <1>1, <1>3, <2>1 DEF NewEntry
  <2>3. i <= at + 1
      BY <1>2, <2>1
  <2>4. Stands(i, at + 1)
      BY <1>3, <2>1, <2>2, <2>3 DEF Stands
  <2> QED BY <1>3, <2>1, <2>4
<1>5. ParsingPrimary'
    BY <1>1, <1>2, <1>3, <1>4 DEF ParsingPrimary, Differ, NewEntry, SamePackage
<1> QED BY <1>1, <1>5, ParsePackageKeeps

\* Another package with the pkgId of one that is stored.
LEMMA DropConflictKeeps ==
    ASSUME IInv, DropConflict
    PROVE  IInv'
<1>1. /\ ParsePackage /\ ~Ignored /\ Id \in DOMAIN intern
      /\ ~SamePackage(intern[Id].elem, Element)
      /\ intern' = Restrict(intern, DOMAIN intern \ {Id})
      /\ ignoredIds' = ignoredIds \union {Id} /\ ParsingPrimary
    BY DEF DropConflict, IInv
<1>2. /\ lpc = "primary" /\ lpc' = "primary" /\ at' = at + 1 /\ at \in Nat
      /\ \A i : Elem(i)' = Elem(i)
      /\ WantedTo(at)' = WantedTo(at + 1)
      /\ WantedTo(at) \subseteq 0 .. at
      /\ \A i : Stands(i, at)' <=> Stands(i, at + 1)
    BY <1>1, ParsePackageView
<1>3. /\ WantedTo(at + 1) = WantedTo(at) \union {at + 1}
      /\ Id \notin ignoredIds /\ Id = PkgId[Elem(at + 1)]
      /\ Element = Elem(at + 1)
      /\ \A id \in DOMAIN intern : \E i \in WantedTo(at) :
            /\ intern[id] = NewEntry(Elem(i)) /\ Stands(i, at)
            /\ PkgId[Elem(i)] = id /\ id \notin ignoredIds
    BY <1>1, WantedView
<1>4. /\ DOMAIN intern' = DOMAIN intern \ {Id}
      /\ \A id \in DOMAIN intern' : intern'[id] = intern[id]
    BY <1>1 DEF Restrict
<1>5. \E i, j \in WantedTo(at + 1) : PkgId[Elem(i)] = Id /\ Differ(i, j)
  <2>1. PICK i \in WantedTo(at) : intern[Id] = NewEntry(Elem(i)) /\ PkgId[Elem(i)] = Id
      BY <1>1, <1>3
  <2> QED BY <1>1, <1>3, <2>1 DEF NewEntry, Differ
<1>6. \A id \in DOMAIN intern' : \E i \in WantedTo(at + 1) :
         intern'[id] = NewEntry(Elem(i)) /\ Stands(i, at + 1) /\ id \notin ignoredIds'
    BY <1>1, <1>3, <1>4 DEF Stands
<1>7. \A i \in WantedTo(at + 1) : PkgId[Elem(i)] \in DOMAIN intern' \union ignoredIds'
    BY <1>1, <1>2, <1>3, <1>4 DEF ParsingPrimary
<1>8. \A id \in ignoredIds' :
         \E i, j \in WantedTo(at + 1) : PkgId[Elem(i)] = id /\ Differ(i, j)
    BY <1>1, <1>2, <1>3, <1>5 DEF ParsingPrimary
<1>9. \A i, j : Differ(i, j)' <=> Differ(i, j)
    BY <1>2 DEF Differ, SamePackage
<1>10. \A id \in DOMAIN intern' :
          /\ id \notin ignoredIds'
          /\ \E i \in WantedTo(at + 1) :
                intern'[id] = NewEntry(Elem(i)) /\ Stands(i, at + 1)
    BY <1>6
<1>11. ParsingPrimary'
    BY <1>2, <1>7, <1>8, <1>9, <1>10 DEF ParsingPrimary, NewEntry
<1> QED BY <1>1, <1>4, <1>11, ParsePackageKeeps

-----------------------------------------------------------------------------
(* Parsing filelists and other.                                            *)

\* The first position of an id after one more element.
LEMMA FirstOfOneMore ==
    ASSUME NEW id, NEW v, NEW f, NEW n \in Nat, FirstIn(id, v, f, n)
    PROVE  /\ Content(f)[n + 1] # id \/ v # 0 => FirstIn(id, v, f, n + 1)
           /\ Content(f)[n + 1] = id /\ v = 0 => FirstIn(id, n + 1, f, n + 1)
<1>1. \A i \in 1 .. n + 1 : i \in 1 .. n \/ i = n + 1
    OBVIOUS
<1> QED BY <1>1 DEF FirstIn

\* What both actions of this stage keep in the same way.
LEMMA ParsePartKeeps ==
    ASSUME IInv, ParsePart, DOMAIN intern' = DOMAIN intern,
           \A id \in DOMAIN intern :
              /\ intern'[id] \in Entry
              /\ intern'[id].elem = intern[id].elem
              /\ lpc = "filelists" => HasParts(intern'[id], at + 1, 0)
              /\ lpc = "other" =>
                    HasParts(intern'[id], Len(Content("filelists")), at + 1)
    PROVE  IInv'
<1>1. /\ lpc \in {"filelists", "other"} /\ lpc' = lpc /\ at' = at + 1
      /\ at < Len(Content(lpc)) /\ TypeOK
      /\ UNCHANGED <<input, repo, ignoredIds, ignoredKeys, table, before>>
    BY DEF ParsePart, IInv
<1>2. /\ \A f : Content(f)' = Content(f)
      /\ Parsed' = Parsed
    BY <1>1, SameFiles
<1>3. at \in Nat /\ Len(Content(lpc)) \in Nat
    BY <1>1, FileTypes DEF TypeOK
<1>4. TypeOK'
    BY <1>1, <1>2, <1>3 DEF TypeOK
<1>5. Tidy'
    BY <1>1 DEF IInv, Tidy
<1>6. InternParsed'
    BY <1>1, <1>2 DEF IInv, InternParsed
<1>7. Parts'
    BY <1>1, <1>2 DEF Parts, HasParts, FirstIn
<1>8. ParsingPrimary' /\ Filling' /\ LoadedRight'
    BY <1>1 DEF ParsingPrimary, Filling, LoadedRight, LoadedAsPromised, Paired
<1> QED BY <1>4, <1>5, <1>6, <1>7, <1>8 DEF IInv

\* What is known of an entry while these files are parsed.
LEMMA PartView ==
    ASSUME IInv, ParsePart, NEW id \in DOMAIN intern
    PROVE  /\ at \in Nat /\ intern[id] \in Entry /\ PkgId[intern[id].elem] = id
           /\ lpc \in {"filelists", "other"}
           /\ lpc = "filelists" =>
                 /\ FirstIn(id, intern[id].filelists, "filelists", at)
                 /\ FirstIn(id, intern[id].other, "other", 0)
           /\ lpc = "other" =>
                 /\ FirstIn(id, intern[id].filelists, "filelists",
                            Len(Content("filelists")))
                 /\ FirstIn(id, intern[id].other, "other", at)
<1>1. lpc \in {"filelists", "other"} /\ TypeOK /\ Parts
    BY DEF ParsePart, IInv
<1>2. at \in Nat /\ intern[id] \in Entry /\ PkgId[intern[id].elem] = id
    BY <1>1, FileTypes DEF TypeOK
<1> QED BY <1>1, <1>2 DEF Parts, HasParts

\* The first part with the pkgId of a package.
LEMMA LoadPartKeeps ==
    ASSUME IInv, LoadPart
    PROVE  IInv'
<1>1. /\ ParsePart /\ PartId \in DOMAIN intern /\ NotLoaded(intern[PartId])
      /\ intern' = [intern EXCEPT ![PartId][lpc] = at + 1]
    BY DEF LoadPart
<1>2. lpc \in {"filelists", "other"} /\ at \in Nat /\ intern[PartId] \in Entry
    BY <1>1, PartView
<1>3. /\ DOMAIN intern' = DOMAIN intern
      /\ \A id \in DOMAIN intern : id # PartId => intern'[id] = intern[id]
    BY <1>1
<1>4. CASE lpc = "filelists"
  <2>1. /\ intern[PartId].filelists = 0
        /\ intern'[PartId] = [intern[PartId] EXCEPT !.filelists = at + 1]
      BY <1>1, <1>4 DEF NotLoaded
  <2>2. PartId = Content("filelists")[at + 1]
      BY <1>4 DEF PartId
  <2>3. ASSUME NEW id \in DOMAIN intern
        PROVE  /\ intern'[id] \in Entry /\ intern'[id].elem = intern[id].elem
               /\ HasParts(intern'[id], at + 1, 0)
    <3>1. /\ intern[id] \in Entry /\ PkgId[intern[id].elem] = id
          /\ FirstIn(id, intern[id].filelists, "filelists", at)
          /\ FirstIn(id, intern[id].other, "other", 0)
        BY <1>1, <1>4, PartView
    <3>2. CASE id = PartId
      <4>1. /\ intern'[id] \in Entry /\ intern'[id].elem = intern[id].elem
            /\ intern'[id].filelists = at + 1
            /\ intern'[id].other = intern[id].other
          BY <1>2, <2>1, <3>2 DEF Entry
      <4>2. FirstIn(id, at + 1, "filelists", at + 1)
          BY <1>2, <2>1, <2>2, <3>1, <3>2, FirstOfOneMore
      <4> QED BY <3>1, <4>1, <4>2 DEF HasParts
    <3>3. CASE id # PartId
      <4>1. FirstIn(id, intern[id].filelists, "filelists", at + 1)
          BY <1>2, <2>2, <3>1, <3>3, FirstOfOneMore
      <4> QED BY <1>3, <3>1, <3>3, <4>1 DEF HasParts
    <3> QED BY <3>2, <3>3
  <2> QED BY <1>1, <1>3, <1>4, <2>3, ParsePartKeeps
<1>5. CASE lpc = "other"
  <2>1. /\ intern[PartId].other = 0
        /\ intern'[PartId] = [intern[PartId] EXCEPT !.other = at + 1]
      BY <1>1, <1>5 DEF NotLoaded
  <2>2. PartId = Content("other")[at + 1]
      BY <1>5 DEF PartId
  <2>3. ASSUME NEW id \in DOMAIN intern
        PROVE  /\ intern'[id] \in Entry /\ intern'[id].elem = intern[id].elem
               /\ HasParts(intern'[id], Len(Content("filelists")), at + 1)
    <3>1. /\ intern[id] \in Entry /\ PkgId[intern[id].elem] = id
          /\ FirstIn(id, intern[id].filelists, "filelists",
                     Len(Content("filelists")))
          /\ FirstIn(id, intern[id].other, "other", at)
        BY <1>1, <1>5, PartView
    <3>2. CASE id = PartId
      <4>1. /\ intern'[id] \in Entry /\ intern'[id].elem = intern[id].elem
            /\ intern'[id].other = at + 1
            /\ intern'[id].filelists = intern[id].filelists
          BY <1>2, <2>1, <3>2 DEF Entry
      <4>2. FirstIn(id, at + 1, "other", at + 1)
          BY <1>2, <2>1, <2>2, <3>1, <3>2, FirstOfOneMore
      <4> QED BY <3>1, <4>1, <4>2 DEF HasParts
    <3>3. CASE id # PartId
      <4>1. FirstIn(id, intern[id].other, "other", at + 1)
          BY <1>2, <2>2, <3>1, <3>3, FirstOfOneMore
      <4> QED BY <1>3, <3>1, <3>3, <4>1 DEF HasParts
    <3> QED BY <3>2, <3>3
  <2> QED BY <1>1, <1>3, <1>5, <2>3, ParsePartKeeps
<1> QED BY <1>2, <1>4, <1>5

\* A part of no package, or of one that has its part.
LEMMA SkipPartKeeps ==
    ASSUME IInv, SkipPart
    PROVE  IInv'
<1>1. /\ ParsePart /\ UNCHANGED intern
      /\ PartId \in DOMAIN intern => ~NotLoaded(intern[PartId])
    BY DEF SkipPart
<1>2. ASSUME NEW id \in DOMAIN intern
      PROVE  /\ intern[id] \in Entry
             /\ lpc = "filelists" => HasParts(intern[id], at + 1, 0)
             /\ lpc = "other" =>
                   HasParts(intern[id], Len(Content("filelists")), at + 1)
  <2>1. /\ at \in Nat /\ intern[id] \in Entry /\ PkgId[intern[id].elem] = id
        /\ lpc = "filelists" =>
              /\ FirstIn(id, intern[id].filelists, "filelists", at)
              /\ FirstIn(id, intern[id].other, "other", 0)
        /\ lpc = "other" =>
              /\ FirstIn(id, intern[id].filelists, "filelists",
                         Len(Content("filelists")))
              /\ FirstIn(id, intern[id].other, "other", at)
      BY <1>1, PartView
  <2>2. lpc = "filelists" =>
           FirstIn(id, intern[id].filelists, "filelists", at + 1)
      BY <1>1, <2>1, FirstOfOneMore DEF NotLoaded, PartId
  <2>3. lpc = "other" => FirstIn(id, intern[id].other, "other", at + 1)
      BY <1>1, <2>1, FirstOfOneMore DEF NotLoaded, PartId
  <2> QED BY <2>1, <2>2, <2>3 DEF HasParts
<1> QED BY <1>1, <1>2, ParsePartKeeps

-----------------------------------------------------------------------------
(* From one file to the next.                                              *)

\* One element at most stands for a pkgId.
LEMMA ParsedUnique ==
    ASSUME TypeOK, NEW e \in Parsed, NEW f \in Parsed, PkgId[e] = PkgId[f]
    PROVE  e = f
<1> DEFINE n == Len(Content("primary"))
<1>1. PICK i \in WantedAt : e = Elem(i) /\ Stands(i, n)
    BY ParsedWhole
<1>2. PICK j \in WantedAt : f = Elem(j) /\ Stands(j, n)
    BY ParsedWhole
<1>3. i <= j /\ j <= i
    BY <1>1, <1>2 DEF Stands
<1>4. i \in Nat /\ j \in Nat
    BY FileTypes DEF WantedAt
<1> QED BY <1>1, <1>2, <1>3, <1>4

LEMMA ParsedElems ==
    ASSUME TypeOK
    PROVE  Parsed \subseteq Elems
BY FileTypes DEF Parsed, WantedAt

LEMMA EndOfFileKeeps ==
    ASSUME IInv, EndOfFile
    PROVE  IInv'
<1>1. /\ lpc \in {"primary", "filelists", "other"} /\ at = Len(Content(lpc))
      /\ lpc = "primary" => lpc' = "filelists"
      /\ lpc = "filelists" => lpc' = "other"
      /\ lpc = "other" => lpc' = "fill"
      /\ at' = 0 /\ ignoredIds' = {}
      /\ UNCHANGED <<input, repo, intern, ignoredKeys, table, before>>
      /\ TypeOK /\ Tidy
    BY DEF EndOfFile, IInv
<1>2. /\ \A f : Content(f)' = Content(f)
      /\ Parsed' = Parsed
    BY <1>1, SameFiles
<1>3. /\ Len(Content("primary")) \in Nat /\ Len(Content("filelists")) \in Nat
      /\ Len(Content("other")) \in Nat
    BY <1>1, FileTypes
<1>4. lpc' \in {"filelists", "other", "fill"}
    BY <1>1
<1>5. TypeOK'
    BY <1>1, <1>2, <1>3, <1>4 DEF TypeOK
<1>6. Tidy'
    BY <1>1, <1>4 DEF Tidy
<1>7. ASSUME lpc = "primary"
      PROVE  /\ \A id \in DOMAIN intern : intern[id].elem \in Parsed
             /\ \A e \in Parsed : PkgId[e] \in DOMAIN intern
  <2>1. /\ ParsingPrimary /\ WantedTo(at) = WantedAt
        /\ Parsed = {Elem(i) : i \in {j \in WantedAt : Stands(j, at)}}
      BY <1>1, <1>7, ParsedWhole DEF IInv
  <2>2. \A id \in DOMAIN intern : intern[id].elem \in Parsed
      BY <1>7, <2>1 DEF ParsingPrimary, NewEntry
  <2>3. ASSUME NEW e \in Parsed
        PROVE  PkgId[e] \in DOMAIN intern
    <3>1. PICK j \in WantedAt : e = Elem(j) /\ Stands(j, at)
        BY <2>1
    <3>2. PkgId[e] \in DOMAIN intern \union ignoredIds
        BY <1>7, <2>1, <3>1 DEF ParsingPrimary
    <3>3. ASSUME NEW i \in WantedAt, NEW l \in WantedAt,
                 PkgId[Elem(i)] = PkgId[e], Differ(i, l)
          PROVE  FALSE
        BY <2>1, <3>1, <3>3 DEF Stands, Differ, SamePackage
    <3>4. PkgId[e] \notin ignoredIds
        BY <1>7, <2>1, <3>3 DEF ParsingPrimary
    <3> QED BY <3>2, <3>4
  <2> QED BY <2>2, <2>3
<1>8. /\ \A id \in DOMAIN intern : intern[id].elem \in Parsed
      /\ \A e \in Parsed : PkgId[e] \in DOMAIN intern
    BY <1>1, <1>7 DEF IInv, InternParsed
<1>9. InternParsed'
    BY <1>1, <1>2, <1>8 DEF InternParsed
<1>10. ParsingPrimary' /\ LoadedRight'
    BY <1>4 DEF ParsingPrimary, LoadedRight, LoadedAsPromised, Paired
<1>11. Parts'
    BY <1>1, <1>2 DEF IInv, Parts, HasParts, FirstIn
<1>12. Filling'
  <2>1. Moved' = {}
      BY <1>1, <1>2, <1>8 DEF Moved
  <2>2. table' = before' /\ ignoredKeys' = {}
      BY <1>1 DEF Tidy
  <2> QED BY <2>1, <2>2 DEF Filling
<1> QED BY <1>5, <1>6, <1>9, <1>10, <1>11, <1>12 DEF IInv

\* A load that failed has changed nothing.
LEMMA LoadFailsKeeps ==
    ASSUME IInv, LoadFails
    PROVE  IInv'
<1>1. /\ lpc' = "loaded" /\ intern' = NoTable /\ ignoredIds' = {} /\ ignoredKeys' = {}
      /\ table' = before' /\ table' = table
      /\ UNCHANGED <<input, repo>> /\ TypeOK
    BY DEF LoadFails, Over, IInv, Tidy
<1>2. DOMAIN NoTable = {}
    BY DEF NoTable
<1>3. TypeOK' /\ Tidy' /\ Parts'
    BY <1>1, <1>2 DEF TypeOK, Tidy, Parts
<1>4. ParsingPrimary' /\ InternParsed' /\ Filling'
    BY <1>1 DEF ParsingPrimary, InternParsed, Filling
<1>5. LoadedRight'
    BY <1>1 DEF LoadedRight, LoadedAsPromised, Paired
<1> QED BY <1>3, <1>4, <1>5 DEF IInv

LEMMA LoadNextKeeps ==
    ASSUME IInv, LoadNext
    PROVE  IInv'
<1>1. /\ repo < Len(input.repos) /\ repo' = repo + 1
      /\ lpc' = "primary" /\ at' = 0 /\ before' = table
      /\ UNCHANGED <<input, intern, ignoredIds, ignoredKeys, table>>
      /\ intern = NoTable /\ ignoredIds = {} /\ ignoredKeys = {} /\ TypeOK
    BY DEF LoadNext, IInv, Tidy
<1>2. DOMAIN NoTable = {}
    BY DEF NoTable
<1>3. repo' \in 1 .. Len(input'.repos)
    BY <1>1, LoadMetadataAssumption DEF TypeOK
<1>4. Content("primary")' \in Seq(Elems)
  <2> DEFINE R == [primary : Seq(Elems), filelists : Seq(PkgIds), other : Seq(PkgIds)]
  <2>1. input'.repos \in Seq(R)
      BY <1>1, LoadMetadataAssumption DEF TypeOK
  <2>2. input'.repos[repo'] \in R
    <3> HIDE DEF R
    <3> QED BY <1>3, <2>1
  <2> QED BY <2>2 DEF Content
<1>5. TypeOK'
    BY <1>1, <1>2, <1>3, <1>4 DEF TypeOK
<1>6. Tidy' /\ Parts' /\ InternParsed' /\ Filling'
    BY <1>1, <1>2 DEF Tidy, Parts, InternParsed, Filling
<1>7. WantedTo(at)' = {}
    BY <1>1, <1>4 DEF WantedTo, WantedAt
<1>8. ParsingPrimary' /\ LoadedRight'
    BY <1>1, <1>2, <1>7
       DEF ParsingPrimary, LoadedRight, LoadedAsPromised, Paired
<1> QED BY <1>5, <1>6, <1>8 DEF IInv

-----------------------------------------------------------------------------
(* Filling the caller's table.                                             *)

\* An entry leaves the intern table.
LEMMA OneMoved ==
    ASSUME IInv, NEW id, Fill(id)
    PROVE  /\ Moved' = Moved \union {intern[id].elem}
           /\ intern[id].elem \in Parsed /\ intern[id].elem \notin Moved
           /\ DOMAIN intern' = DOMAIN intern \ {id}
           /\ \A i \in DOMAIN intern' : intern'[i] = intern[i]
           /\ intern[id] \in Entry
           /\ HasParts(intern[id], Len(Content("filelists")), Len(Content("other")))
<1>1. /\ lpc = "fill" /\ id \in DOMAIN intern
      /\ intern' = Restrict(intern, DOMAIN intern \ {id})
      /\ UNCHANGED <<input, repo>> /\ TypeOK /\ InternParsed /\ Parts
    BY DEF Fill, IInv
<1>2. /\ DOMAIN intern' = DOMAIN intern \ {id}
      /\ \A i \in DOMAIN intern' : intern'[i] = intern[i]
    BY <1>1 DEF Restrict
<1>3. intern[id].elem \in Parsed /\ PkgId[intern[id].elem] = id /\ intern[id] \in Entry
    BY <1>1 DEF InternParsed, TypeOK
<1>4. \A e \in Parsed : PkgId[e] = id => e = intern[id].elem
    BY <1>1, <1>3, ParsedUnique
<1>5. Parsed' = Parsed
    BY <1>1, SameFiles
<1>6. Moved' = Moved \union {intern[id].elem}
    BY <1>1, <1>2, <1>3, <1>4, <1>5 DEF Moved
<1> QED BY <1>1, <1>2, <1>3, <1>6 DEF Moved, Parts

\* What the three actions of this stage keep in the same way.
LEMMA FillKeeps ==
    ASSUME IInv, NEW id, Fill(id), DOMAIN table' \subseteq Keys, Filling'
    PROVE  IInv'
<1>1. /\ lpc = "fill" /\ lpc' = "fill"
      /\ UNCHANGED <<input, repo, at, ignoredIds, before>>
      /\ TypeOK /\ Tidy /\ InternParsed /\ Parts
    BY DEF Fill, IInv
<1>2. /\ \A f : Content(f)' = Content(f)
      /\ Parsed' = Parsed
    BY <1>1, SameFiles
<1>3. /\ DOMAIN intern' = DOMAIN intern \ {id}
      /\ \A i \in DOMAIN intern' : intern'[i] = intern[i]
    BY OneMoved
<1>4. TypeOK'
    BY <1>1, <1>3 DEF TypeOK
<1>5. Tidy' /\ ParsingPrimary' /\ LoadedRight'
    BY <1>1 DEF Tidy, ParsingPrimary, LoadedRight, LoadedAsPromised, Paired
<1>6. InternParsed'
    BY <1>1, <1>2, <1>3 DEF InternParsed
<1>7. Parts'
    BY <1>1, <1>2, <1>3 DEF Parts, HasParts, FirstIn
<1> QED BY <1>4, <1>5, <1>6, <1>7 DEF IInv

\* The keys to be removed, among those of the packages in m.
Clashing(m, t) == {Key[e] : e \in {f \in m : ~SameEntry(f, t[Key[f]].elem)}}

\* The parts of an entry do not depend on the tables.
LEMMA SameParts ==
    ASSUME UNCHANGED <<input, repo>>
    PROVE  \A k : table'[k] = table[k] =>
             (HasParts(table[k], Len(Content("filelists")), Len(Content("other")))' <=>
              HasParts(table[k], Len(Content("filelists")), Len(Content("other"))))
BY SameFiles DEF HasParts, FirstIn

LEMMA MovePackageKeeps ==
    ASSUME IInv, NEW id, MovePackage(id)
    PROVE  IInv'
<1> PICK e, k : e = intern[id].elem /\ k = Key[e]
    OBVIOUS
<1>1. /\ Fill(id) /\ k \notin DOMAIN table /\ table' = Put(table, k, intern[id])
      /\ ignoredKeys' = ignoredKeys /\ lpc = "fill" /\ Filling /\ TypeOK
      /\ UNCHANGED <<input, repo, before>>
    BY DEF MovePackage, KeyOf, Fill, IInv
<1>2. /\ Moved' = Moved \union {e} /\ e \notin Moved /\ intern[id] \in Entry
      /\ HasParts(intern[id], Len(Content("filelists")), Len(Content("other")))
    BY <1>1, OneMoved
<1>3. /\ DOMAIN table' = DOMAIN table \union {k} /\ table'[k] = intern[id]
      /\ \A l \in DOMAIN table : table'[l] = table[l]
    BY <1>1 DEF Put
<1>4. DOMAIN table' \subseteq Keys
    BY <1>1, <1>2, <1>3 DEF TypeOK, Keys, Entry
<1>5. HasParts(table[k], Len(Content("filelists")), Len(Content("other")))'
    BY <1>1, <1>2, <1>3, SameFiles DEF HasParts, FirstIn
<1>6. \A l \in DOMAIN table \ DOMAIN before :
         HasParts(table[l], Len(Content("filelists")), Len(Content("other")))'
    BY <1>1, <1>3, SameParts DEF Filling
<1>7. Clashing(Moved', table') = Clashing(Moved, table)
  <2>1. SameEntry(e, table'[Key[e]].elem)
      BY <1>3 DEF SameEntry
  <2>2. \A m \in Moved : Key[m] \in DOMAIN table
      BY <1>1 DEF Filling
  <2>3. \A m \in Moved : table'[Key[m]] = table[Key[m]]
      BY <1>3, <2>2
  <2>4. {f \in Moved' : ~SameEntry(f, table'[Key[f]].elem)}
           = {f \in Moved : ~SameEntry(f, table[Key[f]].elem)}
    <3> HIDE DEF Moved
    <3> QED BY <1>2, <2>1, <2>3
  <2> QED BY <2>4 DEF Clashing
<1>8. Filling'
    BY ZenonT(30), <1>1, <1>2, <1>3, <1>5, <1>6, <1>7 DEF Filling, Clashing, SameEntry
<1> QED BY <1>1, <1>4, <1>8, FillKeeps

LEMMA DropKnownKeeps ==
    ASSUME IInv, NEW id, DropKnown(id)
    PROVE  IInv'
<1> DEFINE e == intern[id].elem
           k == Key[e]
<1>1. /\ Fill(id) /\ k \in DOMAIN table
      /\ input.dupaction = "keepfirst" \/ SameEntry(e, table[k].elem)
      /\ UNCHANGED <<table, ignoredKeys, input, repo, before>>
      /\ lpc = "fill" /\ Filling /\ TypeOK
    BY DEF DropKnown, KeyOf, Fill, IInv
<1>2. Moved' = Moved \union {e} /\ e \notin Moved
    BY <1>1, OneMoved
<1>3. \A l \in DOMAIN table \ DOMAIN before :
         HasParts(table[l], Len(Content("filelists")), Len(Content("other")))'
    BY <1>1, SameParts DEF Filling
<1>4. input.dupaction = "keepfirst" \/ Clashing(Moved', table') = Clashing(Moved, table)
    BY <1>1, <1>2 DEF Clashing, SameEntry
<1>5. Filling'
    BY <1>1, <1>2, <1>3, <1>4 DEF Filling, Clashing, SameEntry
<1> QED BY <1>1, <1>5, FillKeeps DEF TypeOK

LEMMA DropClashKeeps ==
    ASSUME IInv, NEW id, DropClash(id)
    PROVE  IInv'
<1> DEFINE e == intern[id].elem
           k == Key[e]
<1>1. /\ Fill(id) /\ k \in DOMAIN table
      /\ input.dupaction = "removeall" /\ ~SameEntry(e, table[k].elem)
      /\ ignoredKeys' = ignoredKeys \union {k}
      /\ UNCHANGED <<table, input, repo, before>>
      /\ lpc = "fill" /\ Filling /\ TypeOK
    BY DEF DropClash, KeyOf, Fill, IInv
<1>2. Moved' = Moved \union {e} /\ e \notin Moved
    BY <1>1, OneMoved
<1>3. \A l \in DOMAIN table \ DOMAIN before :
         HasParts(table[l], Len(Content("filelists")), Len(Content("other")))'
    BY <1>1, SameParts DEF Filling
<1>4. Clashing(Moved', table') = Clashing(Moved, table) \union {k}
    BY <1>1, <1>2 DEF Clashing, SameEntry
<1>5. Filling'
    BY <1>1, <1>2, <1>3, <1>4 DEF Filling, Clashing, SameEntry
<1> QED BY <1>1, <1>5, FillKeeps DEF TypeOK

\* All packages have been through: the table is what was promised.
LEMMA RemoveIgnoredKeeps ==
    ASSUME IInv, RemoveIgnored
    PROVE  IInv'
<1>1. /\ lpc = "fill" /\ intern = NoTable
      /\ intern' = NoTable /\ ignoredIds' = {} /\ ignoredKeys' = {}
      /\ table' = Restrict(table, DOMAIN table \ ignoredKeys)
      /\ lpc' = "loaded" /\ UNCHANGED <<input, repo, before>>
      /\ TypeOK /\ Filling
    BY DEF RemoveIgnored, Over, IInv
<1>2. DOMAIN NoTable = {}
    BY DEF NoTable
<1>3. /\ DOMAIN table' = DOMAIN table \ ignoredKeys
      /\ \A k \in DOMAIN table' : table'[k] = table[k]
    BY <1>1 DEF Restrict
<1>4. TypeOK' /\ Tidy' /\ Parts'
    BY <1>1, <1>2, <1>3 DEF TypeOK, Tidy, Parts
<1>5. ParsingPrimary' /\ InternParsed' /\ Filling'
    BY <1>1 DEF ParsingPrimary, InternParsed, Filling
<1>6. Moved = Parsed
    BY <1>1, <1>2 DEF Moved
<1>7. /\ \A f : Content(f)' = Content(f)
      /\ Parsed' = Parsed
    BY <1>1, SameFiles
<1>8. \A k : WithKey(k)' = WithKey(k)
    BY <1>1, <1>7 DEF WithKey
<1>9. \A k : NoClash(k)' <=> NoClash(k)
    BY <1>8 DEF NoClash, SameEntry
<1>10. \A k \in DOMAIN table : table[k].elem \in WithKey(k)
    BY <1>1, <1>6 DEF Filling, WithKey
<1>11. \A k : WithKey(k) # {} => k \in DOMAIN table
    BY <1>1, <1>6 DEF Filling, WithKey
<1>12. \A k \in DOMAIN table :
          \A e \in WithKey(k) : e = table[k].elem \/ (e \in Parsed /\ Key[e] = k)
    BY <1>1 DEF Filling, WithKey
<1>13. input.dupaction = "removeall" =>
          \A k \in DOMAIN table : k \notin ignoredKeys <=> NoClash(k)
  <2> SUFFICES ASSUME input.dupaction = "removeall", NEW k \in DOMAIN table
               PROVE  k \notin ignoredKeys <=> NoClash(k)
      OBVIOUS
  <2>1. k \in ignoredKeys <=>
           \E e \in Parsed : Key[e] = k /\ ~SameEntry(e, table[k].elem)
      BY <1>1, <1>6 DEF Filling
  <2>2. ASSUME k \notin ignoredKeys
        PROVE  NoClash(k)
    <3>1. \A e \in WithKey(k) : SameEntry(e, table[k].elem)
        BY <1>12, <2>1, <2>2 DEF SameEntry
    <3> QED BY <3>1 DEF NoClash, SameEntry
  <2>3. ASSUME NoClash(k)
        PROVE  k \notin ignoredKeys
    <3>1. \A e \in Parsed : Key[e] = k => e \in WithKey(k)
        BY DEF WithKey
    <3> QED BY <1>10, <2>1, <2>3, <3>1 DEF NoClash
  <2> QED BY <2>2, <2>3
<1>14. input.dupaction # "removeall" => ignoredKeys = {}
    BY <1>1, LoadMetadataAssumption DEF Filling, TypeOK
<1>15. DOMAIN table' = {k \in Keys : WithKey(k) # {}
                           /\ (input.dupaction = "removeall" => NoClash(k))}
    BY <1>1, <1>3, <1>10, <1>11, <1>13, <1>14 DEF TypeOK
<1>16. \A k \in DOMAIN table' :
          IF k \in DOMAIN before THEN table'[k] = before[k]
                                 ELSE table'[k].elem \in WithKey(k)
    BY <1>1, <1>3, <1>10 DEF Filling
<1>17. LoadedAsPromised'
    BY <1>1, <1>8, <1>9, <1>15, <1>16 DEF LoadedAsPromised
<1>18. Paired'
  <2> SUFFICES ASSUME NEW k \in DOMAIN table' \ DOMAIN before', NEW f \in PartFiles
               PROVE  LET id == PkgId[table'[k].elem]
                          here == {i \in DOMAIN Content(f)' : Content(f)'[i] = id}
                      IN  IF here = {} THEN table'[k][f] = 0
                                       ELSE /\ table'[k][f] \in here
                                            /\ \A i \in here : table'[k][f] <= i
      BY DEF Paired, PartFiles
  <2>1. /\ table[k] \in Entry
        /\ HasParts(table[k], Len(Content("filelists")), Len(Content("other")))
      BY <1>1, <1>3 DEF Filling
  <2>2. FirstIn(PkgId[table[k].elem], table[k][f], f, Len(Content(f)))
      BY <2>1 DEF HasParts, PartFiles
  <2>3. Len(Content(f)) \in Nat /\ DOMAIN Content(f) = 1 .. Len(Content(f))
      BY <1>1, FileTypes DEF PartFiles
  <2>4. k \in DOMAIN table' /\ table'[k] = table[k] /\ Content(f)' = Content(f)
      BY <1>3, <1>7
  <2> QED BY <2>2, <2>3, <2>4 DEF FirstIn
<1> QED BY <1>4, <1>5, <1>17, <1>18 DEF IInv, LoadedRight

-----------------------------------------------------------------------------
(* The theorems.                                                           *)

LEMMA InitIInv == Init => IInv
<1> SUFFICES ASSUME Init
             PROVE  IInv
    OBVIOUS
<1>1. /\ input \in Inputs /\ repo = 1 /\ lpc = "primary" /\ at = 0
      /\ intern = NoTable /\ ignoredIds = {} /\ ignoredKeys = {}
      /\ table = NoTable /\ before = NoTable
    BY DEF Init
<1>2. DOMAIN NoTable = {}
    BY DEF NoTable
<1>3. repo \in 1 .. Len(input.repos)
  <2> DEFINE R == [primary : Seq(Elems), filelists : Seq(PkgIds), other : Seq(PkgIds)]
  <2>1. input.repos \in Seq(R) /\ input.repos # <<>>
      BY <1>1, LoadMetadataAssumption
  <2> HIDE DEF R
  <2> QED BY <1>1, <2>1
<1>4. Content("primary") \in Seq(Elems)
  <2> DEFINE R == [primary : Seq(Elems), filelists : Seq(PkgIds), other : Seq(PkgIds)]
  <2>1. input.repos \in Seq(R)
      BY <1>1, LoadMetadataAssumption
  <2>2. input.repos[repo] \in R
    <3> HIDE DEF R
    <3> QED BY <1>3, <2>1
  <2> QED BY <2>2 DEF Content
<1>5. TypeOK
    BY <1>1, <1>2, <1>3, <1>4 DEF TypeOK
<1>6. WantedTo(at) = {}
    BY <1>1, <1>4 DEF WantedTo, WantedAt
<1> QED BY <1>1, <1>2, <1>5, <1>6
       DEF IInv, Tidy, ParsingPrimary, InternParsed, Parts, Filling,
           LoadedRight, LoadedAsPromised, Paired

\* The invariant, in every state a load can come to.
THEOREM LoadInvariance == Spec => []IInv
<1>1. ASSUME IInv, [Next]_vars
      PROVE  IInv'
  <2>1. CASE ParsePrimary
      BY <1>1, <2>1, DropIgnoredKeeps, StorePackageKeeps, DropRepeatedKeeps,
         DropConflictKeeps DEF ParsePrimary
  <2>2. CASE LoadPart \/ SkipPart
      BY <1>1, <2>2, LoadPartKeeps, SkipPartKeeps
  <2>3. CASE EndOfFile \/ LoadFails \/ LoadNext
      BY <1>1, <2>3, EndOfFileKeeps, LoadFailsKeeps, LoadNextKeeps
  <2>4. CASE \E id \in PkgIds : MovePackage(id) \/ DropKnown(id) \/ DropClash(id)
      BY <1>1, <2>4, MovePackageKeeps, DropKnownKeeps, DropClashKeeps
  <2>5. CASE RemoveIgnored
      BY <1>1, <2>5, RemoveIgnoredKeeps
  <2>6. CASE UNCHANGED vars
    <3>1. /\ UNCHANGED <<input, repo, lpc, at, intern, ignoredIds>>
          /\ UNCHANGED <<ignoredKeys, table, before>>
        BY <2>6 DEF vars
    <3>2. /\ \A f : Content(f)' = Content(f)
          /\ WantedAt' = WantedAt /\ Parsed' = Parsed
          /\ \A i : Elem(i)' = Elem(i)
        BY <3>1, SameFiles
    <3>3. TypeOK' /\ Tidy' /\ InternParsed'
        BY <1>1, <3>1, <3>2 DEF IInv, TypeOK, Tidy, InternParsed
    <3>4. WantedTo(at)' = WantedTo(at) /\ \A i : Stands(i, at)' <=> Stands(i, at)
        BY <3>1, <3>2 DEF WantedTo, Stands, SamePackage
    <3>5. ParsingPrimary'
        BY <1>1, <3>1, <3>2, <3>4
           DEF IInv, ParsingPrimary, Differ, SamePackage, NewEntry
    <3>6. \A e, m, n : HasParts(e, m, n)' <=> HasParts(e, m, n)
        BY <3>2 DEF HasParts, FirstIn
    <3>7. Parts'
        BY <1>1, <3>1, <3>2, <3>6 DEF IInv, Parts
    <3>8. Moved' = Moved
        BY <3>1, <3>2 DEF Moved
    <3>9. Filling'
        BY <1>1, <3>1, <3>2, <3>6, <3>8 DEF IInv, Filling, SameEntry
    <3>10. \A k : WithKey(k)' = WithKey(k)
        BY <3>1, <3>2 DEF WithKey
    <3>11. \A k : NoClash(k)' <=> NoClash(k)
        BY <3>10 DEF NoClash, SameEntry
    <3>12. LoadedAsPromised'
        BY <1>1, <3>1, <3>10, <3>11 DEF IInv, LoadedRight, LoadedAsPromised
    <3>13. Paired'
        BY <1>1, <3>1, <3>2 DEF IInv, LoadedRight, Paired
    <3> QED BY <3>3, <3>5, <3>7, <3>9, <3>12, <3>13 DEF IInv, LoadedRight
  <2> QED BY <1>1, <2>1, <2>2, <2>3, <2>4, <2>5, <2>6 DEF Next
<1> QED BY InitIInv, <1>1, PTL DEF Spec

\* After each load the table holds what its duplicate action promises, whatever
\* the order of the hash tables, and no package has a part of another.
THEOREM LoadingIsRight == Spec => []LoadedRight
<1>1. IInv => LoadedRight
    BY DEF IInv
<1> QED BY <1>1, LoadInvariance, PTL

(***************************************************************************)
(* Writing. Every CR_FILE is a value, and its file on the disk is the      *)
(* beginning of what it was given (FilesOK). As long as no error was       *)
(* reported the data of primary.xml are the header, the packages so far    *)
(* and the footer (Dumping), the file is what was written (OldIs), and the *)
(* rewritten one has another header and the same rest up to where its      *)
(* reader is (AtRead, AtWrite), in chunks of the same ends. A copy is a    *)
(* beginning of its source (CopyRead, CopyWrite) unless an error stopped   *)
(* it, which closing it does not hide from its record (CopyClose).         *)
(***************************************************************************)

\* What data are made of.
Block == {Header(n) : n \in Nat} \union {Package(p) : p \in Nat} \union {Footer}

Within(cuts, s) == \A i \in DOMAIN cuts : cuts[i] <= Len(s)

FileOK(f) ==
    /\ f = [codec |-> f.codec, content |-> f.content, cuts |-> f.cuts,
            whole |-> f.whole]
    /\ f.content \in Seq(Block) /\ f.cuts \in Seq(Nat)
    /\ f.whole => Within(f.cuts, f.content)

OutOK(f) ==
    /\ f = [mode |-> "write", name |-> f.name, codec |-> f.codec,
            data |-> f.data, cuts |-> f.cuts]
    /\ f.name \in DOMAIN disk
    /\ f.data \in Seq(Block) /\ f.cuts \in Seq(Nat) /\ Within(f.cuts, f.data)
    /\ ~disk[f.name].whole

InOK(f) ==
    /\ f = [mode |-> "read", name |-> f.name, codec |-> f.codec, pos |-> f.pos]
    /\ f.name \in DOMAIN disk
    /\ f.pos \in Nat /\ f.pos <= Len(disk[f.name].content)

Writing == open["out"].mode = "write"
Reading == open["in"].mode = "read"

\* The files and the CR_FILEs; nothing is written to the file that is read.
FilesOK ==
    /\ room \in Nat /\ err \in BOOLEAN /\ block \in Seq(Block)
    /\ \A n \in DOMAIN disk : FileOK(disk[n])
    /\ open = [h \in Handles |-> open[h]]
    /\ Writing => OutOK(open["out"])
    /\ Reading => InOK(open["in"])
    /\ Writing /\ Reading => open["in"].name # open["out"].name

\* What a call leaves alone: all files but one.
Only(name) ==
    /\ DOMAIN disk' = DOMAIN disk
    /\ \A n \in DOMAIN disk : n # name => disk'[n] = disk[n]

CutAt(cuts, n) ==
    IF n > (IF cuts = <<>> THEN 0 ELSE Last(cuts)) THEN Append(cuts, n) ELSE cuts

-----------------------------------------------------------------------------
(* Numbers.                                                                *)

\* A set of numbers that has 0, and with a number below n the next one.
LEMMA CountingUp ==
    ASSUME NEW n \in Nat, NEW F, 0 \in F,
           \A m \in 0 .. n - 1 : m \in F => m + 1 \in F
    PROVE  \A m \in 0 .. n : m \in F
<1> DEFINE Below(m) == 1 .. m
           Bad == {Below(m) : m \in {k \in 0 .. n : k \notin F}}
<1> SUFFICES ASSUME NEW b \in 0 .. n, b \notin F PROVE FALSE
    OBVIOUS
<1>1. Below(b) \in Bad
    OBVIOUS
<1>2. Bad \subseteq FiniteSubsetsOf(1 .. n)
  <2>1. \A m \in 0 .. n : Below(m) \in SUBSET (1 .. n) /\ IsFiniteSet(Below(m))
      BY FS_Interval
  <2>2. \A m \in 0 .. n : Below(m) \in FiniteSubsetsOf(1 .. n)
      BY <2>1 DEF FiniteSubsetsOf
  <2> HIDE DEF Below
  <2> QED BY <2>2
<1>3. PICK B \in Bad : \A C \in Bad : <<C, B>> \notin StrictSubsetOrdering(1 .. n)
  <2>1. IsWellFoundedOn(StrictSubsetOrdering(1 .. n), FiniteSubsetsOf(1 .. n))
      BY FS_Interval, FS_StrictSubsetOrderingWellFounded
  <2> HIDE DEF Bad
  <2> QED BY <1>1, <1>2, <2>1, WFMin
<1>4. PICK m \in 0 .. n : m \notin F /\ B = Below(m)
    BY <1>3
<1>5. m # 0 /\ m - 1 \in 0 .. n - 1 /\ m - 1 \in 0 .. n /\ (m - 1) + 1 = m
    BY <1>4
<1>6. m - 1 \notin F
    BY <1>4, <1>5
<1>7. Below(m - 1) \in Bad
    BY <1>5, <1>6
<1>8. Below(m - 1) \subseteq Below(m) /\ m \in Below(m) /\ m \notin Below(m - 1)
      /\ Below(m) \subseteq 1 .. n
    BY <1>4, <1>5
<1>9. <<Below(m - 1), Below(m)>> \in StrictSubsetOrdering(1 .. n)
  <2> HIDE DEF Below
  <2> QED BY <1>8 DEF StrictSubsetOrdering
<1> QED BY <1>3, <1>4, <1>7, <1>9

\* The least of some numbers.
LEMMA MinIs ==
    ASSUME NEW S, S \subseteq Nat, S # {}
    PROVE  Min(S) \in S /\ \A i \in S : Min(S) <= i
<1> DEFINE Below(m) == 0 .. m
           All == {Below(m) : m \in S}
<1>1. All \subseteq FiniteSubsetsOf(Nat)
  <2>1. \A m \in S : Below(m) \in SUBSET Nat /\ IsFiniteSet(Below(m))
      BY FS_Interval
  <2>2. \A m \in S : Below(m) \in FiniteSubsetsOf(Nat)
      BY <2>1 DEF FiniteSubsetsOf
  <2> HIDE DEF Below
  <2> QED BY <2>2
<1>2. All # {}
    OBVIOUS
<1>3. PICK B \in All : \A C \in All : <<C, B>> \notin StrictSubsetOrdering(Nat)
  <2> HIDE DEF All
  <2> QED BY <1>1, <1>2, FS_StrictSubsetOrderingWellFounded, WFMin
<1>4. PICK m \in S : B = Below(m)
    BY <1>3
<1>5. ASSUME NEW i \in S PROVE m <= i
  <2> SUFFICES ASSUME i < m PROVE FALSE
      OBVIOUS
  <2>1. Below(i) \in All
      OBVIOUS
  <2>2. Below(i) \subseteq Below(m) /\ m \in Below(m) /\ m \notin Below(i) /\ Below(m) \subseteq Nat
      OBVIOUS
  <2>3. <<Below(i), Below(m)>> \in StrictSubsetOrdering(Nat)
    <3> HIDE DEF Below
    <3> QED BY <2>2 DEF StrictSubsetOrdering
  <2> HIDE DEF All
  <2> QED BY <1>3, <1>4, <2>1, <2>3
<1> QED BY <1>5 DEF Min

-----------------------------------------------------------------------------
(* The compression wrapper.                                                *)

LEMMA BlockIs ==
    /\ \A n \in Nat : Header(n) \in Block /\ Package(n) \in Block
    /\ Footer \in Block
BY DEF Block

LEMMA CutsGrow ==
    ASSUME NEW cuts \in Seq(Nat), NEW s \in Seq(Block), Within(cuts, s)
    PROVE  CutAt(cuts, Len(s)) \in Seq(Nat) /\ Within(CutAt(cuts, Len(s)), s)
BY DEF CutAt, Within

LEMMA EndedIs ==
    ASSUME NEW f, f = [mode |-> "write", name |-> f.name, codec |-> f.codec,
                       data |-> f.data, cuts |-> f.cuts]
    PROVE  EndedChunk(f) = [mode |-> "write", name |-> f.name, codec |-> f.codec,
                            data |-> f.data, cuts |-> CutAt(f.cuts, Len(f.data))]
BY DEF EndedChunk, CutAt

\* What is drained is a beginning of the data.
LEMMA DrainedIs ==
    ASSUME NEW f, NEW n \in Nat, room \in Nat, n <= Len(f.data), f.data \in Seq(Block),
           disk[f.name].content \in Seq(Block)
    PROVE  LET d == Drained(f, n) IN
           /\ d.after \in 0..Len(f.data) /\ d.used \in Int /\ room - d.used \in Nat
           /\ d.fits \in BOOLEAN
           /\ d.fits => d.after = n
           /\ SubSeq(f.data, 1, d.after) \in Seq(Block)
<1> DEFINE held == Len(disk[f.name].content)
           fits == n - held <= room
           after == IF fits THEN n ELSE held + room
           d == Drained(f, n)
<1>1. d = [fits |-> fits, after |-> after, used |-> after - held]
    BY DEF Drained
<1>2. held \in Nat /\ Len(f.data) \in Nat
    BY LenProperties
<1>3. after \in 0..Len(f.data) /\ after - held \in Int /\ room - (after - held) \in Nat
    BY <1>2
<1>4. SubSeq(f.data, 1, after) \in Seq(Block)
  <2> HIDE DEF after
  <2>1. after \in Int /\ \A i \in 1..after : f.data[i] \in Block
      BY <1>2, <1>3, ElementOfSeq
  <2> QED BY <2>1, SubSeqProperties
<1> HIDE DEF d
<1>5. d.fits = fits /\ d.after = after /\ d.used = after - held
    BY <1>1
<1>6. fits => after = n
    OBVIOUS
<1>7. fits \in BOOLEAN
    OBVIOUS
<1> HIDE DEF fits, after, held
<1>8. /\ d.after \in 0..Len(f.data) /\ d.used \in Int /\ room - d.used \in Nat
      /\ d.fits => d.after = n
      /\ SubSeq(f.data, 1, d.after) \in Seq(Block)
    BY <1>3, <1>4, <1>5, <1>6
<1>9. d.fits \in BOOLEAN
    BY <1>5, <1>7
<1> QED BY <1>8, <1>9 DEF d

\* A file open for writing, and the handle of one.
OutIs(name, c, data, cuts) ==
    open["out"] = [mode |-> "write", name |-> name, codec |-> c, data |-> data, cuts |-> cuts]

\* What becomes of a file that is written to, and of its CR_FILE.
LEMMA Wrote ==
    ASSUME FilesOK, NEW name, NEW c, NEW data, NEW cuts, OutIs(name, c, data, cuts),
           NEW more, NEW k, more \in Seq(Block), k \in Seq(Nat), Within(k, more),
           NEW s \in Seq(Block), disk' = [disk EXCEPT ![name].content = s],
           room' \in Nat, err' \in BOOLEAN, UNCHANGED <<block, stat>>,
           open' = [open EXCEPT !["out"] = [mode |-> "write", name |-> name, codec |-> c,
                                            data |-> more, cuts |-> k]]
    PROVE  /\ FilesOK' /\ Only(name)
           /\ open'["in"] = open["in"] /\ OutIs(name, c, more, k)'
<1> DEFINE g == [mode |-> "write", name |-> name, codec |-> c, data |-> more, cuts |-> k]
<1>1. name \in DOMAIN disk /\ FileOK(disk[name])
  <2>1. open["out"].mode = "write" /\ open["out"].name = name
      BY DEF OutIs
  <2> QED BY <2>1 DEF FilesOK, OutOK, Writing
<1>2. open = [h \in Handles |-> open[h]] /\ "in" \in Handles /\ "out" \in Handles
    BY DEF FilesOK, Handles
<1>3. open'["out"] = g /\ open'["in"] = open["in"] /\ open' = [h \in Handles |-> open'[h]]
  <2> HIDE DEF g
  <2>1. open' = [open EXCEPT !["out"] = g]
      BY DEF g
  <2> QED BY <1>2, <2>1
<1>4. /\ DOMAIN disk' = DOMAIN disk
      /\ \A m \in DOMAIN disk : m # name => disk'[m] = disk[m]
      /\ disk'[name] = [disk[name] EXCEPT !.content = s]
    BY <1>1
<1>w. ~disk[name].whole
  <2>1. open["out"].mode = "write" /\ open["out"].name = name
      BY DEF OutIs
  <2> QED BY <2>1 DEF FilesOK, OutOK, Writing
<1>5. FileOK(disk'[name])
  <2>1. disk'[name] = [codec |-> disk[name].codec, content |-> s, cuts |-> disk[name].cuts,
                       whole |-> disk[name].whole]
      BY <1>1, <1>4 DEF FileOK
  <2>2. disk[name].cuts \in Seq(Nat)
      BY <1>1 DEF FileOK
  <2>3. /\ disk'[name].codec = disk[name].codec /\ disk'[name].content = s
        /\ disk'[name].cuts = disk[name].cuts /\ disk'[name].whole = disk[name].whole
      BY <2>1
  <2> QED BY <2>1, <2>2, <2>3, <1>w DEF FileOK
<1>v. ~disk'[name].whole
  <2>1. disk'[name].whole = disk[name].whole
      BY <1>1, <1>4 DEF FileOK
  <2> QED BY <2>1, <1>w
<1>6. OutOK(g)'
  <2>1. g.name = name /\ g.data = more /\ g.cuts = k /\ g.codec = c
      OBVIOUS
  <2>2. g = [mode |-> "write", name |-> g.name, codec |-> g.codec, data |-> g.data, cuts |-> g.cuts]
      OBVIOUS
  <2> HIDE DEF g
  <2> QED BY <1>1, <1>4, <1>v, <2>1, <2>2 DEF OutOK
<1>7. OutOK(open["out"])'
  <2> HIDE DEF g
  <2> QED BY <1>3, <1>6 DEF OutOK
<1>8. Reading' => InOK(open["in"])' /\ open'["in"].name # name
  <2> SUFFICES ASSUME Reading' PROVE InOK(open["in"])' /\ open'["in"].name # name
      OBVIOUS
  <2>1. InOK(open["in"]) /\ open["in"].name # name
    <3>1. open["out"].mode = "write" /\ open["out"].name = name
        BY DEF OutIs
    <3> QED BY <1>3, <3>1 DEF Reading, Writing, FilesOK
  <2> QED BY <2>1, <1>3, <1>4 DEF InOK
<1>9. \A m \in DOMAIN disk' : FileOK(disk'[m])
    BY <1>4, <1>5 DEF FilesOK
<1>10. open'["out"].name = name
    BY <1>3
<1>11. block' \in Seq(Block)
    BY DEF FilesOK
<1>12. FilesOK'
    BY <1>3, <1>7, <1>8, <1>9, <1>10, <1>11 DEF FilesOK
<1> QED BY <1>3, <1>4, <1>12 DEF Only, OutIs

LEMMA WriteIs ==
    ASSUME FilesOK, NEW name, NEW c, NEW data, NEW cuts, OutIs(name, c, data, cuts),
           NEW bs \in Seq(Block), NEW ends \in BOOLEAN, Write("out", bs, ends)
    PROVE  /\ FilesOK' /\ Only(name)
           /\ open'["in"] = open["in"] /\ UNCHANGED <<block, stat>>
           /\ ends /\ ~err' => OutIs(name, c, data \o bs, CutAt(cuts, Len(data \o bs)))'
           /\ ~(ends /\ ~err') => OutIs(name, c, data \o bs, cuts)'
<1> DEFINE more == data \o bs
           f == [mode |-> "write", name |-> name, codec |-> c, data |-> more, cuts |-> cuts]
           d(n) == Drained(f, n)
<1>1. /\ name \in DOMAIN disk /\ data \in Seq(Block) /\ cuts \in Seq(Nat)
      /\ Within(cuts, data)
  <2>1. /\ open["out"].mode = "write" /\ open["out"].name = name
        /\ open["out"].data = data /\ open["out"].cuts = cuts
      BY DEF OutIs
  <2> QED BY <2>1 DEF FilesOK, OutOK, Writing
<1>2. disk[name].content \in Seq(Block) /\ room \in Nat
    BY <1>1 DEF FilesOK, FileOK
<1>3. more \in Seq(Block) /\ Len(more) = Len(data) + Len(bs)
      /\ Len(data) \in Nat /\ Len(bs) \in Nat
    BY <1>1, ConcatProperties, LenProperties
<1>4. Within(cuts, more)
    BY <1>1, <1>3, LenProperties DEF Within
<1>5. CutAt(cuts, Len(more)) \in Seq(Nat) /\ Within(CutAt(cuts, Len(more)), more)
  <2> HIDE DEF more
  <2> QED BY <1>1, <1>3, <1>4, CutsGrow
<1>6. EndedChunk(f) = [mode |-> "write", name |-> name, codec |-> c, data |-> more,
                       cuts |-> CutAt(cuts, Len(more))]
  <2> HIDE DEF more
  <2>1. /\ f = [mode |-> "write", name |-> f.name, codec |-> f.codec, data |-> f.data,
               cuts |-> f.cuts]
        /\ f.name = name /\ f.codec = c /\ f.data = more /\ f.cuts = cuts
      OBVIOUS
  <2> HIDE DEF f
  <2> QED BY <2>1, EndedIs
<1>7. PICK n \in Len(disk[name].content)..Len(more) :
        /\ disk' = [disk EXCEPT ![name].content = SubSeq(more, 1, d(n).after)]
        /\ room' = room - d(n).used
        /\ err' = ~d(n).fits
        /\ open' = [open EXCEPT !["out"] = IF ends /\ d(n).fits THEN EndedChunk(f) ELSE f]
  <2>1. [open["out"] EXCEPT !.data = @ \o bs] = f
    <3> DEFINE r == [mode |-> "write", name |-> name, codec |-> c, data |-> data, cuts |-> cuts]
    <3>1. r.data = data
        OBVIOUS
    <3>2. \A x : [r EXCEPT !.data = x] = [mode |-> "write", name |-> name, codec |-> c,
                                          data |-> x, cuts |-> cuts]
        OBVIOUS
    <3>3. open["out"] = r
        BY DEF OutIs
    <3> HIDE DEF r
    <3> QED BY <3>1, <3>2, <3>3
  <2>2. f.name = name /\ f.data = more
      OBVIOUS
  <2> HIDE DEF f, more
  <2> QED BY <2>1, <2>2 DEF Write
<1>8. n \in Nat /\ n <= Len(more)
    BY <1>2, <1>3, LenProperties
<1>9. /\ room - d(n).used \in Nat /\ d(n).fits \in BOOLEAN
      /\ SubSeq(more, 1, d(n).after) \in Seq(Block)
  <2>1. f.name = name /\ f.data = more
      OBVIOUS
  <2> HIDE DEF f, more
  <2> QED BY <1>2, <1>3, <1>8, <2>1, DrainedIs
<1>10. UNCHANGED <<block, stat>>
    BY DEF Write
<1> DEFINE s == SubSeq(more, 1, d(n).after)
<1>s. s \in Seq(Block) /\ disk' = [disk EXCEPT ![name].content = s]
    BY <1>7, <1>9
<1> HIDE DEF d, more, s
<1>11. /\ room' \in Nat /\ err' \in BOOLEAN
    BY <1>7, <1>9
<1>12. CASE ends /\ ~err'
  <2>1. d(n).fits
      BY <1>7, <1>9, <1>12
  <2>2. open' = [open EXCEPT !["out"] = [mode |-> "write", name |-> name, codec |-> c,
                                         data |-> more, cuts |-> CutAt(cuts, Len(more))]]
      BY <1>6, <1>7, <1>12, <2>1
  <2>3. FilesOK' /\ Only(name) /\ open'["in"] = open["in"]
        /\ OutIs(name, c, more, CutAt(cuts, Len(more)))'
      BY <1>3, <1>5, <1>s, <1>10, <1>11, <2>2, Wrote
  <2> QED BY <1>10, <1>12, <2>3 DEF more, OutIs
<1>13. CASE ~(ends /\ ~err')
  <2>1. ~(ends /\ d(n).fits)
      BY <1>7, <1>9, <1>13
  <2>2. open' = [open EXCEPT !["out"] = f]
      BY <1>7, <2>1
  <2>3. FilesOK' /\ Only(name) /\ open'["in"] = open["in"] /\ OutIs(name, c, more, cuts)'
      BY <1>1, <1>3, <1>4, <1>s, <1>10, <1>11, <2>2, Wrote
  <2> QED BY <1>10, <1>13, <2>3 DEF more, OutIs
<1> QED BY <1>12, <1>13

\* cr_close of a file that was written.
LEMMA CloseIs ==
    ASSUME FilesOK, NEW name, NEW c, NEW data, NEW cuts, OutIs(name, c, data, cuts),
           NEW seen \in BOOLEAN, CloseWritten("out", seen), err' \in BOOLEAN
    PROVE  /\ FilesOK' /\ Only(name) /\ name \in DOMAIN disk
           /\ open'["in"] = open["in"] /\ open'["out"] = Closed
           /\ block' = block /\ stat' = data
           /\ disk'[name].cuts = CutAt(cuts, Len(data))
           /\ disk'[name].whole => disk'[name].content = data
           /\ c \notin Blind /\ ~seen => disk'[name].whole
<1> DEFINE k == CutAt(cuts, Len(data))
           f == [mode |-> "write", name |-> name, codec |-> c, data |-> data, cuts |-> k]
           d == Drained(f, Len(data))
<1>1. /\ name \in DOMAIN disk /\ data \in Seq(Block) /\ cuts \in Seq(Nat)
      /\ Within(cuts, data)
  <2>1. /\ open["out"].mode = "write" /\ open["out"].name = name
        /\ open["out"].data = data /\ open["out"].cuts = cuts
      BY DEF OutIs
  <2> QED BY <2>1 DEF FilesOK, OutOK, Writing
<1>2. disk[name].content \in Seq(Block) /\ room \in Nat /\ Len(data) \in Nat
    BY <1>1, LenProperties DEF FilesOK, FileOK
<1>3. k \in Seq(Nat) /\ Within(k, data)
    BY <1>1, CutsGrow
<1>4. EndedChunk(open["out"]) = f
  <2>1. open["out"] = [mode |-> "write", name |-> name, codec |-> c, data |-> data, cuts |-> cuts]
      BY DEF OutIs
  <2>2. /\ open["out"].name = name /\ open["out"].codec = c
        /\ open["out"].data = data /\ open["out"].cuts = cuts
      BY <2>1
  <2>3. open["out"] = [mode |-> "write", name |-> open["out"].name, codec |-> open["out"].codec,
                       data |-> open["out"].data, cuts |-> open["out"].cuts]
      BY <2>1, <2>2
  <2> QED BY <2>2, <2>3, EndedIs
<1>5. f.name = name /\ f.data = data /\ f.cuts = k /\ f.codec = c
    OBVIOUS
<1> HIDE DEF f, k
<1>6. /\ seen = (~d.fits /\ (c \in Blind => seen))
      /\ disk' = [disk EXCEPT ![name] = [codec |-> c, content |-> SubSeq(data, 1, d.after),
                                        cuts |-> k, whole |-> d.fits]]
      /\ room' = room - d.used
      /\ stat' = data
      /\ open' = [open EXCEPT !["out"] = Closed]
      /\ UNCHANGED block
    BY <1>4, <1>5 DEF CloseWritten
<1>7. /\ room - d.used \in Nat /\ d.fits \in BOOLEAN
      /\ SubSeq(data, 1, d.after) \in Seq(Block)
      /\ d.fits => d.after = Len(data)
  <2>1. /\ Len(data) <= Len(f.data) /\ f.data \in Seq(Block)
        /\ disk[f.name].content \in Seq(Block)
      BY <1>1, <1>2, <1>5
  <2>2. /\ room - d.used \in Nat /\ d.fits \in BOOLEAN
        /\ SubSeq(f.data, 1, d.after) \in Seq(Block)
        /\ d.fits => d.after = Len(data)
      BY <1>2, <2>1, DrainedIs
  <2> QED BY <1>5, <2>2
<1> DEFINE s == SubSeq(data, 1, d.after)
           x == [codec |-> c, content |-> s, cuts |-> k, whole |-> d.fits]
<1>8. /\ x = [codec |-> x.codec, content |-> x.content, cuts |-> x.cuts, whole |-> x.whole]
      /\ x.content = s /\ x.cuts = k /\ x.whole = d.fits
    OBVIOUS
<1>9. /\ s \in Seq(Block)
      /\ d.fits => s = data
    BY <1>1, <1>7, SubSeqFull
<1> HIDE DEF s, d
<1>10. /\ disk' = [disk EXCEPT ![name] = x] /\ room' \in Nat
    BY <1>6, <1>7 DEF s
<1> HIDE DEF x
<1>11. /\ DOMAIN disk' = DOMAIN disk /\ disk'[name] = x
       /\ \A m \in DOMAIN disk : m # name => disk'[m] = disk[m]
    BY <1>1, <1>10
<1>12. open = [h \in Handles |-> open[h]] /\ "in" \in Handles /\ "out" \in Handles
    BY DEF FilesOK, Handles
<1>13. open'["out"] = Closed /\ open'["in"] = open["in"] /\ open' = [h \in Handles |-> open'[h]]
    BY <1>6, <1>12
<1>14. ~Writing'
    BY <1>13 DEF Writing, Closed
<1>15. FileOK(x)
  <2>1. x.whole => Within(x.cuts, x.content)
      BY <1>3, <1>8, <1>9
  <2> QED BY <1>3, <1>8, <1>9, <2>1 DEF FileOK
<1>16. Reading' => InOK(open["in"])'
  <2> SUFFICES ASSUME Reading' PROVE InOK(open["in"])'
      OBVIOUS
  <2>1. InOK(open["in"]) /\ open["in"].name # name
    <3>1. open["out"].mode = "write" /\ open["out"].name = name
        BY DEF OutIs
    <3> QED BY <1>13, <3>1 DEF Reading, Writing, FilesOK
  <2> QED BY <2>1, <1>13, <1>11 DEF InOK
<1>17. FilesOK'
  <2>1. \A m \in DOMAIN disk' : FileOK(disk'[m])
      BY <1>11, <1>15 DEF FilesOK
  <2>2. block' \in Seq(Block)
      BY <1>6 DEF FilesOK
  <2> QED BY <1>10, <1>13, <1>14, <1>16, <2>1, <2>2 DEF FilesOK
<1>18. /\ d.fits => x.content = data
       /\ c \notin Blind /\ ~seen => d.fits
    BY <1>6, <1>7, <1>8, <1>9
<1> QED BY <1>1, <1>6, <1>8, <1>11, <1>13, <1>17, <1>18 DEF Only, k

InIs(name, c, pos) ==
    open["in"] = [mode |-> "read", name |-> name, codec |-> c, pos |-> pos]

\* cr_open for writing makes an empty file.
LEMMA OpenWriteIs ==
    ASSUME FilesOK, NEW name, NEW c, OpenWrite("out", name, c),
           Reading => open["in"].name # name
    PROVE  /\ FilesOK' /\ OutIs(name, c, <<>>, <<>>)'
           /\ DOMAIN disk' = DOMAIN disk \union {name}
           /\ \A n \in DOMAIN disk : n # name => disk'[n] = disk[n]
           /\ open'["in"] = open["in"] /\ err' = FALSE /\ UNCHANGED <<room, block, stat>>
<1> DEFINE g == [mode |-> "write", name |-> name, codec |-> c, data |-> <<>>, cuts |-> <<>>]
           x == [codec |-> c, content |-> <<>>, cuts |-> <<>>, whole |-> FALSE]
<1>1. open = [h \in Handles |-> open[h]] /\ "in" \in Handles /\ "out" \in Handles
    BY DEF FilesOK, Handles
<1>2. /\ <<>> \in Seq(Block) /\ <<>> \in Seq(Nat) /\ Within(<<>>, <<>>)
    BY DEF Within
<1>3. /\ g = [mode |-> "write", name |-> g.name, codec |-> g.codec, data |-> g.data,
             cuts |-> g.cuts]
      /\ g.mode = "write" /\ g.name = name /\ g.data = <<>> /\ g.cuts = <<>>
    OBVIOUS
<1>4. FileOK(x) /\ ~x.whole
    BY <1>2 DEF FileOK
<1> HIDE DEF g, x
<1>5. /\ open' = [open EXCEPT !["out"] = g] /\ disk' = SetFile(name, x)
      /\ err' = FALSE /\ UNCHANGED <<room, block, stat>>
    BY DEF OpenWrite, g, x
<1>6. open'["out"] = g /\ open'["in"] = open["in"] /\ open' = [h \in Handles |-> open'[h]]
    BY <1>1, <1>5
<1>7. /\ DOMAIN disk' = DOMAIN disk \union {name} /\ disk'[name] = x
      /\ \A n \in DOMAIN disk : n # name => disk'[n] = disk[n]
    BY <1>5 DEF SetFile
<1>8. OutOK(open["out"])'
    BY <1>2, <1>3, <1>4, <1>6, <1>7 DEF OutOK
<1>9. Reading' => InOK(open["in"])' /\ open'["in"].name # name
  <2> SUFFICES ASSUME Reading' PROVE InOK(open["in"])' /\ open'["in"].name # name
      OBVIOUS
  <2>1. InOK(open["in"]) /\ open["in"].name # name
      BY <1>6 DEF Reading, FilesOK
  <2> QED BY <2>1, <1>6, <1>7 DEF InOK
<1>10. FilesOK'
  <2>1. \A m \in DOMAIN disk' : FileOK(disk'[m])
      BY <1>4, <1>7 DEF FilesOK
  <2>2. room' \in Nat /\ block' \in Seq(Block) /\ err' \in BOOLEAN
      BY <1>5 DEF FilesOK
  <2> QED BY <1>3, <1>6, <1>8, <1>9, <2>1, <2>2 DEF FilesOK
<1> QED BY <1>5, <1>6, <1>7, <1>10 DEF OutIs, g

LEMMA OpenReadIs ==
    ASSUME FilesOK, NEW name, NEW c, OpenRead("in", name, c),
           Writing => open["out"].name # name
    PROVE  /\ FilesOK' /\ InIs(name, c, 0)' /\ name \in DOMAIN disk
           /\ open'["out"] = open["out"] /\ err' = FALSE
           /\ UNCHANGED <<disk, room, block, stat>>
<1> DEFINE g == [mode |-> "read", name |-> name, codec |-> c, pos |-> 0]
<1>1. open = [h \in Handles |-> open[h]] /\ "in" \in Handles /\ "out" \in Handles
    BY DEF FilesOK, Handles
<1>2. /\ g = [mode |-> "read", name |-> g.name, codec |-> g.codec, pos |-> g.pos]
      /\ g.mode = "read" /\ g.name = name /\ g.pos = 0
    OBVIOUS
<1> HIDE DEF g
<1>3. /\ open' = [open EXCEPT !["in"] = g] /\ name \in DOMAIN disk
      /\ err' = FALSE /\ UNCHANGED <<disk, room, block, stat>>
    BY DEF OpenRead, Exists, g
<1>4. open'["in"] = g /\ open'["out"] = open["out"] /\ open' = [h \in Handles |-> open'[h]]
    BY <1>1, <1>3
<1>5. Len(disk[name].content) \in Nat
    BY <1>3, LenProperties DEF FilesOK, FileOK
<1>6. InOK(open["in"])'
    BY <1>2, <1>3, <1>4, <1>5 DEF InOK
<1>7. Writing' => OutOK(open["out"])' /\ open'["out"].name # name
    BY <1>3, <1>4 DEF FilesOK, OutOK, Writing
<1>8. FilesOK'
    BY <1>2, <1>3, <1>4, <1>6, <1>7 DEF FilesOK
<1> QED BY <1>3, <1>4, <1>8 DEF InIs, g

\* What a reader finds when it goes on from one place in the file to another.
LEMMA Fetched ==
    ASSUME FilesOK, NEW name, NEW c, NEW pos, InIs(name, c, pos),
           NEW upto \in Nat, upto <= Len(disk[name].content),
           NEW b \in Seq(Block), block' = b, err' \in BOOLEAN,
           open' = [open EXCEPT !["in"].pos = upto], UNCHANGED <<disk, room, stat>>
    PROVE  /\ FilesOK' /\ InIs(name, c, upto)' /\ open'["out"] = open["out"]
<1> DEFINE r == [mode |-> "read", name |-> name, codec |-> c, pos |-> pos]
           g == [mode |-> "read", name |-> name, codec |-> c, pos |-> upto]
<1>1. open = [h \in Handles |-> open[h]] /\ "in" \in Handles /\ "out" \in Handles
    BY DEF FilesOK, Handles
<1>2. [r EXCEPT !.pos = upto] = g
    OBVIOUS
<1>3. /\ g = [mode |-> "read", name |-> g.name, codec |-> g.codec, pos |-> g.pos]
      /\ g.mode = "read" /\ g.name = name /\ g.pos = upto
    OBVIOUS
<1>4. open["in"] = r /\ r.mode = "read" /\ r.name = name
    BY DEF InIs
<1> HIDE DEF g, r
<1>5. open'["in"] = g /\ open'["out"] = open["out"] /\ open' = [h \in Handles |-> open'[h]]
    BY <1>1, <1>2, <1>4
<1>6. InOK(open["in"])'
  <2>1. name \in DOMAIN disk
      BY <1>4 DEF FilesOK, Reading, InOK
  <2> QED BY <1>3, <1>5, <2>1 DEF InOK
<1>7. Writing' => OutOK(open["out"])' /\ open'["out"].name # name
    BY <1>4, <1>5 DEF FilesOK, OutOK, Writing, Reading
<1>8. FilesOK'
    BY <1>3, <1>5, <1>6, <1>7 DEF FilesOK
<1> QED BY <1>5, <1>8 DEF InIs, g

LEMMA InFacts ==
    ASSUME FilesOK, NEW name, NEW c, NEW pos, InIs(name, c, pos)
    PROVE  /\ name \in DOMAIN disk /\ pos \in Nat /\ pos <= Len(disk[name].content)
           /\ disk[name].content \in Seq(Block) /\ Len(disk[name].content) \in Nat
           /\ disk[name].cuts \in Seq(Nat)
           /\ open["in"].mode = "read" /\ open["in"].name = name
           /\ open["in"].codec = c /\ open["in"].pos = pos
<1>1. /\ open["in"].mode = "read" /\ open["in"].name = name
      /\ open["in"].codec = c /\ open["in"].pos = pos
    BY DEF InIs
<1>2. name \in DOMAIN disk /\ pos \in Nat /\ pos <= Len(disk[name].content)
    BY <1>1 DEF FilesOK, InOK, Reading
<1>3. disk[name].content \in Seq(Block) /\ disk[name].cuts \in Seq(Nat)
    BY <1>2 DEF FilesOK, FileOK
<1> QED BY <1>1, <1>2, <1>3, LenProperties

\* cr_read goes on in the file and, of a whole one, returns what it passes.
LEMMA ReadIs ==
    ASSUME FilesOK, NEW name, NEW c, NEW pos, InIs(name, c, pos),
           NEW n \in Nat, n # 0, Read("in", n)
    PROVE  /\ FilesOK' /\ open'["out"] = open["out"] /\ UNCHANGED <<disk, room, stat>>
           /\ \E upto \in pos..Len(disk[name].content) :
                /\ InIs(name, c, upto)'
                /\ upto = pos => upto = Len(disk[name].content)
                /\ disk[name].whole =>
                     ~err' /\ block' = SubSeq(disk[name].content, pos + 1, upto)
<1> DEFINE content == disk[name].content
           f == open["in"]
<1>1. /\ name \in DOMAIN disk /\ pos \in Nat /\ pos <= Len(content)
      /\ content \in Seq(Block) /\ Len(content) \in Nat
      /\ f.mode = "read" /\ f.name = name /\ f.codec = c /\ f.pos = pos
    BY InFacts
<1>2. \E u \in Nat : u = IF pos + n <= Len(content) THEN pos + n ELSE Len(content)
    BY <1>1
<1>3. PICK upto \in Nat : upto = IF pos + n <= Len(content) THEN pos + n ELSE Len(content)
    BY <1>2
<1>4. /\ err' = Breaks(f, n)
      /\ block' = IF Breaks(f, n) THEN <<>> ELSE SubSeq(content, pos + 1, upto)
      /\ open' = [open EXCEPT !["in"].pos = upto]
      /\ UNCHANGED <<disk, room, stat>>
    BY <1>1, <1>3 DEF Read
<1>5. /\ upto \in pos..Len(content) /\ upto <= Len(content)
      /\ upto = pos => upto = Len(content)
    BY <1>1, <1>3
<1>6. disk[name].whole => ~Breaks(f, n)
    BY <1>1 DEF Breaks
<1>7. Breaks(f, n) \in BOOLEAN
    BY DEF Breaks
<1> HIDE DEF f, content
<1>8. \E b \in Seq(Block) : b = SubSeq(content, pos + 1, upto)
  <2>1. pos + 1 \in Int /\ upto \in Int /\ \A i \in pos + 1..upto : content[i] \in Block
      BY <1>1, <1>5, ElementOfSeq
  <2> QED BY <2>1, SubSeqProperties
<1>9. \E b \in Seq(Block) : block' = b
  <2>1. block' = <<>> \/ block' = SubSeq(content, pos + 1, upto)
      BY <1>4
  <2>2. <<>> \in Seq(Block)
      OBVIOUS
  <2> QED BY <2>1, <2>2, <1>8
<1>10. PICK b \in Seq(Block) : block' = b
    BY <1>9
<1>11. FilesOK' /\ InIs(name, c, upto)' /\ open'["out"] = open["out"]
  <2>1. err' \in BOOLEAN /\ UNCHANGED <<disk, room, stat>> /\ upto <= Len(disk[name].content)
        /\ open' = [open EXCEPT !["in"].pos = upto]
      BY <1>4, <1>5, <1>7 DEF content
  <2> QED BY <1>10, <2>1, Fetched
<1>12. disk[name].whole => ~err' /\ block' = SubSeq(content, pos + 1, upto)
    BY <1>4, <1>6
<1> QED BY <1>4, <1>5, <1>11, <1>12 DEF content

\* The next chunk, if one is left.
LEMMA ReadZchunkIs ==
    ASSUME FilesOK, NEW name, NEW c, NEW pos, InIs(name, c, pos),
           ReadZchunk("in"), Within(disk[name].cuts, disk[name].content)
    PROVE  /\ FilesOK' /\ open'["out"] = open["out"] /\ UNCHANGED <<disk, room, stat>>
           /\ err' = FALSE
           /\ \E upto \in pos..Len(disk[name].content) :
                /\ InIs(name, c, upto)'
                /\ block' = SubSeq(disk[name].content, pos + 1, upto)
                /\ \/ upto = pos /\ \A i \in DOMAIN disk[name].cuts : disk[name].cuts[i] <= pos
                   \/ /\ \E i \in DOMAIN disk[name].cuts : upto = disk[name].cuts[i]
                      /\ upto > pos
                      /\ \A i \in DOMAIN disk[name].cuts :
                           disk[name].cuts[i] > pos => upto <= disk[name].cuts[i]
<1> DEFINE content == disk[name].content
           cuts == disk[name].cuts
           ends == {k \in ToSet(cuts) : k > pos}
<1>1. /\ name \in DOMAIN disk /\ pos \in Nat /\ pos <= Len(content)
      /\ content \in Seq(Block) /\ Len(content) \in Nat /\ cuts \in Seq(Nat)
      /\ open["in"].name = name /\ open["in"].pos = pos
    BY InFacts
<1>2. ToSet(cuts) = {cuts[i] : i \in DOMAIN cuts} /\ ToSet(cuts) \subseteq Nat
    BY <1>1 DEF ToSet
<1>3. \A k \in ToSet(cuts) : k <= Len(content)
    BY <1>2 DEF Within
<1>4. \E u \in pos..Len(content) :
        /\ u = IF ends = {} THEN pos ELSE Min(ends)
        /\ \/ u = pos /\ \A k \in ToSet(cuts) : k <= pos
           \/ u \in ToSet(cuts) /\ u > pos /\ \A k \in ToSet(cuts) : k > pos => u <= k
  <2> DEFINE u == IF ends = {} THEN pos ELSE Min(ends)
  <2> SUFFICES /\ u \in pos..Len(content)
               /\ \/ u = pos /\ \A k \in ToSet(cuts) : k <= pos
                  \/ u \in ToSet(cuts) /\ u > pos /\ \A k \in ToSet(cuts) : k > pos => u <= k
      OBVIOUS
  <2>1. CASE ends = {}
    <3>1. u = pos
        BY <2>1
    <3>2. \A k \in ToSet(cuts) : k <= pos
      <4> HIDE DEF u, content, cuts
      <4> SUFFICES ASSUME NEW k \in ToSet(cuts), ~(k <= pos) PROVE FALSE
          OBVIOUS
      <4>1. k > pos
          BY <1>1, <1>2
      <4> QED BY <2>1, <4>1
    <3> HIDE DEF u, content
    <3> QED BY <1>1, <3>1, <3>2
  <2>2. CASE ends # {}
    <3>1. ends \subseteq Nat
        BY <1>2
    <3> HIDE DEF ends
    <3>2. Min(ends) \in ends /\ \A k \in ends : Min(ends) <= k
        BY <2>2, <3>1, MinIs
    <3>3. u = Min(ends)
        BY <2>2
    <3> HIDE DEF u, content, cuts
    <3>4. u \in ToSet(cuts) /\ u > pos /\ \A k \in ToSet(cuts) : k > pos => u <= k
        BY <3>2, <3>3 DEF ends
    <3> HIDE DEF ends
    <3> QED BY <1>1, <1>2, <1>3, <3>4
  <2> QED BY <2>1, <2>2
<1>5. PICK upto \in pos..Len(content) :
        /\ upto = IF ends = {} THEN pos ELSE Min(ends)
        /\ \/ upto = pos /\ \A k \in ToSet(cuts) : k <= pos
           \/ upto \in ToSet(cuts) /\ upto > pos /\ \A k \in ToSet(cuts) : k > pos => upto <= k
    BY <1>4
<1>6. /\ err' = FALSE /\ block' = SubSeq(content, pos + 1, upto)
      /\ open' = [open EXCEPT !["in"].pos = upto]
      /\ UNCHANGED <<disk, room, stat>>
    BY <1>1, <1>5 DEF ReadZchunk
<1> HIDE DEF ends, content, cuts
<1>7. \E b \in Seq(Block) : b = SubSeq(content, pos + 1, upto)
  <2>1. pos + 1 \in Int /\ upto \in Int /\ \A i \in pos + 1..upto : content[i] \in Block
      BY <1>1, ElementOfSeq
  <2> QED BY <2>1, SubSeqProperties
<1>8. PICK b \in Seq(Block) : block' = b
    BY <1>6, <1>7
<1>9. FilesOK' /\ InIs(name, c, upto)' /\ open'["out"] = open["out"]
  <2>1. err' \in BOOLEAN /\ UNCHANGED <<disk, room, stat>>
        /\ open' = [open EXCEPT !["in"].pos = upto]
      BY <1>6
  <2>2. upto \in Nat /\ upto <= Len(disk[name].content)
      BY <1>1 DEF content
  <2> QED BY <1>8, <2>1, <2>2, Fetched
<1>10. \/ upto = pos /\ \A i \in DOMAIN cuts : cuts[i] <= pos
       \/ /\ \E i \in DOMAIN cuts : upto = cuts[i]
          /\ upto > pos
          /\ \A i \in DOMAIN cuts : cuts[i] > pos => upto <= cuts[i]
    BY <1>2, <1>5
<1> QED BY <1>5, <1>6, <1>9, <1>10 DEF content, cuts

\* Closing what was read leaves the files alone.
LEMMA ClosedInIs ==
    ASSUME FilesOK, open' = [open EXCEPT !["in"] = Closed], err' \in BOOLEAN,
           UNCHANGED <<disk, room, block, stat>>
    PROVE  FilesOK' /\ open'["out"] = open["out"] /\ open'["in"] = Closed
<1>1. open = [h \in Handles |-> open[h]] /\ "in" \in Handles /\ "out" \in Handles
    BY DEF FilesOK, Handles
<1>2. open'["in"] = Closed /\ open'["out"] = open["out"] /\ open' = [h \in Handles |-> open'[h]]
    BY <1>1
<1>3. ~Reading'
    BY <1>2 DEF Reading, Closed
<1>4. Writing' => OutOK(open["out"])'
    BY <1>2 DEF FilesOK, OutOK, Writing
<1> QED BY <1>2, <1>3, <1>4 DEF FilesOK

-----------------------------------------------------------------------------
(* What a file of XML consists of.                                         *)

IsWritten(w) ==
    w = [n \in 0..NPackages |->
            IF n = 0 THEN <<>>
            ELSE IF n \in broken THEN w[n - 1] ELSE Append(w[n - 1], Package(n))]

LEMMA WrittenExists ==
    IsWritten(WrittenTo)
<1> DEFINE Step(w, i) == IF i = 0 THEN <<>>
                         ELSE IF i \in broken THEN w[i - 1] ELSE Append(w[i - 1], Package(i))
           Far(w, m) == /\ w = [i \in 0 .. NPackages |-> w[i]]
                        /\ \A i \in 0 .. m : w[i] = Step(w, i)
           F == {m \in 0 .. NPackages : \E w : Far(w, m)}
<1>0. NPackages \in Nat
    BY MetadataFilesAssumption
<1>1. 0 \in F
  <2> DEFINE w == [i \in 0 .. NPackages |-> <<>>]
  <2>1. Far(w, 0)
      BY <1>0
  <2>2. 0 \in 0 .. NPackages
      BY <1>0
  <2> HIDE DEF Far, w
  <2> QED BY <2>1, <2>2
<1>2. ASSUME NEW m \in 0 .. NPackages - 1, m \in F
      PROVE  m + 1 \in F
  <2>1. PICK f : Far(f, m)
      BY <1>2
  <2> DEFINE w == [i \in 0 .. NPackages |-> IF i = m + 1 THEN Step(f, i) ELSE f[i]]
  <2>2. ASSUME NEW i \in 0 .. m + 1
        PROVE  w[i] = Step(w, i)
    <3>1. i \in 0 .. NPackages /\ (i # 0 => i - 1 \in 0 .. NPackages /\ i - 1 # m + 1)
        BY <1>0, <1>2
    <3>2. i # 0 => w[i - 1] = f[i - 1]
        BY <3>1
    <3>3. Step(w, i) = Step(f, i)
        BY <3>2
    <3>4. CASE i = m + 1
        BY <3>1, <3>3, <3>4
    <3>5. CASE i # m + 1
      <4>1. i \in 0 .. m
          BY <1>2, <3>5
      <4>2. f[i] = Step(f, i)
          BY <2>1, <4>1
      <4> QED BY <3>1, <3>3, <3>5, <4>2
    <3> QED BY <3>4, <3>5
  <2>3. w = [i \in 0 .. NPackages |-> w[i]]
      OBVIOUS
  <2>4. Far(w, m + 1)
    <3> HIDE DEF w, Step
    <3> QED BY <2>2, <2>3
  <2>5. m + 1 \in 0 .. NPackages
      BY <1>0, <1>2
  <2> HIDE DEF w, Far
  <2> QED BY <2>4, <2>5
<1>3. NPackages \in F
  <2> HIDE DEF F
  <2>1. NPackages \in 0 .. NPackages
      BY <1>0
  <2> QED BY <1>0, <1>1, <1>2, <2>1, CountingUp
<1>4. PICK w : Far(w, NPackages)
    BY <1>3
<1>5. IsWritten(w)
  <2>1. w = [i \in 0 .. NPackages |-> w[i]] /\ \A i \in 0 .. NPackages : w[i] = Step(w, i)
      BY <1>4
  <2> QED BY <2>1 DEF IsWritten
<1>6. WrittenTo = CHOOSE v : IsWritten(v)
    BY DEF WrittenTo, IsWritten
<1> QED BY <1>5, <1>6

\* The packages among the first n that can be read, in order.
LEMMA WrittenIs ==
    /\ WrittenTo[0] = <<>>
    /\ \A n \in 1..NPackages :
          WrittenTo[n] = IF n \in broken THEN WrittenTo[n - 1]
                         ELSE Append(WrittenTo[n - 1], Package(n))
    /\ \A n \in 0..NPackages : WrittenTo[n] \in Seq({Package(p) : p \in Nat})
<1> DEFINE Step(w, i) == IF i = 0 THEN <<>>
                         ELSE IF i \in broken THEN w[i - 1] ELSE Append(w[i - 1], Package(i))
           w == WrittenTo
           P == {Package(p) : p \in Nat}
           F == {m \in 0 .. NPackages : w[m] \in Seq(P)}
<1>0. NPackages \in Nat
    BY MetadataFilesAssumption
<1>1. \A i \in 0..NPackages : w[i] = Step(w, i)
  <2>1. w = [i \in 0..NPackages |-> Step(w, i)]
      BY WrittenExists DEF IsWritten
  <2> HIDE DEF w, Step
  <2> QED BY <2>1
<1>2. w[0] = <<>>
    BY <1>0, <1>1
<1>3. ASSUME NEW n \in 1..NPackages
      PROVE  w[n] = IF n \in broken THEN w[n - 1] ELSE Append(w[n - 1], Package(n))
    BY <1>0, <1>1
<1> HIDE DEF w, P
<1>4. 0 \in F
  <2>1. 0 \in 0..NPackages
      BY <1>0
  <2>2. <<>> \in Seq(P)
      OBVIOUS
  <2> QED BY <1>2, <2>1, <2>2
<1>5. ASSUME NEW m \in 0 .. NPackages - 1, m \in F
      PROVE  m + 1 \in F
  <2>1. m + 1 \in 1..NPackages /\ m + 1 \in 0..NPackages /\ (m + 1) - 1 = m
      BY <1>0
  <2>2. Package(m + 1) \in P
      BY <2>1 DEF P
  <2>3. w[m] \in Seq(P)
      BY <1>5
  <2>4. w[m + 1] = w[m] \/ w[m + 1] = Append(w[m], Package(m + 1))
      BY <1>3, <2>1
  <2> QED BY <2>1, <2>2, <2>3, <2>4
<1>6. \A m \in 0..NPackages : m \in F
  <2> HIDE DEF F
  <2> QED BY <1>0, <1>4, <1>5, CountingUp
<1> QED BY <1>2, <1>3, <1>6 DEF w, P

OldXml == <<Header(NPackages)>> \o Written \o <<Footer>>

LEMMA TagsDiffer ==
    /\ \A m, n : Header(m) # Package(n) /\ Header(m) # Footer /\ Package(m) # Footer
    /\ \A m, n : Header(m) = Header(n) => m = n
BY DEF Header, Package, Footer

\* The two files differ in the header alone.
LEMMA FilesAre ==
    ASSUME broken \in SUBSET Packages
    PROVE  /\ Counted \in Nat
           /\ OldXml \in Seq(Block) /\ WholeXml \in Seq(Block)
           /\ Len(WholeXml) = Len(OldXml) /\ Len(OldXml) >= 2
           /\ OldXml[1] = Header(NPackages) /\ WholeXml[1] = Header(Counted)
           /\ \A i \in 2..Len(OldXml) :
                 WholeXml[i] = OldXml[i] /\ OldXml[i] # Header(NPackages)
           /\ Counted = NPackages => WholeXml = OldXml
<1>0. NPackages \in Nat /\ NPackages \in 0..NPackages
    BY MetadataFilesAssumption
<1>1. Counted \in Nat
  <2>1. IsFiniteSet(Packages) /\ Cardinality(Packages) = NPackages
      BY <1>0, FS_Interval DEF Packages
  <2>2. IsFiniteSet(broken) /\ Cardinality(broken) <= NPackages
      BY <2>1, FS_Subset
  <2>3. Cardinality(broken) \in Nat
      BY <2>2, FS_CardinalityType
  <2> QED BY <1>0, <2>2, <2>3 DEF Counted
<1>2. Written \in Seq({Package(p) : p \in Nat})
    BY <1>0, WrittenIs DEF Written
<1>3. Written \in Seq(Block)
  <2>1. {Package(p) : p \in Nat} \subseteq Block
      BY DEF Block
  <2> QED BY <1>2, <2>1, SeqMonotonic
<1> DEFINE w == Written
           P == {Package(p) : p \in Nat}
<1> HIDE DEF w, P
<1>4. w \in Seq(P) /\ w \in Seq(Block)
    BY <1>2, <1>3 DEF w, P
<1>5. ASSUME NEW h \in Block
      PROVE  /\ <<h>> \o w \o <<Footer>> \in Seq(Block)
             /\ Len(<<h>> \o w \o <<Footer>>) = Len(w) + 2
             /\ (<<h>> \o w \o <<Footer>>)[1] = h
             /\ \A i \in 2..Len(w) + 1 : (<<h>> \o w \o <<Footer>>)[i] = w[i - 1]
             /\ (<<h>> \o w \o <<Footer>>)[Len(w) + 2] = Footer
  <2>1. <<h>> \in Seq(Block) /\ <<Footer>> \in Seq(Block)
        /\ Len(<<h>>) = 1 /\ Len(<<Footer>>) = 1 /\ <<h>>[1] = h /\ <<Footer>>[1] = Footer
      BY BlockIs
  <2> DEFINE a == <<h>>
             z == <<Footer>>
  <2> HIDE DEF a, z
  <2>2. a \in Seq(Block) /\ z \in Seq(Block) /\ Len(a) = 1 /\ Len(z) = 1
        /\ a[1] = h /\ z[1] = Footer
      BY <2>1 DEF a, z
  <2>3. Len(w) \in Nat
      BY <1>4, LenProperties
  <2>4. /\ a \o w \in Seq(Block) /\ Len(a \o w) = 1 + Len(w)
        /\ \A i \in 1..1 + Len(w) : (a \o w)[i] = IF i <= 1 THEN a[i] ELSE w[i - 1]
      BY <1>4, <2>2, ConcatProperties, SMTT(30)
  <2> DEFINE b == a \o w
  <2> HIDE DEF b
  <2>5. /\ b \o z \in Seq(Block) /\ Len(b \o z) = Len(w) + 2
        /\ \A i \in 1..Len(w) + 2 :
             (b \o z)[i] = IF i <= 1 + Len(w) THEN b[i] ELSE z[i - (1 + Len(w))]
    <3>1. b \in Seq(Block) /\ Len(b) = 1 + Len(w)
        BY <2>4 DEF b
    <3>2. /\ b \o z \in Seq(Block) /\ Len(b \o z) = Len(b) + Len(z)
          /\ \A i \in 1..Len(b) + Len(z) :
               (b \o z)[i] = IF i <= Len(b) THEN b[i] ELSE z[i - Len(b)]
        BY <2>2, <3>1, ConcatProperties
    <3> QED BY <2>2, <2>3, <3>1, <3>2
  <2>6. (b \o z)[1] = h
      BY <2>2, <2>3, <2>4, <2>5 DEF b
  <2>7. (b \o z)[Len(w) + 2] = Footer
      BY <2>2, <2>3, <2>5
  <2>8. ASSUME NEW i \in 2..Len(w) + 1 PROVE (b \o z)[i] = w[i - 1]
    <3>1. i \in 1..Len(w) + 2 /\ i \in 1..1 + Len(w) /\ i <= 1 + Len(w) /\ ~(i <= 1)
        BY <2>3
    <3>2. (b \o z)[i] = b[i]
        BY <2>5, <3>1
    <3>3. b[i] = w[i - 1]
        BY <2>4, <3>1 DEF b
    <3> QED BY <3>2, <3>3
  <2> QED BY <2>5, <2>6, <2>7, <2>8 DEF b, a, z
<1>6. OldXml = <<Header(NPackages)>> \o w \o <<Footer>>
      /\ WholeXml = <<Header(Counted)>> \o w \o <<Footer>>
    BY DEF OldXml, WholeXml, w
<1>7. Header(NPackages) \in Block /\ Header(Counted) \in Block
    BY <1>0, <1>1, BlockIs
<1>8. Len(w) \in Nat
    BY <1>4, LenProperties
<1>9. /\ OldXml \in Seq(Block) /\ Len(OldXml) = Len(w) + 2
      /\ OldXml[1] = Header(NPackages) /\ OldXml[Len(w) + 2] = Footer
      /\ \A i \in 2..Len(w) + 1 : OldXml[i] = w[i - 1]
    BY <1>5, <1>6, <1>7
<1>10. /\ WholeXml \in Seq(Block) /\ Len(WholeXml) = Len(w) + 2
       /\ WholeXml[1] = Header(Counted) /\ WholeXml[Len(w) + 2] = Footer
       /\ \A i \in 2..Len(w) + 1 : WholeXml[i] = w[i - 1]
    BY <1>5, <1>6, <1>7
<1>11. ASSUME NEW i \in 2..Len(OldXml)
       PROVE  WholeXml[i] = OldXml[i] /\ OldXml[i] # Header(NPackages)
  <2>1. CASE i = Len(w) + 2
      BY <1>9, <1>10, <2>1, TagsDiffer
  <2>2. CASE i # Len(w) + 2
    <3>1. i \in 2..Len(w) + 1 /\ i - 1 \in 1..Len(w)
        BY <1>8, <1>9, <2>2
    <3>2. w[i - 1] \in P
        BY <1>4, <3>1, ElementOfSeq
    <3>3. w[i - 1] # Header(NPackages)
        BY <3>2, TagsDiffer DEF P
    <3> QED BY <1>9, <1>10, <3>1, <3>3
  <2> QED BY <2>1, <2>2
<1>12. Len(OldXml) >= 2 /\ Len(WholeXml) = Len(OldXml)
    BY <1>8, <1>9, <1>10
<1> QED BY <1>1, <1>6, <1>9, <1>10, <1>11, <1>12

\* The header, and what of the file follows it in the first block.
LEMMA ModifiedIs ==
    ASSUME broken \in SUBSET Packages, rw.declared = NPackages, rw.actual = Counted,
           NEW pos \in 1..Len(OldXml)
    PROVE  Modified(SubSeq(OldXml, 1, pos)) = SubSeq(WholeXml, 1, pos)
<1> DEFINE bs == SubSeq(OldXml, 1, pos)
           ws == SubSeq(WholeXml, 1, pos)
           h == Header(NPackages)
<1>1. /\ OldXml \in Seq(Block) /\ WholeXml \in Seq(Block)
      /\ Len(WholeXml) = Len(OldXml) /\ Len(OldXml) \in Nat
      /\ OldXml[1] = h /\ WholeXml[1] = Header(Counted)
      /\ \A i \in 2..Len(OldXml) : WholeXml[i] = OldXml[i] /\ OldXml[i] # h
    BY FilesAre, LenProperties
<1>2. /\ bs \in Seq(Block) /\ Len(bs) = pos /\ \A i \in 1..pos : bs[i] = OldXml[i]
  <2>1. \A i \in 1..pos : OldXml[i] \in Block
      BY <1>1, ElementOfSeq
  <2> QED BY <2>1, SubSeqProperties
<1>3. /\ ws \in Seq(Block) /\ Len(ws) = pos /\ \A i \in 1..pos : ws[i] = WholeXml[i]
  <2>1. \A i \in 1..pos : WholeXml[i] \in Block
      BY <1>1, ElementOfSeq
  <2> QED BY <2>1, SubSeqProperties
<1> HIDE DEF bs, ws, h
<1>4. DOMAIN bs = 1..pos /\ DOMAIN ws = 1..pos /\ 1 \in 1..pos
    BY <1>2, <1>3, LenProperties
<1>5. bs[1] = h /\ ws[1] = Header(Counted)
    BY <1>1, <1>2, <1>3, <1>4
<1>6. h \in ToSet(bs)
    BY <1>4, <1>5 DEF ToSet
<1>7. Modified(bs) = [i \in DOMAIN bs |-> IF bs[i] = h THEN Header(Counted) ELSE bs[i]]
    BY <1>6 DEF Modified, h
<1>8. ASSUME NEW i \in 1..pos
      PROVE  (IF bs[i] = h THEN Header(Counted) ELSE bs[i]) = ws[i]
  <2>1. CASE i = 1
      BY <1>5, <2>1
  <2>2. CASE i # 1
    <3>1. i \in 2..Len(OldXml)
        BY <1>1, <2>2
    <3> QED BY <1>1, <1>2, <1>3, <3>1
  <2> QED BY <2>1, <2>2
<1>9. ws = [i \in 1..pos |-> ws[i]]
    BY <1>3, LenProperties
<1>10. Modified(bs) = ws
    BY <1>4, <1>7, <1>8, <1>9
<1> QED BY <1>10 DEF bs, ws

\* Going on in a file from a place beyond which it does not change.
LEMMA Joined ==
    ASSUME NEW old \in Seq(Block), NEW new \in Seq(Block), Len(new) = Len(old),
           NEW q \in 0..Len(old), NEW pos \in q..Len(old),
           \A i \in q + 1..Len(old) : new[i] = old[i]
    PROVE  /\ SubSeq(new, 1, q) \o SubSeq(old, q + 1, pos) = SubSeq(new, 1, pos)
           /\ Len(SubSeq(new, 1, pos)) = pos
           /\ SubSeq(old, q + 1, pos) = <<>> <=> pos = q
<1> DEFINE a == SubSeq(new, 1, q)
           b == SubSeq(old, q + 1, pos)
           c == SubSeq(new, 1, pos)
<1>1. /\ old \in Seq(Block) /\ new \in Seq(Block)
      /\ Len(new) = Len(old) /\ Len(old) \in Nat
      /\ \A i \in q + 1..Len(old) : new[i] = old[i]
    BY LenProperties
<1>n. q \in Nat /\ pos \in Nat /\ q <= pos /\ pos <= Len(old)
    BY <1>1
<1>2. a \in Seq(Block) /\ Len(a) = q /\ \A i \in 1..q : a[i] = new[i]
  <2>1. \A i \in 1..q : new[i] \in Block
      BY <1>1, ElementOfSeq
  <2> QED BY <2>1, SubSeqProperties
<1>3. b \in Seq(Block) /\ Len(b) = pos - q /\ \A i \in 1..pos - q : b[i] = old[q + i]
  <2>1. q + 1 \in Int /\ pos \in Int /\ \A i \in q + 1..pos : old[i] \in Block
      BY <1>1, ElementOfSeq
  <2>2. /\ b \in Seq(Block) /\ Len(b) = IF q + 1 <= pos THEN pos - (q + 1) + 1 ELSE 0
        /\ \A i \in 1..pos - (q + 1) + 1 : b[i] = old[(q + 1) + i - 1]
      BY <2>1, SubSeqProperties
  <2> HIDE DEF b
  <2>3. pos - (q + 1) + 1 = pos - q /\ \A i \in Int : (q + 1) + i - 1 = q + i
      OBVIOUS
  <2>4. Len(b) = pos - q
      BY <2>2
  <2>5. ASSUME NEW i \in 1..pos - q PROVE b[i] = old[q + i]
    <3>1. i \in 1..pos - (q + 1) + 1 /\ i \in Int
        BY <1>n, <2>3
    <3> QED BY <2>2, <2>3, <3>1
  <2> QED BY <2>2, <2>4, <2>5
<1>4. c \in Seq(Block) /\ Len(c) = pos /\ \A i \in 1..pos : c[i] = new[i]
  <2>1. pos \in Nat /\ \A i \in 1..pos : new[i] \in Block
      BY <1>1, ElementOfSeq
  <2> QED BY <2>1, SubSeqProperties
<1> HIDE DEF a, b, c
<1>5. /\ a \o b \in Seq(Block) /\ Len(a \o b) = pos
      /\ \A i \in 1..pos : (a \o b)[i] = IF i <= q THEN a[i] ELSE b[i - q]
  <2>0. a \in Seq(Block) /\ b \in Seq(Block)
      BY <1>2, <1>3
  <2>1. /\ a \o b \in Seq(Block) /\ Len(a \o b) = Len(a) + Len(b)
        /\ \A i \in 1..Len(a) + Len(b) : (a \o b)[i] = IF i <= Len(a) THEN a[i] ELSE b[i - Len(a)]
      BY <2>0, ConcatProperties
  <2>2. Len(a) + Len(b) = pos
      BY <1>2, <1>3
  <2> QED BY <1>2, <2>1, <2>2
<1>6. ASSUME NEW i \in 1..pos PROVE (a \o b)[i] = c[i]
  <2>1. CASE i <= q
      BY <1>2, <1>4, <1>5, <2>1
  <2>2. CASE i > q
    <3>1. i - q \in 1..pos - q /\ q + (i - q) = i /\ i \in q + 1..Len(old)
        BY <1>n, <2>2
    <3>2. (a \o b)[i] = b[i - q]
        BY <1>n, <1>5, <2>2
    <3>3. b[i - q] = old[i]
        BY <1>3, <3>1
    <3> QED BY <1>1, <1>4, <3>1, <3>2, <3>3
  <2>3. i <= q \/ i > q
      BY <1>n
  <2> QED BY <2>1, <2>2, <2>3
<1>7. a \o b = c
    BY <1>4, <1>5, <1>6, SeqEqual
<1>8. b = <<>> <=> pos = q
    BY <1>3, EmptySeq
<1> QED BY <1>4, <1>7, <1>8 DEF a, b, c

\* Going on in the file beyond the header.
LEMMA GoesOn ==
    ASSUME broken \in SUBSET Packages,
           NEW q \in 1..Len(OldXml), NEW pos \in q..Len(OldXml)
    PROVE  /\ SubSeq(WholeXml, 1, q) \o SubSeq(OldXml, q + 1, pos) = SubSeq(WholeXml, 1, pos)
           /\ Len(SubSeq(WholeXml, 1, pos)) = pos
           /\ SubSeq(OldXml, q + 1, pos) = <<>> <=> pos = q
<1>1. /\ OldXml \in Seq(Block) /\ WholeXml \in Seq(Block)
      /\ Len(WholeXml) = Len(OldXml) /\ Len(OldXml) \in Nat
      /\ \A i \in 2..Len(OldXml) : WholeXml[i] = OldXml[i]
    BY FilesAre, LenProperties
<1> HIDE DEF OldXml, WholeXml
<1>2. q \in 0..Len(OldXml) /\ \A i \in q + 1..Len(OldXml) : WholeXml[i] = OldXml[i]
    BY <1>1
<1> QED BY <1>1, <1>2, Joined, ZenonT(60)

\* Where chunks end: after each block, or after each block but the first.
Upto(n)  == [i \in 1..n |-> i]
After(n) == [i \in 1..n |-> i + 1]

LEMMA EndsGrow ==
    ASSUME NEW n \in Nat
    PROVE  /\ Upto(n) \in Seq(Nat) /\ Len(Upto(n)) = n
           /\ After(n) \in Seq(Nat) /\ Len(After(n)) = n
           /\ Upto(0) = <<>> /\ After(0) = <<>>
           /\ CutAt(Upto(n), n + 1) = Upto(n + 1)
           /\ CutAt(Upto(n), n) = Upto(n)
           /\ CutAt(After(n), n + 2) = After(n + 1)
           /\ n # 0 => CutAt(After(n), n + 1) = After(n)
<1>1. /\ Upto(n) \in Seq(Nat) /\ Len(Upto(n)) = n /\ \A i \in 1..n : Upto(n)[i] = i
      /\ After(n) \in Seq(Nat) /\ Len(After(n)) = n /\ \A i \in 1..n : After(n)[i] = i + 1
    BY DEF Upto, After
<1>2. Upto(0) = <<>> /\ After(0) = <<>>
    BY DEF Upto, After
<1>3. n # 0 => /\ Upto(n) # <<>> /\ Last(Upto(n)) = n
               /\ After(n) # <<>> /\ Last(After(n)) = n + 1
    BY <1>1 DEF Last
<1>4. Append(Upto(n), n + 1) = Upto(n + 1)
    BY DEF Upto
<1>5. Append(After(n), n + 2) = After(n + 1)
    BY DEF After
<1>6. CASE n = 0
    BY <1>1, <1>2, <1>4, <1>5, <1>6 DEF CutAt
<1>7. CASE n # 0
  <2> DEFINE u == Upto(n)
             a == After(n)
             u1 == Upto(n + 1)
             a1 == After(n + 1)
  <2> HIDE DEF u, a, u1, a1
  <2>1. u # <<>> /\ Last(u) = n /\ a # <<>> /\ Last(a) = n + 1
      BY <1>3, <1>7 DEF u, a
  <2>2. Append(u, n + 1) = u1 /\ Append(a, n + 2) = a1
      BY <1>4, <1>5 DEF u, a, u1, a1
  <2>3. /\ CutAt(u, n + 1) = u1 /\ CutAt(u, n) = u
        /\ CutAt(a, n + 2) = a1 /\ CutAt(a, n + 1) = a
      BY <2>1, <2>2 DEF CutAt
  <2> QED BY <1>1, <1>2, <2>3 DEF u, a, u1, a1
<1> QED BY <1>6, <1>7

-----------------------------------------------------------------------------
(* XML: the invariant.                                                     *)

Clean == hadErrors \subseteq {"package"}
Good  == Clean /\ codec \notin Blind
Done  == NPackages - Len(left)
Shut  == open["in"] = Closed /\ open["out"] = Closed

\* The packages that are still to come.
LeftOK ==
    /\ left \in Seq(Nat) /\ Len(left) <= NPackages
    /\ \A i \in 1..Len(left) : left[i] = Done + i

\* What has been written, and where the chunks end.
Begun(data, cuts) ==
    /\ ~xml.header => ~xml.footer /\ data = <<>> /\ WrittenTo[Done] = <<>>
    /\ xml.header /\ ~xml.footer => data = <<Header(NPackages)>> \o WrittenTo[Done]
    /\ xml.footer => xml.header /\ data = OldXml
    /\ codec = "zck" => cuts = Upto(IF xml.footer THEN Len(data) - 1 ELSE Len(data))

Opening   == LeftOK /\ Len(left) = NPackages /\ Shut
Numbering ==
    /\ LeftOK /\ Len(left) = NPackages /\ open["in"] = Closed
    /\ xml = NoXml /\ OutIs(XmlName, codec, <<>>, <<>>)
Dumping ==
    /\ LeftOK /\ open["in"] = Closed
    /\ xml = [header |-> xml.header, footer |-> xml.footer, pkgs |-> NPackages]
    /\ xml.header \in BOOLEAN /\ xml.footer \in BOOLEAN
    /\ \E data, cuts : /\ OutIs(XmlName, codec, data, cuts)
                       /\ Clean => Begun(data, cuts)

\* The file as it was closed first, and the one that is to replace it.
OldIs ==
    /\ XmlName \in DOMAIN disk
    /\ codec \notin Blind => disk[XmlName].whole
    /\ disk[XmlName].whole => disk[XmlName].content = mdStat
    /\ Clean => mdStat = OldXml
    /\ Clean /\ codec = "zck" => disk[XmlName].cuts = Upto(Len(OldXml))
NewIs(name) ==
    /\ name \in DOMAIN disk
    /\ codec \notin Blind => disk[name].whole
    /\ disk[name].whole => disk[name].content = stat
    /\ Good => stat = WholeXml
    /\ Good /\ codec = "zck" => disk[name].cuts = After(Len(OldXml) - 1)

\* The copy as far as place q of the file.
Copied(data, cuts, q) ==
    /\ q \in 1..Len(OldXml) /\ data = SubSeq(WholeXml, 1, q)
    /\ codec = "zck" => cuts = After(q - 1)

NewName == Tmp(XmlName)

AtModify ==
    \E pos \in Nat :
        /\ InIs(XmlName, codec, pos) /\ OutIs(NewName, codec, <<>>, <<>>)
        /\ Good => /\ pos \in 1..Len(OldXml) /\ block = SubSeq(OldXml, 1, pos)
                   /\ codec = "zck" => pos = 1
AtRead ==
    \E pos, data, cuts :
        /\ InIs(XmlName, codec, pos) /\ OutIs(NewName, codec, data, cuts)
        /\ Good => Copied(data, cuts, pos)
AtWrite ==
    \E pos, q, data, cuts :
        /\ pos \in Nat
        /\ InIs(XmlName, codec, pos) /\ OutIs(NewName, codec, data, cuts)
        /\ Good => /\ Copied(data, cuts, q) /\ pos \in q..Len(OldXml)
                   /\ block = SubSeq(OldXml, q + 1, pos)
                   /\ pos = q => q = Len(OldXml)
                   /\ codec = "zck" => pos <= q + 1
AtCloseNew ==
    \E pos, data, cuts :
        /\ InIs(XmlName, codec, pos) /\ OutIs(NewName, codec, data, cuts)
        /\ Good => Copied(data, cuts, Len(OldXml))
AtCloseOld ==
    /\ NewIs(NewName) /\ open["out"] = Closed
    /\ \E pos : InIs(XmlName, codec, pos)

RwOK == rw = [pc |-> rw.pc, name |-> XmlName, declared |-> NPackages, actual |-> Counted]

Rewriting ==
    /\ RwOK
    /\ rw.pc # "done"    => OldIs
    /\ rw.pc = "done"    => NewIs(XmlName)
    /\ rw.pc = "open"    => Shut
    /\ rw.pc = "create"  => InIs(XmlName, codec, 0) /\ open["out"] = Closed
    /\ rw.pc = "header"  => InIs(XmlName, codec, 0) /\ OutIs(NewName, codec, <<>>, <<>>)
    /\ rw.pc = "modify"  => AtModify
    /\ rw.pc = "read"    => AtRead
    /\ rw.pc = "write"   => AtWrite
    /\ rw.pc = "closenew" => AtCloseNew
    /\ rw.pc = "closeold" => AtCloseOld
    /\ rw.pc = "move"    => NewIs(NewName) /\ Shut

Recording ==
    /\ XmlName \in DOMAIN disk
    /\ codec \notin Blind => disk[XmlName].whole
    /\ disk[XmlName].whole => disk[XmlName].content = mdStat
    /\ Good => mdStat = WholeXml
    /\ Good /\ codec = "zck" =>
         disk[XmlName].cuts = ChunkEnds(IF Counted = NPackages THEN 0 ELSE 1)

XmlInv ==
    /\ flow = "xml" /\ codec \in Codecs /\ broken \in SUBSET Packages
    /\ FilesOK
    /\ pc \in {"open", "number", "pool", "count", "rewrite", "record", "end"}
    /\ pc # "end"     => exit = "running" /\ records = <<>>
    /\ pc = "open"    => Opening
    /\ pc = "number"  => Numbering
    /\ pc = "pool"    => Dumping
    /\ pc = "count"   => OldIs /\ Shut
    /\ pc = "rewrite" => Rewriting /\ Counted # NPackages
    /\ pc = "record"  => Recording
    /\ pc = "end"     => StatusTells /\ FilesDescribed

-----------------------------------------------------------------------------
(* Rewriting the header.                                                   *)

LEMMA NamesAre ==
    ASSUME codec \in Codecs
    PROVE  /\ NewName # XmlName
           /\ Suffix(XmlName) = codec /\ Suffix(NewName) = codec
           /\ Detect(XmlName) = codec
<1>1. codec # "unknown"
    BY DEF Codecs
<1>2. XmlName[1] = "primary.xml" /\ NewName[1] = "primary.xml" \o ".tmp"
      /\ XmlName[2] = codec /\ NewName[2] = codec
    BY DEF XmlName, NewName, Tmp
<1>3. NewName # XmlName
    BY <1>2, MetadataFilesAssumption
<1> QED BY <1>1, <1>2, <1>3 DEF Suffix, Detect

LEMMA Fixed ==
    ASSUME UNCHANGED <<flow, codec, broken>>
    PROVE  /\ XmlName' = XmlName /\ NewName' = NewName /\ Counted' = Counted
           /\ WrittenTo' = WrittenTo /\ OldXml' = OldXml /\ WholeXml' = WholeXml
<1>1. XmlName' = XmlName /\ Counted' = Counted
    BY DEF XmlName, Counted
<1>2. NewName' = NewName
    BY <1>1 DEF NewName, Tmp
<1>3. WrittenTo' = WrittenTo
    BY DEF WrittenTo
<1>4. Written' = Written
    BY <1>3 DEF Written
<1> QED BY <1>1, <1>2, <1>3, <1>4 DEF OldXml, WholeXml

LEMMA OldStays ==
    ASSUME OldIs, UNCHANGED <<flow, codec, broken, mdStat, hadErrors>>,
           XmlName \in DOMAIN disk', disk'[XmlName] = disk[XmlName]
    PROVE  OldIs'
BY Fixed DEF OldIs, Clean

LEMMA RewriteFacts ==
    ASSUME XmlInv, RewriteStep
    PROVE  /\ codec \in Codecs /\ broken \in SUBSET Packages /\ FilesOK
           /\ Rewriting /\ Rewrite /\ pc = "rewrite"
           /\ rw.name = XmlName /\ rw.declared = NPackages /\ rw.actual = Counted
           /\ IsZck <=> codec = "zck"
           /\ UNCHANGED <<flow, codec, broken, mdStat, hadErrors, pc, records, exit, left>>
           /\ Good' = Good
<1>1. /\ codec \in Codecs /\ broken \in SUBSET Packages /\ FilesOK
      /\ Rewrite /\ pc = "rewrite" /\ (pc = "rewrite" => Rewriting)
      /\ UNCHANGED <<flow, codec, broken, mdStat, hadErrors, pc, records, exit, left>>
    BY DEF XmlInv, RewriteStep, Same, Quiet
<1>2. rw.name = XmlName /\ rw.declared = NPackages /\ rw.actual = Counted
  <2> DEFINE r == [pc |-> rw.pc, name |-> XmlName, declared |-> NPackages, actual |-> Counted]
  <2>1. r.name = XmlName /\ r.declared = NPackages /\ r.actual = Counted
      OBVIOUS
  <2>2. rw = r
      BY <1>1 DEF Rewriting, RwOK
  <2> HIDE DEF r
  <2> QED BY <2>1, <2>2
<1>3. IsZck <=> codec = "zck"
    BY <1>1, <1>2, NamesAre DEF IsZck
<1>4. Good' = Good
    BY <1>1 DEF Good, Clean
<1> QED BY <1>1, <1>2, <1>3, <1>4

\* The call goes on, at another place.
LEMMA RewriteGoes ==
    ASSUME XmlInv, RewriteStep, NEW p, Goto(p)
    PROVE  /\ rw'.pc = p
           /\ RwOK'
<1> DEFINE r == [pc |-> rw.pc, name |-> XmlName, declared |-> NPackages, actual |-> Counted]
           t == [pc |-> p, name |-> XmlName, declared |-> NPackages, actual |-> Counted]
<1>1. rw = r
    BY RewriteFacts DEF Rewriting, RwOK
<1>2. [r EXCEPT !.pc = p] = t /\ t.pc = p
    OBVIOUS
<1>3. rw' = t
  <2> HIDE DEF r, t
  <2> QED BY <1>1, <1>2 DEF Goto
<1>4. rw'.pc = p
    BY <1>2, <1>3
<1>5. XmlName' = XmlName /\ Counted' = Counted
    BY RewriteFacts, Fixed
<1>6. RwOK'
    BY <1>3, <1>4, <1>5 DEF RwOK
<1> QED BY <1>4, <1>6

LEMMA RewriteFails ==
    ASSUME XmlInv, RewriteStep, Goto("failed"), FilesOK', OldIs'
    PROVE  FilesOK' /\ Rewriting'
<1>1. /\ rw'.pc = "failed"
      /\ RwOK'
    BY RewriteGoes
<1> QED BY <1>1 DEF Rewriting

LEMMA OldOpened ==
    ASSUME XmlInv, RewriteStep, RewriteOpenOld
    PROVE  FilesOK' /\ Rewriting'
<1>1. /\ FilesOK /\ codec \in Codecs /\ rw.name = XmlName
      /\ UNCHANGED <<flow, codec, broken, mdStat, hadErrors>>
      /\ rw.pc = "open" /\ Shut /\ OldIs
    BY RewriteFacts DEF RewriteOpenOld, Rewriting
<1>2. PICK nm : nm = XmlName
    OBVIOUS
<1>3. PICK c : c = codec
    OBVIOUS
<1>4. OpenRead("in", nm, c) /\ OrFail("create")
    BY <1>1, <1>2, <1>3, NamesAre DEF RewriteOpenOld
<1>5. ~Writing
    BY <1>1 DEF Shut, Closed, Writing
<1>6. /\ FilesOK' /\ InIs(nm, c, 0)' /\ open'["out"] = open["out"] /\ err' = FALSE
      /\ disk' = disk
    BY <1>1, <1>4, <1>5, OpenReadIs
<1>7. /\ rw'.pc = "create"
      /\ RwOK'
  <2>1. Goto("create")
      BY <1>4, <1>6 DEF OrFail
  <2> QED BY <2>1, RewriteGoes
<1>8. InIs(XmlName, codec, 0)' /\ open'["out"] = Closed
    BY <1>1, <1>2, <1>3, <1>6, Fixed DEF Shut, InIs
<1>9. OldIs'
    BY <1>1, <1>6, OldStays DEF OldIs
<1> QED BY <1>6, <1>7, <1>8, <1>9 DEF Rewriting

LEMMA NewOpened ==
    ASSUME XmlInv, RewriteStep, RewriteOpenNew
    PROVE  FilesOK' /\ Rewriting'
<1>1. /\ FilesOK /\ codec \in Codecs /\ rw.name = XmlName
      /\ UNCHANGED <<flow, codec, broken, mdStat, hadErrors>>
      /\ rw.pc = "create" /\ OldIs /\ InIs(XmlName, codec, 0)
    BY RewriteFacts DEF RewriteOpenNew, Rewriting
<1>2. PICK nm : nm = NewName
    OBVIOUS
<1>3. PICK c : c = codec
    OBVIOUS
<1>4. /\ IF Exists(nm) THEN OpenFails ELSE OpenWrite("out", nm, c)
      /\ OrFail("header")
    BY <1>1, <1>2, <1>3, NamesAre DEF RewriteOpenNew, XmlOpen, NewName
<1>5. nm # XmlName
    BY <1>1, <1>2, NamesAre
<1>6. CASE Exists(nm)
  <2>1. UNCHANGED <<disk, room, open, block>> /\ err' = TRUE
      BY <1>4, <1>6 DEF OpenFails
  <2>2. FilesOK'
      BY <1>1, <2>1 DEF FilesOK, FileOK, OutOK, InOK, Writing, Reading
  <2>3. OldIs'
      BY <1>1, <2>1, OldStays DEF OldIs
  <2> QED BY <1>4, <2>1, <2>2, <2>3, RewriteFails DEF OrFail
<1>7. CASE ~Exists(nm)
  <2>1. Reading => open["in"].name # nm
      BY <1>1, <1>5, InFacts DEF InIs
  <2>2. /\ FilesOK' /\ OutIs(nm, c, <<>>, <<>>)'
        /\ DOMAIN disk' = DOMAIN disk \union {nm}
        /\ \A n \in DOMAIN disk : n # nm => disk'[n] = disk[n]
        /\ open'["in"] = open["in"] /\ err' = FALSE
      BY <1>1, <1>4, <1>7, <2>1, OpenWriteIs
  <2>3. /\ rw'.pc = "header"
        /\ RwOK'
    <3>1. Goto("header")
        BY <1>4, <2>2 DEF OrFail
    <3> QED BY <3>1, RewriteGoes
  <2>4. InIs(XmlName, codec, 0)' /\ OutIs(NewName, codec, <<>>, <<>>)'
      BY <1>1, <1>2, <1>3, <2>2, Fixed DEF InIs, OutIs
  <2>5. OldIs'
      BY <1>1, <1>5, <2>2, OldStays DEF OldIs
  <2> QED BY <2>2, <2>3, <2>4, <2>5 DEF Rewriting
<1> QED BY <1>6, <1>7

\* What is read of the old file: in a zchunk file one chunk, which is one block.
LEMMA OldRead ==
    ASSUME XmlInv, RewriteStep, OldIs, NEW nm, NEW c, nm = XmlName, c = codec,
           NEW pos \in Nat, InIs(nm, c, pos),
           IF IsZck THEN ReadZchunk("in") ELSE \E n \in 1..2 : Read("in", n)
    PROVE  /\ FilesOK' /\ open'["out"] = open["out"] /\ UNCHANGED <<disk, room, stat>>
           /\ \E upto \in Nat :
                /\ InIs(nm, c, upto)'
                /\ Good => /\ upto \in pos..Len(OldXml)
                           /\ block' = SubSeq(OldXml, pos + 1, upto)
                           /\ upto = pos => pos = Len(OldXml)
                           /\ codec = "zck" => upto <= pos + 1
<1>1. /\ FilesOK /\ codec \in Codecs /\ broken \in SUBSET Packages
      /\ IsZck <=> codec = "zck"
    BY RewriteFacts
<1>2. /\ nm \in DOMAIN disk /\ pos <= Len(disk[nm].content) /\ Len(disk[nm].content) \in Nat
      /\ disk[nm].cuts \in Seq(Nat)
    BY <1>1, InFacts
<1>3. Good => /\ disk[nm].whole /\ disk[nm].content = OldXml
              /\ codec = "zck" => disk[nm].cuts = Upto(Len(OldXml))
    BY DEF OldIs, Good
<1>4. CASE codec = "zck"
  <2>1. ReadZchunk("in")
      BY <1>1, <1>4
  <2>2. Within(disk[nm].cuts, disk[nm].content)
    <3>1. disk[nm].whole
        BY <1>4 DEF OldIs, Blind
    <3> QED BY <1>1, <1>2, <3>1 DEF FilesOK, FileOK
  <2>3. /\ FilesOK' /\ open'["out"] = open["out"] /\ UNCHANGED <<disk, room, stat>>
        /\ \E upto \in pos..Len(disk[nm].content) :
             /\ InIs(nm, c, upto)'
             /\ block' = SubSeq(disk[nm].content, pos + 1, upto)
             /\ \/ upto = pos /\ \A i \in DOMAIN disk[nm].cuts : disk[nm].cuts[i] <= pos
                \/ /\ \E i \in DOMAIN disk[nm].cuts : upto = disk[nm].cuts[i]
                   /\ upto > pos
                   /\ \A i \in DOMAIN disk[nm].cuts :
                        disk[nm].cuts[i] > pos => upto <= disk[nm].cuts[i]
      BY <1>1, <2>1, <2>2, ReadZchunkIs, ZenonT(60)
  <2>4. PICK upto \in pos..Len(disk[nm].content) :
          /\ InIs(nm, c, upto)'
          /\ block' = SubSeq(disk[nm].content, pos + 1, upto)
          /\ \/ upto = pos /\ \A i \in DOMAIN disk[nm].cuts : disk[nm].cuts[i] <= pos
             \/ /\ \E i \in DOMAIN disk[nm].cuts : upto = disk[nm].cuts[i]
                /\ upto > pos
                /\ \A i \in DOMAIN disk[nm].cuts :
                     disk[nm].cuts[i] > pos => upto <= disk[nm].cuts[i]
      BY <2>3
  <2>5. upto \in Nat /\ upto >= pos /\ upto <= Len(disk[nm].content)
      BY <1>2
  <2>6. ASSUME Good
        PROVE  /\ upto \in pos..Len(OldXml)
               /\ block' = SubSeq(OldXml, pos + 1, upto)
               /\ upto = pos => pos = Len(OldXml)
               /\ upto <= pos + 1
    <3> DEFINE L == Len(OldXml)
    <3>1. L \in Nat
        BY <1>1, FilesAre, LenProperties
    <3>2. disk[nm].content = OldXml /\ disk[nm].cuts = Upto(L)
        BY <1>3, <1>4, <2>6
    <3>3. DOMAIN disk[nm].cuts = 1..L /\ \A i \in 1..L : disk[nm].cuts[i] = i
      <4>1. DOMAIN Upto(L) = 1..L /\ \A i \in 1..L : Upto(L)[i] = i
          BY <3>1 DEF Upto
      <4> QED BY <3>2, <4>1
    <3>4. pos <= L /\ upto <= L
        BY <1>2, <2>5, <3>2
    <3> HIDE DEF L
    <3>5. \/ upto = pos /\ \A i \in 1..L : i <= pos
          \/ upto > pos /\ \A i \in 1..L : i > pos => upto <= i
        BY <2>4, <3>3
    <3>6. CASE upto = pos /\ \A i \in 1..L : i <= pos
      <4>1. L <= pos
        <5>1. CASE L = 0
            BY <5>1
        <5>2. CASE L # 0
          <6>1. L \in 1..L
              BY <3>1, <5>2
          <6> QED BY <3>6, <6>1
        <5> QED BY <5>1, <5>2
      <4>2. pos = L
          BY <3>1, <3>4, <4>1
      <4> QED BY <2>4, <2>5, <3>2, <3>4, <3>6, <4>2 DEF L
    <3>7. CASE upto > pos /\ \A i \in 1..L : i > pos => upto <= i
      <4>1. pos + 1 \in 1..L
          BY <2>5, <3>1, <3>4, <3>7
      <4>2. upto <= pos + 1
          BY <3>7, <4>1
      <4> QED BY <2>4, <2>5, <3>1, <3>2, <3>4, <3>7, <4>2 DEF L
    <3> QED BY <3>5, <3>6, <3>7
  <2> QED BY <2>3, <2>4, <2>5, <2>6
<1>5. CASE codec # "zck"
  <2>1. PICK n \in 1..2 : Read("in", n)
      BY <1>1, <1>5
  <2>2. n \in Nat /\ n # 0
      OBVIOUS
  <2>3. /\ FilesOK' /\ open'["out"] = open["out"] /\ UNCHANGED <<disk, room, stat>>
        /\ \E upto \in pos..Len(disk[nm].content) :
             /\ InIs(nm, c, upto)'
             /\ upto = pos => upto = Len(disk[nm].content)
             /\ disk[nm].whole =>
                  ~err' /\ block' = SubSeq(disk[nm].content, pos + 1, upto)
      BY <1>1, <2>1, <2>2, ReadIs
  <2>4. PICK upto \in pos..Len(disk[nm].content) :
             /\ InIs(nm, c, upto)'
             /\ upto = pos => upto = Len(disk[nm].content)
             /\ disk[nm].whole => block' = SubSeq(disk[nm].content, pos + 1, upto)
      BY <2>3
  <2>5. upto \in Nat
      BY <1>2
  <2>6. ASSUME Good
        PROVE  /\ upto \in pos..Len(OldXml)
               /\ block' = SubSeq(OldXml, pos + 1, upto)
               /\ upto = pos => pos = Len(OldXml)
      BY <1>3, <2>4, <2>6
  <2> QED BY <1>5, <2>3, <2>4, <2>5, <2>6
<1> QED BY <1>4, <1>5

LEMMA HeaderRead ==
    ASSUME XmlInv, RewriteStep, RewriteReadHeader
    PROVE  FilesOK' /\ Rewriting'
<1>1. /\ FilesOK /\ codec \in Codecs /\ broken \in SUBSET Packages /\ Good' = Good
      /\ UNCHANGED <<flow, codec, broken, mdStat, hadErrors>>
      /\ rw.pc = "header" /\ OldIs
      /\ InIs(XmlName, codec, 0) /\ OutIs(NewName, codec, <<>>, <<>>)
    BY RewriteFacts DEF RewriteReadHeader, Rewriting
<1>2. PICK nm : nm = XmlName
    OBVIOUS
<1>3. PICK c : c = codec
    OBVIOUS
<1>4. /\ IF IsZck THEN ReadZchunk("in") ELSE \E n \in 1..2 : Read("in", n)
      /\ OrFail("modify")
    BY DEF RewriteReadHeader
<1>5. /\ FilesOK' /\ open'["out"] = open["out"] /\ UNCHANGED <<disk, room, stat>>
      /\ \E upto \in Nat :
           /\ InIs(nm, c, upto)'
           /\ Good => /\ upto \in 0..Len(OldXml)
                      /\ block' = SubSeq(OldXml, 0 + 1, upto)
                      /\ upto = 0 => 0 = Len(OldXml)
                      /\ codec = "zck" => upto <= 0 + 1
  <2>1. InIs(nm, c, 0) /\ 0 \in Nat
      BY <1>1, <1>2, <1>3
  <2> QED BY <1>1, <1>2, <1>3, <1>4, <2>1, OldRead
<1>6. PICK upto \in Nat :
           /\ InIs(nm, c, upto)'
           /\ Good => /\ upto \in 0..Len(OldXml)
                      /\ block' = SubSeq(OldXml, 1, upto)
                      /\ upto = 0 => 0 = Len(OldXml)
                      /\ codec = "zck" => upto <= 1
    BY <1>5
<1>7. OldIs'
    BY <1>1, <1>5, OldStays DEF OldIs
<1>8. CASE err'
    BY <1>4, <1>5, <1>7, <1>8, RewriteFails DEF OrFail
<1>9. CASE ~err'
  <2>1. rw'.pc = "modify" /\ RwOK'
    <3>1. Goto("modify")
        BY <1>4, <1>9 DEF OrFail
    <3> QED BY <3>1, RewriteGoes
  <2>2. InIs(XmlName, codec, upto)' /\ OutIs(NewName, codec, <<>>, <<>>)'
    <3>1. XmlName' = XmlName /\ NewName' = NewName
        BY <1>1, Fixed
    <3> QED BY <1>1, <1>2, <1>3, <1>5, <1>6, <3>1 DEF InIs, OutIs
  <2>3. Good' => /\ upto \in 1..Len(OldXml') /\ block' = SubSeq(OldXml', 1, upto)
                 /\ codec' = "zck" => upto = 1
    <3>1. OldXml' = OldXml /\ Len(OldXml) >= 2 /\ Len(OldXml) \in Nat
        BY <1>1, Fixed, FilesAre, LenProperties
    <3> HIDE DEF OldXml
    <3>2. SUFFICES ASSUME Good
                   PROVE  /\ upto \in 1..Len(OldXml) /\ block' = SubSeq(OldXml, 1, upto)
                          /\ codec = "zck" => upto = 1
        BY <1>1, <3>1
    <3>3. upto # 0
        BY <1>6, <3>1, <3>2
    <3> QED BY <1>6, <3>1, <3>2, <3>3
  <2>4. AtModify'
      BY <2>2, <2>3 DEF AtModify
  <2> QED BY <1>5, <1>7, <2>1, <2>4 DEF Rewriting
<1> QED BY <1>8, <1>9

\* What is written next is made of blocks.
LEMMA ModifiedType ==
    ASSUME broken \in SUBSET Packages, rw.actual = Counted, block \in Seq(Block)
    PROVE  Modified(block) \in Seq(Block)
<1>1. Header(Counted) \in Block
    BY FilesAre, BlockIs
<1>2. \A i \in 1..Len(block) : block[i] \in Block
    BY ElementOfSeq
<1>3. DOMAIN block = 1..Len(block) /\ Len(block) \in Nat
    BY LenProperties
<1> DEFINE b == [i \in DOMAIN block |-> IF block[i] = Header(rw.declared)
                                        THEN Header(rw.actual) ELSE block[i]]
<1>4. b \in Seq(Block)
  <2>1. \A i \in 1..Len(block) : (IF block[i] = Header(rw.declared)
                                  THEN Header(rw.actual) ELSE block[i]) \in Block
      BY <1>1, <1>2
  <2> QED BY <1>3, <2>1
<1>5. Modified(block) = b \/ Modified(block) = <<>>
    BY DEF Modified
<1>6. <<>> \in Seq(Block)
    OBVIOUS
<1> QED BY <1>4, <1>5, <1>6

\* Writing to the new file leaves the old one.
LEMMA OldKept ==
    ASSUME XmlInv, RewriteStep, OldIs, Only(NewName)
    PROVE  OldIs'
<1>1. XmlName \in DOMAIN disk' /\ disk'[XmlName] = disk[XmlName]
    BY RewriteFacts, NamesAre DEF Only, OldIs
<1> QED BY <1>1, RewriteFacts, OldStays

LEMMA HeaderModified ==
    ASSUME XmlInv, RewriteStep, RewriteHeader
    PROVE  FilesOK' /\ Rewriting'
<1>1. /\ FilesOK /\ codec \in Codecs /\ broken \in SUBSET Packages /\ Good' = Good
      /\ UNCHANGED <<flow, codec, broken, mdStat, hadErrors>>
      /\ rw.pc = "modify" /\ OldIs /\ AtModify
      /\ rw.declared = NPackages /\ rw.actual = Counted
    BY RewriteFacts DEF RewriteHeader, Rewriting
<1>2. PICK pos \in Nat :
        /\ InIs(XmlName, codec, pos) /\ OutIs(NewName, codec, <<>>, <<>>)
        /\ Good => /\ pos \in 1..Len(OldXml) /\ block = SubSeq(OldXml, 1, pos)
                   /\ codec = "zck" => pos = 1
    BY <1>1 DEF AtModify
<1>3. PICK nm : nm = NewName
    OBVIOUS
<1>4. PICK c : c = codec
    OBVIOUS
<1>5. /\ Write("out", Modified(block), FALSE)
      /\ OrFail(IF block = <<>> THEN "closenew" ELSE "read")
    BY DEF RewriteHeader
<1>6. \E b \in Seq(Block) : b = Modified(block)
  <2>1. block \in Seq(Block)
      BY <1>1 DEF FilesOK
  <2> QED BY <1>1, <2>1, ModifiedType
<1>7. PICK b \in Seq(Block) : b = Modified(block)
    BY <1>6
<1>8. /\ FilesOK' /\ Only(nm) /\ open'["in"] = open["in"]
      /\ OutIs(nm, c, b, <<>>)'
  <2>1. OutIs(nm, c, <<>>, <<>>) /\ Write("out", b, FALSE)
      BY <1>2, <1>3, <1>4, <1>5, <1>7
  <2>2. /\ FilesOK' /\ Only(nm) /\ open'["in"] = open["in"]
        /\ ~(FALSE /\ ~err') => OutIs(nm, c, <<>> \o b, <<>>)'
      BY <1>1, <2>1, WriteIs
  <2>3. <<>> \o b = b
      BY ConcatEmptySeq
  <2> QED BY <2>2, <2>3
<1>9. OldIs'
    BY <1>1, <1>3, <1>8, OldKept
<1>10. CASE err'
    BY <1>5, <1>8, <1>9, <1>10, RewriteFails DEF OrFail
<1>11. CASE ~err'
  <2>1. rw'.pc = (IF block = <<>> THEN "closenew" ELSE "read") /\ RwOK'
    <3>1. Goto(IF block = <<>> THEN "closenew" ELSE "read")
        BY <1>5, <1>11 DEF OrFail
    <3>2. CASE block = <<>>
      <4>1. Goto("closenew")
          BY <3>1, <3>2
      <4> QED BY <3>2, <4>1, RewriteGoes
    <3>3. CASE block # <<>>
      <4>1. Goto("read")
          BY <3>1, <3>3
      <4> QED BY <3>3, <4>1, RewriteGoes
    <3> QED BY <3>2, <3>3
  <2>2. InIs(XmlName, codec, pos)' /\ OutIs(NewName, codec, b, <<>>)'
    <3>1. XmlName' = XmlName /\ NewName' = NewName
        BY <1>1, Fixed
    <3> QED BY <1>1, <1>2, <1>3, <1>4, <1>8, <3>1 DEF InIs, OutIs
  <2>3. Good => block # <<>> /\ Copied(b, <<>>, pos)
    <3> SUFFICES ASSUME Good PROVE block # <<>> /\ Copied(b, <<>>, pos)
        OBVIOUS
    <3>1. pos \in 1..Len(OldXml) /\ block = SubSeq(OldXml, 1, pos) /\ (codec = "zck" => pos = 1)
        BY <1>2
    <3>2. b = SubSeq(WholeXml, 1, pos)
        BY <1>1, <1>7, <3>1, ModifiedIs
    <3>3. codec = "zck" => <<>> = After(pos - 1)
        BY <3>1, EndsGrow
    <3>4. block # <<>>
      <4>1. OldXml \in Seq(Block) /\ Len(OldXml) \in Nat
          BY <1>1, FilesAre, LenProperties
      <4>2. \A i \in 1..pos : OldXml[i] \in Block
          BY <3>1, <4>1, ElementOfSeq
      <4>3. Len(SubSeq(OldXml, 1, pos)) = pos /\ pos # 0
          BY <3>1, <4>1, <4>2, SubSeqProperties
      <4> QED BY <3>1, <4>3, EmptySeq
    <3> QED BY <3>1, <3>2, <3>3, <3>4 DEF Copied
  <2>4. Copied(b, <<>>, pos)' <=> Copied(b, <<>>, pos)
      BY <1>1, Fixed DEF Copied
  <2>5. block = <<>> => AtCloseNew'
      BY <1>1, <2>2, <2>3 DEF AtCloseNew
  <2>6. block # <<>> => AtRead'
      BY <1>1, <2>2, <2>3, <2>4 DEF AtRead
  <2> QED BY <1>8, <1>9, <2>1, <2>5, <2>6 DEF Rewriting
<1> QED BY <1>10, <1>11

LEMMA NextRead ==
    ASSUME XmlInv, RewriteStep, RewriteRead
    PROVE  FilesOK' /\ Rewriting'
<1>1. /\ FilesOK /\ codec \in Codecs /\ broken \in SUBSET Packages /\ Good' = Good
      /\ UNCHANGED <<flow, codec, broken, mdStat, hadErrors>>
      /\ rw.pc = "read" /\ OldIs /\ AtRead
    BY RewriteFacts DEF RewriteRead, Rewriting
<1>2. PICK nm : nm = XmlName
    OBVIOUS
<1>3. PICK c : c = codec
    OBVIOUS
<1>4. PICK q, data, cuts :
        /\ InIs(nm, c, q) /\ OutIs(NewName, codec, data, cuts)
        /\ Good => Copied(data, cuts, q)
    BY <1>1, <1>2, <1>3 DEF AtRead
<1>5. /\ IF IsZck THEN ReadZchunk("in") ELSE \E n \in 1..2 : Read("in", n)
      /\ OrFail("write")
    BY DEF RewriteRead
<1>6. q \in Nat
    BY <1>1, <1>4, InFacts
<1>7. /\ FilesOK' /\ open'["out"] = open["out"] /\ UNCHANGED <<disk, room, stat>>
      /\ \E upto \in Nat :
           /\ InIs(nm, c, upto)'
           /\ Good => /\ upto \in q..Len(OldXml)
                      /\ block' = SubSeq(OldXml, q + 1, upto)
                      /\ upto = q => q = Len(OldXml)
                      /\ codec = "zck" => upto <= q + 1
    BY <1>1, <1>2, <1>3, <1>4, <1>5, <1>6, OldRead
<1>8. PICK upto \in Nat :
           /\ InIs(nm, c, upto)'
           /\ Good => /\ upto \in q..Len(OldXml)
                      /\ block' = SubSeq(OldXml, q + 1, upto)
                      /\ upto = q => q = Len(OldXml)
                      /\ codec = "zck" => upto <= q + 1
    BY <1>7
<1>9. OldIs'
    BY <1>1, <1>7, OldStays DEF OldIs
<1>10. CASE err'
    BY <1>5, <1>7, <1>9, <1>10, RewriteFails DEF OrFail
<1>11. CASE ~err'
  <2>1. rw'.pc = "write" /\ RwOK'
    <3>1. Goto("write")
        BY <1>5, <1>11 DEF OrFail
    <3> QED BY <3>1, RewriteGoes
  <2>2. InIs(XmlName, codec, upto)' /\ OutIs(NewName, codec, data, cuts)'
    <3>1. XmlName' = XmlName /\ NewName' = NewName
        BY <1>1, Fixed
    <3> QED BY <1>1, <1>2, <1>3, <1>4, <1>7, <1>8, <3>1 DEF InIs, OutIs
  <2>3. Good' => /\ Copied(data, cuts, q)' /\ upto \in q..Len(OldXml')
                 /\ block' = SubSeq(OldXml', q + 1, upto)
                 /\ upto = q => q = Len(OldXml')
                 /\ codec' = "zck" => upto <= q + 1
    <3>1. OldXml' = OldXml /\ WholeXml' = WholeXml
        BY <1>1, Fixed
    <3>2. Copied(data, cuts, q)' <=> Copied(data, cuts, q)
        BY <1>1, <3>1 DEF Copied
    <3> QED BY <1>1, <1>4, <1>8, <3>1, <3>2
  <2>4. AtWrite'
      BY <2>2, <2>3 DEF AtWrite
  <2> QED BY <1>7, <1>9, <2>1, <2>4 DEF Rewriting
<1> QED BY <1>10, <1>11

LEMMA NextWritten ==
    ASSUME XmlInv, RewriteStep, RewriteWrite
    PROVE  FilesOK' /\ Rewriting'
<1>1. /\ FilesOK /\ codec \in Codecs /\ broken \in SUBSET Packages /\ Good' = Good
      /\ UNCHANGED <<flow, codec, broken, mdStat, hadErrors>>
      /\ rw.pc = "write" /\ OldIs /\ AtWrite /\ (IsZck <=> codec = "zck")
    BY RewriteFacts DEF RewriteWrite, Rewriting
<1>2. PICK pos, q, data, cuts :
        /\ pos \in Nat
        /\ InIs(XmlName, codec, pos) /\ OutIs(NewName, codec, data, cuts)
        /\ Good => /\ Copied(data, cuts, q) /\ pos \in q..Len(OldXml)
                   /\ block = SubSeq(OldXml, q + 1, pos)
                   /\ pos = q => q = Len(OldXml)
                   /\ codec = "zck" => pos <= q + 1
    BY <1>1 DEF AtWrite
<1>3. PICK nm : nm = NewName
    OBVIOUS
<1>4. PICK c : c = codec
    OBVIOUS
<1>5. /\ Write("out", block, IsZck)
      /\ OrFail(IF block = <<>> THEN "closenew" ELSE "read")
    BY DEF RewriteWrite
<1>6. PICK b \in Seq(Block) : b = block
    BY <1>1 DEF FilesOK
<1>7. PICK ends \in BOOLEAN : ends <=> codec = "zck"
  <2>1. (codec = "zck") \in BOOLEAN
      OBVIOUS
  <2> QED BY <2>1
<1>8. /\ FilesOK' /\ Only(nm) /\ open'["in"] = open["in"]
      /\ ends /\ ~err' => OutIs(nm, c, data \o b, CutAt(cuts, Len(data \o b)))'
      /\ ~(ends /\ ~err') => OutIs(nm, c, data \o b, cuts)'
  <2>1. OutIs(nm, c, data, cuts)
      BY <1>2, <1>3, <1>4
  <2>2. ends = IsZck
      BY <1>1, <1>7 DEF IsZck
  <2>3. Write("out", b, ends)
      BY <1>5, <1>6, <2>2
  <2> QED BY <1>1, <2>1, <2>3, WriteIs
<1>9. OldIs'
    BY <1>1, <1>3, <1>8, OldKept
<1>10. CASE err'
    BY <1>5, <1>8, <1>9, <1>10, RewriteFails DEF OrFail
<1>11. CASE ~err'
  <2>1. rw'.pc = (IF block = <<>> THEN "closenew" ELSE "read") /\ RwOK'
    <3>1. Goto(IF block = <<>> THEN "closenew" ELSE "read")
        BY <1>5, <1>11 DEF OrFail
    <3>2. CASE block = <<>>
      <4>1. Goto("closenew")
          BY <3>1, <3>2
      <4> QED BY <3>2, <4>1, RewriteGoes
    <3>3. CASE block # <<>>
      <4>1. Goto("read")
          BY <3>1, <3>3
      <4> QED BY <3>3, <4>1, RewriteGoes
    <3> QED BY <3>2, <3>3
  <2>2. PICK k : k = IF ends THEN CutAt(cuts, Len(data \o b)) ELSE cuts
      OBVIOUS
  <2>3. InIs(XmlName, codec, pos)' /\ OutIs(NewName, codec, data \o b, k)'
    <3>1. XmlName' = XmlName /\ NewName' = NewName
        BY <1>1, Fixed
    <3>2. OutIs(nm, c, data \o b, k)'
        BY <1>8, <1>11, <2>2
    <3> QED BY <1>1, <1>2, <1>3, <1>4, <1>8, <3>1, <3>2 DEF InIs, OutIs
  <2>4. Good => Copied(data \o b, k, pos) /\ (block = <<>> => pos = Len(OldXml))
    <3> SUFFICES ASSUME Good
                 PROVE  Copied(data \o b, k, pos) /\ (block = <<>> => pos = Len(OldXml))
        OBVIOUS
    <3>1. /\ q \in 1..Len(OldXml) /\ data = SubSeq(WholeXml, 1, q)
          /\ codec = "zck" => cuts = After(q - 1)
          /\ pos \in q..Len(OldXml) /\ b = SubSeq(OldXml, q + 1, pos)
          /\ pos = q => q = Len(OldXml)
          /\ codec = "zck" => pos <= q + 1
        BY <1>2, <1>6 DEF Copied
    <3>2. /\ data \o b = SubSeq(WholeXml, 1, pos) /\ Len(data \o b) = pos
          /\ b = <<>> <=> pos = q
        BY <1>1, <3>1, GoesOn
    <3>3. Len(OldXml) \in Nat /\ Len(OldXml) >= 2
        BY <1>1, FilesAre, LenProperties
    <3> HIDE DEF OldXml, WholeXml
    <3>4. pos \in 1..Len(OldXml)
        BY <3>1, <3>3
    <3>5. codec = "zck" => k = After(pos - 1)
      <4> SUFFICES ASSUME codec = "zck" PROVE k = After(pos - 1)
          OBVIOUS
      <4> DEFINE n == q - 1
      <4>1. k = CutAt(After(n), pos)
          BY <1>7, <2>2, <3>1, <3>2
      <4>2. n \in Nat /\ q = n + 1
          BY <3>1, <3>3
      <4>3. CASE pos = q
        <5>1. n # 0
            BY <3>1, <3>3, <4>2, <4>3
        <5>2. CutAt(After(n), n + 1) = After(n)
          <6> HIDE DEF n
          <6> QED BY <4>2, <5>1, EndsGrow
        <5> QED BY <4>1, <4>2, <4>3, <5>2
      <4>4. CASE pos # q
        <5>1. pos = n + 2 /\ pos - 1 = n + 1
            BY <3>1, <3>3, <4>2, <4>4
        <5>2. CutAt(After(n), n + 2) = After(n + 1)
          <6> HIDE DEF n
          <6> QED BY <4>2, EndsGrow
        <5> QED BY <4>1, <5>1, <5>2
      <4> QED BY <4>3, <4>4
    <3> QED BY <1>6, <3>1, <3>2, <3>4, <3>5 DEF Copied
  <2>5. OldXml' = OldXml /\ WholeXml' = WholeXml
      BY <1>1, Fixed
  <2>6. Copied(data \o b, k, pos)' <=> Copied(data \o b, k, pos)
      BY <1>1, <2>5 DEF Copied
  <2>7. block = <<>> => AtCloseNew'
    <3>1. block = <<>> /\ Good' => Copied(data \o b, k, Len(OldXml))'
        BY <1>1, <2>4, <2>5, <2>6
    <3> QED BY <2>3, <3>1 DEF AtCloseNew
  <2>8. block # <<>> => AtRead'
      BY <1>1, <2>3, <2>4, <2>6 DEF AtRead
  <2> QED BY <1>8, <1>9, <2>1, <2>7, <2>8 DEF Rewriting
<1> QED BY <1>10, <1>11

LEMMA NewClosed ==
    ASSUME XmlInv, RewriteStep, RewriteCloseNew
    PROVE  FilesOK' /\ Rewriting'
<1>1. /\ FilesOK /\ codec \in Codecs /\ broken \in SUBSET Packages /\ Good' = Good
      /\ UNCHANGED <<flow, codec, broken, mdStat, hadErrors>>
      /\ rw.pc = "closenew" /\ OldIs /\ AtCloseNew
    BY RewriteFacts DEF RewriteCloseNew, Rewriting
<1>2. PICK pos, data, cuts :
        /\ InIs(XmlName, codec, pos) /\ OutIs(NewName, codec, data, cuts)
        /\ Good => Copied(data, cuts, Len(OldXml))
    BY <1>1 DEF AtCloseNew
<1>3. PICK nm : nm = NewName
    OBVIOUS
<1>4. PICK c : c = codec
    OBVIOUS
<1>5. PICK seen \in BOOLEAN : CloseWritten("out", seen) /\ err' = seen
    BY DEF RewriteCloseNew
<1>6. OrFail("closeold")
    BY DEF RewriteCloseNew
<1>7. /\ FilesOK' /\ Only(nm) /\ nm \in DOMAIN disk
      /\ open'["in"] = open["in"] /\ open'["out"] = Closed /\ stat' = data
      /\ disk'[nm].cuts = CutAt(cuts, Len(data))
      /\ disk'[nm].whole => disk'[nm].content = data
      /\ c \notin Blind /\ ~seen => disk'[nm].whole
  <2>1. OutIs(nm, c, data, cuts) /\ err' \in BOOLEAN
      BY <1>2, <1>3, <1>4, <1>5
  <2> QED BY <1>1, <1>5, <2>1, CloseIs
<1>8. OldIs'
    BY <1>1, <1>3, <1>7, OldKept
<1>9. CASE err'
    BY <1>6, <1>7, <1>8, <1>9, RewriteFails DEF OrFail
<1>10. CASE ~err'
  <2>1. rw'.pc = "closeold" /\ RwOK'
    <3>1. Goto("closeold")
        BY <1>6, <1>10 DEF OrFail
    <3> QED BY <3>1, RewriteGoes
  <2>2. /\ XmlName' = XmlName /\ NewName' = NewName
        /\ OldXml' = OldXml /\ WholeXml' = WholeXml
      BY <1>1, Fixed
  <2>3. Good => /\ data = WholeXml
                /\ codec = "zck" => CutAt(cuts, Len(data)) = After(Len(OldXml) - 1)
    <3> SUFFICES ASSUME Good
                 PROVE  /\ data = WholeXml
                        /\ codec = "zck" => CutAt(cuts, Len(data)) = After(Len(OldXml) - 1)
        OBVIOUS
    <3>1. /\ data = SubSeq(WholeXml, 1, Len(OldXml))
          /\ codec = "zck" => cuts = After(Len(OldXml) - 1)
        BY <1>2 DEF Copied
    <3>2. /\ WholeXml \in Seq(Block) /\ Len(WholeXml) = Len(OldXml)
          /\ Len(OldXml) \in Nat /\ Len(OldXml) >= 2
        BY <1>1, FilesAre, LenProperties
    <3>3. data = WholeXml
        BY <3>1, <3>2, SubSeqFull
    <3> DEFINE n == Len(OldXml) - 1
    <3>4. n \in Nat /\ n # 0 /\ Len(data) = n + 1
        BY <3>2, <3>3
    <3>5. CutAt(After(n), n + 1) = After(n)
      <4> HIDE DEF n
      <4> QED BY <3>4, EndsGrow
    <3> QED BY <3>1, <3>3, <3>4, <3>5
  <2>4. NewIs(NewName)'
    <3>1. nm \in DOMAIN disk'
        BY <1>7 DEF Only
    <3> QED BY <1>1, <1>3, <1>4, <1>5, <1>7, <1>10, <2>2, <2>3, <3>1 DEF NewIs
  <2>5. InIs(XmlName, codec, pos)'
      BY <1>1, <1>2, <1>7, <2>2 DEF InIs
  <2>6. AtCloseOld'
      BY <1>7, <2>4, <2>5 DEF AtCloseOld
  <2> QED BY <1>7, <1>8, <2>1, <2>6 DEF Rewriting
<1> QED BY <1>9, <1>10

LEMMA OldClosed ==
    ASSUME XmlInv, RewriteStep, RewriteCloseOld
    PROVE  FilesOK' /\ Rewriting'
<1>1. /\ FilesOK /\ codec \in Codecs /\ broken \in SUBSET Packages /\ Good' = Good
      /\ UNCHANGED <<flow, codec, broken, mdStat, hadErrors>>
      /\ rw.pc = "closeold" /\ OldIs /\ AtCloseOld
    BY RewriteFacts DEF RewriteCloseOld, Rewriting
<1>2. CloseRead("in") /\ OrFail("move")
    BY DEF RewriteCloseOld
<1>3. /\ open' = [open EXCEPT !["in"] = Closed] /\ err' \in BOOLEAN
      /\ UNCHANGED <<disk, room, block, stat>>
    BY <1>2 DEF CloseRead
<1>4. FilesOK' /\ open'["out"] = open["out"] /\ open'["in"] = Closed
    BY <1>1, <1>3, ClosedInIs
<1>5. OldIs'
    BY <1>1, <1>3, OldStays DEF OldIs
<1>6. NewIs(NewName)' /\ Shut'
  <2>1. /\ NewName' = NewName /\ OldXml' = OldXml /\ WholeXml' = WholeXml
      BY <1>1, Fixed
  <2>2. NewIs(NewName) /\ open["out"] = Closed
      BY <1>1 DEF AtCloseOld
  <2>3. NewIs(NewName)'
      BY <1>1, <1>3, <2>1, <2>2 DEF NewIs
  <2> QED BY <1>4, <2>2, <2>3 DEF Shut
<1>7. CASE err'
    BY <1>2, <1>4, <1>5, <1>7, RewriteFails DEF OrFail
<1>8. CASE ~err'
  <2>1. rw'.pc = "move" /\ RwOK'
    <3>1. Goto("move")
        BY <1>2, <1>8 DEF OrFail
    <3> QED BY <3>1, RewriteGoes
  <2> QED BY <1>4, <1>5, <1>6, <2>1 DEF Rewriting
<1> QED BY <1>7, <1>8

LEMMA NewMoved ==
    ASSUME XmlInv, RewriteStep, RewriteMove
    PROVE  FilesOK' /\ Rewriting'
<1>1. /\ FilesOK /\ codec \in Codecs /\ Good' = Good
      /\ UNCHANGED <<flow, codec, broken>> /\ rw.name = XmlName
      /\ OldIs /\ NewIs(NewName) /\ Shut
    BY RewriteFacts DEF RewriteMove, Rewriting
<1>2. /\ disk' = [n \in DOMAIN disk \ {NewName} |-> IF n = XmlName THEN disk[NewName] ELSE disk[n]]
      /\ room' = room + Len(disk[XmlName].content)
      /\ UNCHANGED <<open, block, err, stat>>
      /\ Goto("done")
    BY <1>1 DEF RewriteMove, NewName
<1>3. NewName # XmlName /\ XmlName \in DOMAIN disk /\ NewName \in DOMAIN disk
    BY <1>1, NamesAre DEF OldIs, NewIs
<1>4. XmlName \in DOMAIN disk' /\ disk'[XmlName] = disk[NewName]
    BY <1>2, <1>3
<1>5. FilesOK'
  <2>1. \A n \in DOMAIN disk' : FileOK(disk'[n])
      BY <1>1, <1>2, <1>3 DEF FilesOK
  <2>2. room' \in Nat
    <3>1. Len(disk[XmlName].content) \in Nat
        BY <1>1, <1>3, LenProperties DEF FilesOK, FileOK
    <3> QED BY <1>1, <1>2, <3>1 DEF FilesOK
  <2>3. ~Writing' /\ ~Reading'
      BY <1>1, <1>2 DEF Shut, Closed, Writing, Reading
  <2> QED BY <1>1, <1>2, <2>1, <2>2, <2>3 DEF FilesOK
<1>6. rw'.pc = "done" /\ RwOK'
    BY <1>2, RewriteGoes
<1>7. /\ XmlName' = XmlName /\ OldXml' = OldXml /\ WholeXml' = WholeXml
    BY <1>1, Fixed
<1>8. NewIs(XmlName)'
    BY <1>1, <1>2, <1>4, <1>7 DEF NewIs
<1> QED BY <1>5, <1>6, <1>8 DEF Rewriting

LEMMA RewriteKeeps ==
    ASSUME XmlInv, RewriteStep
    PROVE  XmlInv'
<1>1. FilesOK' /\ Rewriting'
    BY RewriteFacts, OldOpened, NewOpened, HeaderRead, HeaderModified, NextRead,
       NextWritten, NewClosed, OldClosed, NewMoved DEF Rewrite
<1>2. UNCHANGED <<flow, codec, broken, pc, records, exit>> /\ pc = "rewrite"
    BY RewriteFacts
<1>3. Counted' # NPackages
    BY <1>2, Fixed DEF XmlInv
<1> QED BY <1>1, <1>2, <1>3 DEF XmlInv

-----------------------------------------------------------------------------
(* XML: writing the file.                                                  *)

\* An early exit leaves no record.
LEMMA LeftEarly ==
    ASSUME exit' = "1", records' = <<>>
    PROVE  StatusTells' /\ FilesDescribed'
<1>1. ~Published'
    BY DEF Published
<1>2. DOMAIN records' = {}
    OBVIOUS
<1> QED BY <1>1, <1>2 DEF StatusTells, FilesDescribed, RecordsDescribe, ChunksApart

LEMMA XmlStarted ==
    ASSUME XmlInv, XmlStart
    PROVE  XmlInv'
<1>1. /\ FilesOK /\ codec \in Codecs /\ broken \in SUBSET Packages /\ flow = "xml"
      /\ pc = "open" /\ Opening /\ records = <<>> /\ exit = "running"
      /\ UNCHANGED <<flow, codec, broken, left, records>>
    BY DEF XmlInv, XmlStart, Same
<1>2. PICK nm : nm = XmlName
    OBVIOUS
<1>3. PICK c : c = codec
    OBVIOUS
<1>4. /\ IF Exists(nm) THEN OpenFails ELSE OpenWrite("out", nm, c)
      /\ xml' = NoXml
      /\ IF err' THEN Exits("1") ELSE To("number") /\ UNCHANGED exit
    BY <1>1, <1>2, <1>3, NamesAre DEF XmlStart, XmlOpen
<1>5. CASE Exists(nm)
  <2>1. UNCHANGED <<disk, room, open, block>> /\ err' = TRUE
      BY <1>4, <1>5 DEF OpenFails
  <2>2. FilesOK'
      BY <1>1, <2>1 DEF FilesOK, FileOK, OutOK, InOK, Writing, Reading
  <2>3. exit' = "1" /\ pc' = "end" /\ records' = <<>>
      BY <1>1, <1>4, <2>1 DEF Exits, To
  <2>4. StatusTells' /\ FilesDescribed'
      BY <2>3, LeftEarly
  <2> QED BY <1>1, <2>2, <2>3, <2>4 DEF XmlInv
<1>6. CASE ~Exists(nm)
  <2>1. /\ FilesOK' /\ OutIs(nm, c, <<>>, <<>>)'
        /\ open'["in"] = open["in"] /\ err' = FALSE
    <3>1. ~Reading
        BY <1>1 DEF Reading, Closed, Opening, Shut
    <3> QED BY <1>1, <1>4, <1>6, <3>1, OpenWriteIs
  <2>2. pc' = "number" /\ exit' = exit
      BY <1>4, <2>1 DEF To
  <2>3. OutIs(XmlName, codec, <<>>, <<>>)' /\ open'["in"] = Closed
      BY <1>1, <1>2, <1>3, <2>1, Fixed DEF OutIs, Opening, Shut
  <2>4. Numbering'
      BY <1>1, <1>4, <2>3 DEF Numbering, Opening, LeftOK, Done
  <2> QED BY <1>1, <2>1, <2>2, <2>4 DEF XmlInv
<1> QED BY <1>5, <1>6

LEMMA NumberSet ==
    ASSUME XmlInv, SetNumber
    PROVE  XmlInv'
<1>1. /\ FilesOK /\ codec \in Codecs /\ broken \in SUBSET Packages /\ flow = "xml"
      /\ pc = "number" /\ Numbering /\ records = <<>> /\ exit = "running"
      /\ UNCHANGED <<flow, codec, broken, left, records, exit, hadErrors>> /\ pc' = "pool"
      /\ UNCHANGED <<disk, room, open, block, err, stat>>
    BY DEF XmlInv, SetNumber, Same, Quiet, To, fileVars
<1>2. xml' = [header |-> FALSE, footer |-> FALSE, pkgs |-> NPackages]
  <2>1. xml = NoXml
      BY <1>1 DEF Numbering
  <2> QED BY <2>1 DEF SetNumber, SetNumOfPkgs, NoXml
<1>3. FilesOK'
    BY <1>1 DEF FilesOK, FileOK, OutOK, InOK, Writing, Reading
<1>4. /\ xml'.header = FALSE /\ xml'.footer = FALSE
      /\ xml' = [header |-> xml'.header, footer |-> xml'.footer, pkgs |-> NPackages]
    BY <1>2
<1>5. LeftOK' /\ Done' = 0
    BY <1>1, MetadataFilesAssumption DEF Numbering, LeftOK, Done
<1>6. OutIs(XmlName, codec, <<>>, <<>>)' /\ open'["in"] = Closed
    BY <1>1, Fixed DEF Numbering, OutIs
<1>7. Begun(<<>>, <<>>)'
  <2>1. WrittenTo'[0] = <<>>
      BY <1>1, Fixed, WrittenIs
  <2>2. Len(<<>>) = 0 /\ Upto(0) = <<>>
      BY EndsGrow
  <2> QED BY <1>4, <1>5, <2>1, <2>2 DEF Begun
<1>8. Dumping'
    BY <1>4, <1>5, <1>6, <1>7 DEF Dumping
<1> QED BY <1>1, <1>3, <1>8 DEF XmlInv

\* The next task.
LEMMA NextTask ==
    ASSUME LeftOK, left # <<>>, left' = Tail(left)
    PROVE  LeftOK' /\ Head(left) \in 1..NPackages
           /\ Head(left) = Done' /\ Done = Done' - 1 /\ Done' \in 1..NPackages
           /\ Done \in 0..NPackages
<1>1. /\ left \in Seq(Nat) /\ Len(left) <= NPackages /\ Len(left) \in Nat /\ Len(left) # 0
      /\ \A i \in 1..Len(left) : left[i] = Done + i
    BY EmptySeq, LenProperties DEF LeftOK
<1>2. /\ Tail(left) \in Seq(Nat) /\ Len(Tail(left)) = Len(left) - 1
      /\ \A i \in 1..Len(left) - 1 : Tail(left)[i] = left[i + 1]
    BY <1>1, HeadTailProperties
<1>3. Head(left) = left[1]
    BY <1>1
<1>4. NPackages \in Nat
    BY MetadataFilesAssumption
<1>5. Done' = NPackages - (Len(left) - 1) /\ Done = NPackages - Len(left)
    BY <1>2 DEF Done
<1>6. Done' = Done + 1 /\ Done' \in 1..NPackages /\ Done \in Nat /\ Done \in 0..NPackages
    BY <1>1, <1>4, <1>5
<1>7. Head(left) = Done'
    BY <1>1, <1>3, <1>6
<1>8. ASSUME NEW i \in 1..Len(left) - 1 PROVE Tail(left)[i] = Done' + i
    BY <1>1, <1>2, <1>6
<1>9. LeftOK'
    BY <1>1, <1>2, <1>4, <1>8 DEF LeftOK
<1> QED BY <1>6, <1>7, <1>9

\* What the steps of the pool have in common.
LEMMA PoolFacts ==
    ASSUME XmlInv, pc = "pool"
    PROVE  /\ FilesOK /\ codec \in Codecs /\ broken \in SUBSET Packages /\ flow = "xml"
           /\ LeftOK /\ open["in"] = Closed /\ records = <<>> /\ exit = "running"
           /\ xml = [header |-> xml.header, footer |-> xml.footer, pkgs |-> NPackages]
           /\ xml.header \in BOOLEAN /\ xml.footer \in BOOLEAN /\ xml.pkgs = NPackages
           /\ \E data, cuts : /\ OutIs(XmlName, codec, data, cuts)
                              /\ data \in Seq(Block) /\ cuts \in Seq(Nat)
                              /\ Clean => Begun(data, cuts)
<1>1. /\ FilesOK /\ codec \in Codecs /\ broken \in SUBSET Packages /\ flow = "xml"
      /\ records = <<>> /\ exit = "running" /\ Dumping
    BY DEF XmlInv
<1>2. xml.pkgs = NPackages
  <2> DEFINE r == [header |-> xml.header, footer |-> xml.footer, pkgs |-> NPackages]
  <2>1. xml = r /\ r.pkgs = NPackages
      BY <1>1 DEF Dumping
  <2> HIDE DEF r
  <2> QED BY <2>1
<1>3. PICK data, cuts : OutIs(XmlName, codec, data, cuts) /\ (Clean => Begun(data, cuts))
    BY <1>1 DEF Dumping
<1>4. data \in Seq(Block) /\ cuts \in Seq(Nat)
  <2>1. open["out"].mode = "write" /\ open["out"].data = data /\ open["out"].cuts = cuts
      BY <1>3 DEF OutIs
  <2> QED BY <1>1, <2>1 DEF FilesOK, OutOK, Writing
<1> QED BY <1>1, <1>2, <1>3, <1>4 DEF Dumping

\* A block is written in the pool.
LEMMA PoolWrote ==
    ASSUME XmlInv, pc = "pool", UNCHANGED <<flow, codec, broken>>,
           NEW data \in Seq(Block), NEW cuts \in Seq(Nat), OutIs(XmlName, codec, data, cuts),
           NEW b \in Block, NEW ends \in BOOLEAN, Write("out", <<b>>, ends)
    PROVE  /\ FilesOK' /\ open'["in"] = Closed
           /\ data \o <<b>> \in Seq(Block) /\ Len(data \o <<b>>) = Len(data) + 1
           /\ \E k : /\ OutIs(XmlName, codec, data \o <<b>>, k)'
                     /\ k = IF ends /\ ~err' THEN CutAt(cuts, Len(data) + 1) ELSE cuts
<1>1. PICK nm : nm = XmlName
    OBVIOUS
<1>2. PICK c : c = codec
    OBVIOUS
<1>3. PICK bs \in Seq(Block) : bs = <<b>>
  <2>1. <<b>> \in Seq(Block)
      OBVIOUS
  <2> QED BY <2>1
<1>4. /\ FilesOK' /\ open'["in"] = open["in"]
      /\ ends /\ ~err' => OutIs(nm, c, data \o bs, CutAt(cuts, Len(data \o bs)))'
      /\ ~(ends /\ ~err') => OutIs(nm, c, data \o bs, cuts)'
  <2>1. FilesOK /\ OutIs(nm, c, data, cuts) /\ Write("out", bs, ends)
      BY <1>1, <1>2, <1>3, PoolFacts
  <2> QED BY <2>1, WriteIs
<1>5. Len(bs) = 1
    BY <1>3
<1>6. data \o bs \in Seq(Block) /\ Len(data \o bs) = Len(data) + 1
  <2>1. data \o bs \in Seq(Block) /\ Len(data \o bs) = Len(data) + Len(bs)
      BY ConcatProperties
  <2> QED BY <1>5, <2>1
<1>7. XmlName' = nm /\ codec' = c
    BY <1>1, <1>2, Fixed
<1>8. PICK k : k = IF ends /\ ~err' THEN CutAt(cuts, Len(data) + 1) ELSE cuts
    OBVIOUS
<1>9. OutIs(nm, c, data \o bs, k)'
    BY <1>4, <1>6, <1>8
<1>10. OutIs(XmlName, codec, data \o bs, k)'
    BY <1>7, <1>9 DEF OutIs
<1> QED BY <1>3, <1>4, <1>6, <1>8, <1>10, PoolFacts

LEMMA PoolGoes ==
    ASSUME XmlInv, pc = "pool", pc' = "pool", FilesOK',
           UNCHANGED <<flow, codec, broken, records, exit>>,
           LeftOK', open'["in"] = Closed,
           NEW header \in BOOLEAN, NEW footer \in BOOLEAN,
           xml' = [header |-> header, footer |-> footer, pkgs |-> NPackages],
           NEW data, NEW cuts, OutIs(XmlName, codec, data, cuts)',
           Clean' => Begun(data, cuts)'
    PROVE  XmlInv'
<1>1. xml'.header = header /\ xml'.footer = footer
    OBVIOUS
<1>2. Dumping'
    BY <1>1 DEF Dumping
<1> QED BY <1>2, PoolFacts DEF XmlInv

LEMMA HeaderWritten ==
    ASSUME XmlInv, pc = "pool", UNCHANGED <<flow, codec, broken>>, WriteHeader
    PROVE  /\ FilesOK' /\ open'["in"] = Closed
           /\ \E header, footer \in BOOLEAN : \E data, cuts :
                /\ xml' = [header |-> header, footer |-> footer, pkgs |-> NPackages]
                /\ OutIs(XmlName, codec, data, cuts)'
                /\ ~err' /\ Clean /\ left' = left => Begun(data, cuts)'
<1>1. /\ broken \in SUBSET Packages
      /\ xml = [header |-> xml.header, footer |-> xml.footer, pkgs |-> NPackages]
      /\ xml.footer \in BOOLEAN /\ xml.pkgs = NPackages
    BY PoolFacts
<1>2. PICK data, cuts : /\ OutIs(XmlName, codec, data, cuts)
                        /\ data \in Seq(Block) /\ cuts \in Seq(Nat)
                        /\ Clean => Begun(data, cuts)
    BY PoolFacts
<1>3. PICK b \in Block : b = Header(NPackages)
    BY BlockIs, MetadataFilesAssumption
<1>4. ~xml.header /\ Write("out", <<b>>, TRUE) /\ xml' = [xml EXCEPT !.header = ~err']
    BY <1>1, <1>3 DEF WriteHeader, Printf
<1>5. /\ FilesOK' /\ open'["in"] = Closed
      /\ data \o <<b>> \in Seq(Block) /\ Len(data \o <<b>>) = Len(data) + 1
      /\ \E k : /\ OutIs(XmlName, codec, data \o <<b>>, k)'
                /\ k = IF TRUE /\ ~err' THEN CutAt(cuts, Len(data) + 1) ELSE cuts
    BY <1>2, <1>4, PoolWrote, ZenonT(60)
<1>6. PICK k : /\ OutIs(XmlName, codec, data \o <<b>>, k)'
               /\ k = IF TRUE /\ ~err' THEN CutAt(cuts, Len(data) + 1) ELSE cuts
    BY <1>5
<1>7. PICK header \in BOOLEAN : header = ~err'
    OBVIOUS
<1>8. PICK footer \in BOOLEAN : footer = xml.footer
    BY <1>1
<1>9. xml' = [header |-> header, footer |-> footer, pkgs |-> NPackages]
  <2> DEFINE r == [header |-> xml.header, footer |-> xml.footer, pkgs |-> NPackages]
  <2>1. [r EXCEPT !.header = header]
          = [header |-> header, footer |-> xml.footer, pkgs |-> NPackages]
      OBVIOUS
  <2>2. xml' = [r EXCEPT !.header = header]
      BY <1>1, <1>4, <1>7
  <2> QED BY <1>8, <2>1, <2>2
<1>10. ASSUME ~err', Clean, left' = left PROVE Begun(data \o <<b>>, k)'
  <2>1. ~footer /\ data = <<>> /\ WrittenTo[Done] = <<>> /\ (codec = "zck" => cuts = Upto(0))
    <3>1. Begun(data, cuts)
        BY <1>2, <1>10
    <3> QED BY <1>4, <1>8, <3>1 DEF Begun
  <2>2. xml'.header = TRUE /\ xml'.footer = FALSE
      BY <1>7, <1>9, <1>10, <2>1
  <2>3. data \o <<b>> = <<Header(NPackages)>> \o <<>> /\ Len(data \o <<b>>) = 1
      BY <1>3, <2>1
  <2>4. WrittenTo'[Done'] = <<>>
      BY <1>10, <2>1, Fixed DEF Done
  <2>5. codec' = "zck" => k = Upto(1)
    <3>1. CutAt(Upto(0), 0 + 1) = Upto(0 + 1)
        BY EndsGrow
    <3>2. Len(data) + 1 = 1
        BY <2>1
    <3> QED BY <1>6, <1>10, <2>1, <3>1, <3>2
  <2> QED BY <2>2, <2>3, <2>4, <2>5 DEF Begun
<1> QED BY <1>5, <1>6, <1>9, <1>10

LEMMA HeaderDumped ==
    ASSUME XmlInv, DumpHeader
    PROVE  XmlInv'
<1>1. /\ pc = "pool" /\ pc' = "pool" /\ left # <<>> /\ WriteHeader
      /\ UNCHANGED <<flow, codec, broken, records, exit>>
      /\ IF err' THEN left' = Tail(left) /\ hadErrors' = hadErrors \union {"write"}
                 ELSE UNCHANGED <<left, hadErrors>>
    BY DEF DumpHeader, Same
<1>2. FilesOK' /\ open'["in"] = Closed
    BY <1>1, HeaderWritten
<1>h. PICK header \in BOOLEAN, footer \in BOOLEAN : \E data, cuts :
                /\ xml' = [header |-> header, footer |-> footer, pkgs |-> NPackages]
                /\ OutIs(XmlName, codec, data, cuts)'
                /\ ~err' /\ Clean /\ left' = left => Begun(data, cuts)'
    BY <1>1, HeaderWritten
<1>3. PICK data, cuts :
                /\ xml' = [header |-> header, footer |-> footer, pkgs |-> NPackages]
                /\ OutIs(XmlName, codec, data, cuts)'
                /\ ~err' /\ Clean /\ left' = left => Begun(data, cuts)'
    BY <1>h
<1>4. LeftOK'
  <2>1. LeftOK
      BY <1>1, PoolFacts
  <2>2. left' = left => LeftOK'
      BY <2>1 DEF LeftOK, Done
  <2> QED BY <1>1, <2>1, <2>2, NextTask
<1>5. Clean' => Begun(data, cuts)'
  <2>1. err' => "write" \in hadErrors'
    <3>1. err' => hadErrors' = hadErrors \union {"write"}
        BY <1>1
    <3> QED BY <3>1
  <2>2. ~err' => UNCHANGED <<left, hadErrors>>
      BY <1>1
  <2>3. Clean' => ~err' /\ Clean
      BY <2>1, <2>2 DEF Clean
  <2> QED BY <1>3, <2>2, <2>3
<1> QED BY <1>1, <1>2, <1>3, <1>4, <1>5, PoolGoes

LEMMA PackageDumped ==
    ASSUME XmlInv, DumpPackage
    PROVE  XmlInv'
<1>1. /\ pc = "pool" /\ pc' = "pool" /\ left # <<>> /\ left' = Tail(left)
      /\ Head(left) \notin broken
      /\ UNCHANGED <<flow, codec, broken, records, exit>>
      /\ AddChunk(Package(Head(left)), codec = "zck")
      /\ hadErrors' = hadErrors \union (IF err' THEN {"write"} ELSE {})
    BY DEF DumpPackage, Same
<1>2. /\ broken \in SUBSET Packages /\ LeftOK
      /\ xml = [header |-> xml.header, footer |-> xml.footer, pkgs |-> NPackages]
      /\ xml.header \in BOOLEAN /\ xml.footer \in BOOLEAN
    BY <1>1, PoolFacts
<1>3. PICK data, cuts : /\ OutIs(XmlName, codec, data, cuts)
                        /\ data \in Seq(Block) /\ cuts \in Seq(Nat)
                        /\ Clean => Begun(data, cuts)
    BY <1>1, PoolFacts
<1>4. /\ LeftOK' /\ Head(left) = Done' /\ Done = Done' - 1 /\ Done' \in 1..NPackages
      /\ Done \in 0..NPackages
    BY <1>1, <1>2, NextTask
<1>5. PICK b \in Block : b = Package(Head(left))
  <2>1. Head(left) \in Nat
      BY <1>4, MetadataFilesAssumption
  <2> QED BY <2>1, BlockIs
<1>6. PICK ends \in BOOLEAN : ends = (codec = "zck")
    OBVIOUS
<1>7. /\ xml.header /\ ~xml.footer /\ xml' = xml /\ Write("out", <<b>>, ends)
    BY <1>1, <1>5, <1>6 DEF AddChunk, Puts
<1>8. /\ FilesOK' /\ open'["in"] = Closed
      /\ data \o <<b>> \in Seq(Block) /\ Len(data \o <<b>>) = Len(data) + 1
      /\ \E k : /\ OutIs(XmlName, codec, data \o <<b>>, k)'
                /\ k = IF ends /\ ~err' THEN CutAt(cuts, Len(data) + 1) ELSE cuts
    BY <1>1, <1>3, <1>7, PoolWrote
<1>9. PICK k : /\ OutIs(XmlName, codec, data \o <<b>>, k)'
               /\ k = IF ends /\ ~err' THEN CutAt(cuts, Len(data) + 1) ELSE cuts
    BY <1>8
<1>10. ASSUME Clean' PROVE Begun(data \o <<b>>, k)'
  <2>1. ~err' /\ Clean
      BY <1>1, <1>10 DEF Clean
  <2>2. /\ data = <<Header(NPackages)>> \o WrittenTo[Done]
        /\ codec = "zck" => cuts = Upto(Len(data))
    <3>1. Begun(data, cuts)
        BY <1>3, <2>1
    <3> QED BY <1>7, <3>1 DEF Begun
  <2>3. data \o <<b>> = <<Header(NPackages)>> \o WrittenTo'[Done']
    <3> DEFINE w == WrittenTo[Done]
               h == <<Header(NPackages)>>
               p == <<b>>
    <3>1. WrittenTo'[Done'] = Append(w, b)
      <4>1. Done' \notin broken /\ b = Package(Done')
          BY <1>1, <1>4, <1>5
      <4> QED BY <1>1, <1>4, <4>1, Fixed, WrittenIs
    <3>2. w \in Seq(Block)
      <4>2. {Package(n) : n \in Nat} \subseteq Block
          BY DEF Block
      <4>3. w \in Seq({Package(n) : n \in Nat})
          BY <1>4, WrittenIs
      <4> QED BY <4>2, <4>3, SeqMonotonic
    <3>3. h \in Seq(Block) /\ p \in Seq(Block)
        BY BlockIs, MetadataFilesAssumption
    <3>4. Append(w, b) = w \o p
      <4> HIDE DEF w
      <4> QED BY <3>2
    <3> HIDE DEF w, h, p
    <3>5. (h \o w) \o p = h \o (w \o p)
        BY <3>2, <3>3, ConcatAssociative
    <3> QED BY <2>2, <3>1, <3>4, <3>5 DEF w, h, p
  <2>4. codec' = "zck" => k = Upto(Len(data) + 1)
    <3>1. Len(data) \in Nat
        BY <1>3, LenProperties
    <3>2. CutAt(Upto(Len(data)), Len(data) + 1) = Upto(Len(data) + 1)
        BY <3>1, EndsGrow
    <3> QED BY <1>1, <1>6, <1>9, <2>1, <2>2, <3>2
  <2>5. xml'.header /\ ~xml'.footer
      BY <1>7
  <2> QED BY <1>8, <2>3, <2>4, <2>5 DEF Begun
<1>11. PICK header \in BOOLEAN, footer \in BOOLEAN :
         xml' = [header |-> header, footer |-> footer, pkgs |-> NPackages]
    BY <1>2, <1>7
<1> QED BY <1>1, <1>4, <1>8, <1>9, <1>10, <1>11, PoolGoes

LEMMA PackageSkipped ==
    ASSUME XmlInv, DumpSkips
    PROVE  XmlInv'
<1>1. /\ pc = "pool" /\ pc' = "pool" /\ left # <<>> /\ left' = Tail(left)
      /\ Head(left) \in broken
      /\ UNCHANGED <<flow, codec, broken, records, exit>>
      /\ hadErrors' = hadErrors \union {"package"}
      /\ UNCHANGED <<disk, room, open, block, err, stat, xml>>
    BY DEF DumpSkips, Same, xmlVars, fileVars
<1>2. /\ FilesOK /\ broken \in SUBSET Packages /\ LeftOK /\ open["in"] = Closed
      /\ xml = [header |-> xml.header, footer |-> xml.footer, pkgs |-> NPackages]
      /\ xml.header \in BOOLEAN /\ xml.footer \in BOOLEAN
    BY <1>1, PoolFacts
<1>3. PICK data, cuts : /\ OutIs(XmlName, codec, data, cuts)
                        /\ Clean => Begun(data, cuts)
    BY <1>1, PoolFacts
<1>4. /\ LeftOK' /\ Head(left) = Done' /\ Done = Done' - 1 /\ Done' \in 1..NPackages
    BY <1>1, <1>2, NextTask
<1>5. WrittenTo'[Done'] = WrittenTo[Done]
    BY <1>1, <1>4, Fixed, WrittenIs
<1>6. ASSUME Clean' PROVE Begun(data, cuts)'
  <2>1. Clean
      BY <1>1, <1>6 DEF Clean
  <2>2. Begun(data, cuts)
      BY <1>3, <2>1
  <2>3. OldXml' = OldXml
      BY <1>1, Fixed
  <2> QED BY <1>1, <1>5, <2>2, <2>3 DEF Begun
<1>7. FilesOK'
    BY <1>1, <1>2 DEF FilesOK, FileOK, OutOK, InOK, Writing, Reading
<1>8. OutIs(XmlName, codec, data, cuts)'
    BY <1>1, <1>3, Fixed DEF OutIs
<1>9. PICK header \in BOOLEAN, footer \in BOOLEAN :
         xml' = [header |-> header, footer |-> footer, pkgs |-> NPackages]
    BY <1>1, <1>2
<1> QED BY <1>1, <1>2, <1>4, <1>6, <1>7, <1>8, <1>9, PoolGoes

-----------------------------------------------------------------------------
(* XML: closing the file, and the record.                                  *)

LEMMA FooterWritten ==
    ASSUME XmlInv, pc = "pool", left = <<>>, UNCHANGED <<flow, codec, broken, left, hadErrors>>,
           WriteFooter
    PROVE  /\ FilesOK' /\ open'["in"] = Closed
           /\ \E header \in BOOLEAN, footer \in BOOLEAN : \E data, cuts :
                /\ xml' = [header |-> header, footer |-> footer, pkgs |-> NPackages]
                /\ OutIs(XmlName, codec, data, cuts)'
                /\ ~err' /\ Clean => Begun(data, cuts)'
<1>1. /\ broken \in SUBSET Packages
      /\ xml = [header |-> xml.header, footer |-> xml.footer, pkgs |-> NPackages]
      /\ xml.header \in BOOLEAN
    BY PoolFacts
<1>2. PICK data, cuts : /\ OutIs(XmlName, codec, data, cuts)
                        /\ data \in Seq(Block) /\ cuts \in Seq(Nat)
                        /\ Clean => Begun(data, cuts)
    BY PoolFacts
<1>3. PICK b \in Block : b = Footer
    BY BlockIs
<1>e. PICK ends \in BOOLEAN : ends = FALSE
    OBVIOUS
<1>4. /\ xml.header /\ ~xml.footer /\ Write("out", <<b>>, ends)
      /\ xml' = [xml EXCEPT !.footer = ~err']
    BY <1>3, <1>e DEF WriteFooter, Puts
<1>5. /\ FilesOK' /\ open'["in"] = Closed
      /\ data \o <<b>> \in Seq(Block) /\ Len(data \o <<b>>) = Len(data) + 1
      /\ \E k : /\ OutIs(XmlName, codec, data \o <<b>>, k)'
                /\ k = IF ends /\ ~err' THEN CutAt(cuts, Len(data) + 1) ELSE cuts
    BY <1>2, <1>4, PoolWrote
<1>6. OutIs(XmlName, codec, data \o <<b>>, cuts)'
    BY <1>5, <1>e
<1>7. PICK footer \in BOOLEAN : footer = ~err'
    OBVIOUS
<1>8. PICK header \in BOOLEAN : header = xml.header
    BY <1>1
<1>9. xml' = [header |-> header, footer |-> footer, pkgs |-> NPackages]
  <2> DEFINE r == [header |-> xml.header, footer |-> xml.footer, pkgs |-> NPackages]
  <2>1. [r EXCEPT !.footer = footer]
          = [header |-> xml.header, footer |-> footer, pkgs |-> NPackages]
      OBVIOUS
  <2>2. xml' = [r EXCEPT !.footer = footer]
      BY <1>1, <1>4, <1>7
  <2> QED BY <1>8, <2>1, <2>2
<1>10. ASSUME ~err', Clean PROVE Begun(data \o <<b>>, cuts)'
  <2>1. /\ data = <<Header(NPackages)>> \o WrittenTo[Done]
        /\ codec = "zck" => cuts = Upto(Len(data))
    <3>1. Begun(data, cuts)
        BY <1>2, <1>10
    <3> QED BY <1>4, <3>1 DEF Begun
  <2>2. xml'.header = TRUE /\ xml'.footer = TRUE
      BY <1>4, <1>7, <1>8, <1>9, <1>10
  <2>3. data \o <<b>> = OldXml'
    <3>1. Done = NPackages
        BY MetadataFilesAssumption DEF Done
    <3>2. data \o <<b>> = OldXml
        BY <1>3, <2>1, <3>1 DEF OldXml, Written
    <3> QED BY <3>2, Fixed
  <2>4. Len(data \o <<b>>) - 1 = Len(data)
    <3>1. Len(data) \in Nat
        BY <1>2, LenProperties
    <3> QED BY <1>5, <3>1
  <2> QED BY <2>1, <2>2, <2>3, <2>4 DEF Begun
<1> QED BY <1>5, <1>6, <1>9, <1>10

LEMMA OldFileClosed ==
    ASSUME XmlInv, pc = "pool", UNCHANGED <<flow, codec, broken, hadErrors>>,
           XmlCloseFile, mdStat' = stat'
    PROVE  /\ FilesOK'
           /\ ~err' => OldIs' /\ Shut'
<1>1. /\ FilesOK /\ broken \in SUBSET Packages /\ open["in"] = Closed
      /\ codec \in Codecs
    BY PoolFacts
<1>2. PICK data, cuts : /\ OutIs(XmlName, codec, data, cuts)
                        /\ data \in Seq(Block) /\ cuts \in Seq(Nat)
                        /\ Clean => Begun(data, cuts)
    BY PoolFacts
<1>3. PICK nm : nm = XmlName
    OBVIOUS
<1>4. PICK c : c = codec
    OBVIOUS
<1>5. PICK seen \in BOOLEAN : CloseWritten("out", seen) /\ err' = seen
    BY DEF XmlCloseFile
<1>6. xml.header /\ xml.footer
    BY DEF XmlCloseFile
<1>7. /\ FilesOK' /\ Only(nm) /\ nm \in DOMAIN disk
      /\ open'["in"] = open["in"] /\ open'["out"] = Closed /\ stat' = data
      /\ disk'[nm].cuts = CutAt(cuts, Len(data))
      /\ disk'[nm].whole => disk'[nm].content = data
      /\ c \notin Blind /\ ~seen => disk'[nm].whole
  <2>1. OutIs(nm, c, data, cuts) /\ err' \in BOOLEAN
      BY <1>2, <1>3, <1>4, <1>5
  <2> QED BY <1>1, <1>5, <2>1, CloseIs
<1>8. Clean => /\ data = OldXml
               /\ codec = "zck" => CutAt(cuts, Len(data)) = Upto(Len(OldXml))
  <2> SUFFICES ASSUME Clean
               PROVE  /\ data = OldXml
                      /\ codec = "zck" => CutAt(cuts, Len(data)) = Upto(Len(OldXml))
      OBVIOUS
  <2>1. data = OldXml /\ (codec = "zck" => cuts = Upto(Len(data) - 1))
      BY <1>2, <1>6 DEF Begun
  <2>2. Len(OldXml) \in Nat /\ Len(OldXml) >= 2
      BY <1>1, FilesAre, LenProperties
  <2> DEFINE n == Len(OldXml) - 1
  <2>3. n \in Nat /\ Len(OldXml) = n + 1
      BY <2>2
  <2>4. CutAt(Upto(n), n + 1) = Upto(n + 1)
    <3> HIDE DEF n
    <3> QED BY <2>3, EndsGrow
  <2> QED BY <2>1, <2>3, <2>4
<1>9. ASSUME ~err' PROVE OldIs' /\ Shut'
  <2>1. XmlName' = nm /\ codec' = c /\ OldXml' = OldXml /\ Clean' = Clean
      BY <1>3, <1>4, Fixed DEF Clean
  <2>2. nm \in DOMAIN disk'
      BY <1>7 DEF Only
  <2>3. OldIs'
      BY <1>4, <1>5, <1>7, <1>8, <1>9, <2>1, <2>2 DEF OldIs
  <2> QED BY <1>1, <1>7, <2>3 DEF Shut
<1> QED BY <1>7, <1>9

LEMMA XmlClosed ==
    ASSUME XmlInv, CloseXml
    PROVE  XmlInv'
<1>1. /\ pc = "pool" /\ left = <<>>
      /\ UNCHANGED <<flow, codec, broken, records, left, hadErrors>> /\ mdStat' = stat'
      /\ \/ WriteHeader /\ OrExit("pool")
         \/ WriteFooter /\ OrExit("pool")
         \/ XmlCloseFile /\ OrExit("count")
    BY DEF CloseXml, Same
<1>2. /\ codec \in Codecs /\ broken \in SUBSET Packages /\ flow = "xml"
      /\ LeftOK /\ records = <<>> /\ exit = "running"
    BY <1>1, PoolFacts
<1>3. LeftOK' /\ Clean' = Clean
    BY <1>1, <1>2 DEF LeftOK, Done, Clean
<1>4. ASSUME FilesOK', err', NEW p, OrExit(p) PROVE XmlInv'
  <2>1. pc' = "end" /\ exit' = "1"
      BY <1>4 DEF OrExit, Exits, To
  <2>2. StatusTells' /\ FilesDescribed'
      BY <1>1, <1>2, <2>1, LeftEarly
  <2> QED BY <1>1, <1>2, <1>4, <2>1, <2>2 DEF XmlInv
<1>5. ASSUME NEW p, OrExit(p), ~err' PROVE pc' = p /\ exit' = exit
    BY <1>5 DEF OrExit, To
<1>6. CASE WriteHeader /\ OrExit("pool")
  <2>1. FilesOK' /\ open'["in"] = Closed
      BY <1>1, <1>6, HeaderWritten
  <2>2. PICK header \in BOOLEAN, footer \in BOOLEAN : \E data, cuts :
                /\ xml' = [header |-> header, footer |-> footer, pkgs |-> NPackages]
                /\ OutIs(XmlName, codec, data, cuts)'
                /\ ~err' /\ Clean /\ left' = left => Begun(data, cuts)'
      BY <1>1, <1>6, HeaderWritten
  <2>3. PICK data, cuts :
                /\ xml' = [header |-> header, footer |-> footer, pkgs |-> NPackages]
                /\ OutIs(XmlName, codec, data, cuts)'
                /\ ~err' /\ Clean /\ left' = left => Begun(data, cuts)'
      BY <2>2
  <2>4. CASE err'
      BY <1>4, <1>6, <2>1, <2>4
  <2>5. CASE ~err'
      BY <1>1, <1>3, <1>5, <1>6, <2>1, <2>3, <2>5, PoolGoes
  <2> QED BY <2>4, <2>5
<1>7. CASE WriteFooter /\ OrExit("pool")
  <2>1. FilesOK' /\ open'["in"] = Closed
      BY <1>1, <1>7, FooterWritten
  <2>2. PICK header \in BOOLEAN, footer \in BOOLEAN : \E data, cuts :
                /\ xml' = [header |-> header, footer |-> footer, pkgs |-> NPackages]
                /\ OutIs(XmlName, codec, data, cuts)'
                /\ ~err' /\ Clean => Begun(data, cuts)'
      BY <1>1, <1>7, FooterWritten
  <2>3. PICK data, cuts :
                /\ xml' = [header |-> header, footer |-> footer, pkgs |-> NPackages]
                /\ OutIs(XmlName, codec, data, cuts)'
                /\ ~err' /\ Clean => Begun(data, cuts)'
      BY <2>2
  <2>4. CASE err'
      BY <1>4, <1>7, <2>1, <2>4
  <2>5. CASE ~err'
      BY <1>1, <1>3, <1>5, <1>7, <2>1, <2>3, <2>5, PoolGoes
  <2> QED BY <2>4, <2>5
<1>8. CASE XmlCloseFile /\ OrExit("count")
  <2>1. FilesOK' /\ (~err' => OldIs' /\ Shut')
      BY <1>1, <1>8, OldFileClosed
  <2>2. CASE err'
      BY <1>4, <1>8, <2>1, <2>2
  <2>3. CASE ~err'
    <3>1. pc' = "count" /\ exit' = exit
        BY <1>5, <1>8, <2>3
    <3> QED BY <1>1, <1>2, <2>1, <2>3, <3>1 DEF XmlInv
  <2> QED BY <2>2, <2>3
<1> QED BY <1>1, <1>6, <1>7, <1>8

LEMMA CountChecked ==
    ASSUME XmlInv, CheckCount
    PROVE  XmlInv'
<1>1. /\ pc = "count" /\ OldIs /\ Shut /\ FilesOK /\ codec \in Codecs
      /\ broken \in SUBSET Packages /\ flow = "xml" /\ records = <<>> /\ exit = "running"
      /\ UNCHANGED <<disk, room, open, block, err, stat, mdStat>>
      /\ UNCHANGED <<flow, codec, broken, records, exit, left, hadErrors>>
      /\ IF Counted # NPackages
         THEN RewriteStarts(XmlName, NPackages, Counted) /\ To("rewrite")
         ELSE UNCHANGED rw /\ To("record")
    BY DEF XmlInv, CheckCount, Same, Quiet, fileVars
<1>2. FilesOK'
    BY <1>1 DEF FilesOK, FileOK, OutOK, InOK, Writing, Reading
<1>3. /\ XmlName' = XmlName /\ Counted' = Counted /\ OldXml' = OldXml /\ WholeXml' = WholeXml
      /\ Good' = Good /\ Clean' = Clean
    BY <1>1, Fixed DEF Good, Clean
<1>4. OldIs'
    BY <1>1, OldStays DEF OldIs
<1>5. CASE Counted # NPackages
  <2> DEFINE r == [pc |-> "open", name |-> XmlName, declared |-> NPackages, actual |-> Counted]
  <2>1. rw' = r /\ pc' = "rewrite"
      BY <1>1, <1>5 DEF RewriteStarts, To
  <2>2. r.pc = "open"
      OBVIOUS
  <2>3. rw'.pc = "open" /\ RwOK'
      BY <1>3, <2>1, <2>2 DEF RwOK
  <2>4. Shut'
      BY <1>1 DEF Shut
  <2>5. Rewriting'
      BY <1>4, <2>3, <2>4 DEF Rewriting
  <2> QED BY <1>1, <1>2, <1>3, <1>5, <2>1, <2>5 DEF XmlInv
<1>6. CASE Counted = NPackages
  <2>1. pc' = "record"
      BY <1>1, <1>6 DEF To
  <2>2. WholeXml = OldXml
      BY <1>1, <1>6, FilesAre
  <2>3. ChunkEnds(0) = Upto(Len(OldXml))
    <3>1. Len(OldXml) \in Nat
        BY <1>1, FilesAre, LenProperties
    <3> QED BY <2>2, <3>1 DEF ChunkEnds, Upto
  <2>4. ChunkEnds(0)' = ChunkEnds(0)
      BY <1>3 DEF ChunkEnds
  <2>5. Recording'
      BY <1>1, <1>3, <1>6, <2>2, <2>3, <2>4 DEF Recording, OldIs, Good
  <2> QED BY <1>1, <1>2, <2>1, <2>5 DEF XmlInv
<1> QED BY <1>5, <1>6

LEMMA RewriteChecked ==
    ASSUME XmlInv, CheckRewrite
    PROVE  XmlInv'
<1>1. /\ pc = "rewrite" /\ Rewriting /\ FilesOK /\ codec \in Codecs
      /\ Counted # NPackages
      /\ broken \in SUBSET Packages /\ flow = "xml" /\ records = <<>> /\ exit = "running"
      /\ UNCHANGED <<disk, room, open, block, err, stat>>
      /\ UNCHANGED <<flow, codec, broken, records, exit>>
      /\ rw.pc \in {"done", "failed"}
      /\ mdStat' = IF rw.pc = "done" THEN stat ELSE mdStat
      /\ hadErrors' = hadErrors \union (IF rw.pc = "failed" THEN {"rewrite"} ELSE {})
      /\ pc' = "record"
    BY DEF XmlInv, CheckRewrite, Same, xmlVars, fileVars, To
<1>2. FilesOK'
    BY <1>1 DEF FilesOK, FileOK, OutOK, InOK, Writing, Reading
<1>3. /\ XmlName' = XmlName /\ Counted' = Counted /\ OldXml' = OldXml /\ WholeXml' = WholeXml
    BY <1>1, Fixed
<1>4. CASE rw.pc = "done"
  <2>1. NewIs(XmlName) /\ mdStat' = stat
      BY <1>1, <1>4 DEF Rewriting
  <2>2. hadErrors' = hadErrors
      BY <1>1, <1>4
  <2>3. Good' = Good
      BY <1>1, <2>2 DEF Good, Clean
  <2>4. ChunkEnds(1)' = After(Len(OldXml) - 1)
    <3>1. Len(WholeXml) = Len(OldXml)
        BY <1>1, FilesAre
    <3> QED BY <1>3, <3>1 DEF ChunkEnds, After
  <2>5. Recording'
      BY <1>1, <1>3, <2>1, <2>3, <2>4 DEF Recording, NewIs
  <2> QED BY <1>1, <1>2, <2>5 DEF XmlInv
<1>5. CASE rw.pc = "failed"
  <2>1. OldIs /\ mdStat' = mdStat /\ "rewrite" \in hadErrors'
      BY <1>1, <1>5 DEF Rewriting
  <2>2. ~Good'
      BY <2>1 DEF Good, Clean
  <2>3. Recording'
      BY <1>1, <1>3, <2>1, <2>2 DEF Recording, OldIs
  <2> QED BY <1>1, <1>2, <2>3 DEF XmlInv
<1> QED BY <1>1, <1>4, <1>5

LEMMA XmlRecorded ==
    ASSUME XmlInv, RecordXml
    PROVE  XmlInv'
<1>1. /\ pc = "record" /\ Recording /\ FilesOK /\ codec \in Codecs
      /\ broken \in SUBSET Packages /\ flow = "xml"
      /\ UNCHANGED <<disk, room, open, block, err, stat, mdStat, hadErrors>>
      /\ UNCHANGED <<flow, codec, broken>>
      /\ pc' = "end" /\ exit' = Status
    BY DEF XmlInv, RecordXml, Same, xmlVars, fileVars, Exits, To
<1> DEFINE sum == FileSum(disk[XmlName])
           opn == IF codec = "zck" THEN OpenSum(XmlName) ELSE mdStat
           hdr == IF codec = "zck" THEN mdStat ELSE None
           r == [name |-> XmlName, sum |-> sum, open |-> opn, hdr |-> hdr]
<1>2. records' = <<r>>
    BY DEF RecordXml
<1>3. r.name = XmlName /\ r.sum = sum /\ r.open = opn /\ r.hdr = hdr
    OBVIOUS
<1>4. disk[XmlName].whole => /\ opn \in {None, disk[XmlName].content}
                             /\ hdr \in {None, disk[XmlName].content}
    BY <1>1 DEF Recording, OpenSum
<1> HIDE DEF r, opn, hdr
<1>5. FilesOK'
    BY <1>1 DEF FilesOK, FileOK, OutOK, InOK, Writing, Reading
<1>6. /\ XmlName' = XmlName /\ Counted' = Counted /\ OldXml' = OldXml /\ WholeXml' = WholeXml
    BY <1>1, Fixed
<1>7. FileSum(disk[XmlName])' = sum
    BY <1>1, <1>6
<1>8. RecordsDescribe'
  <2>1. DOMAIN records' = {1} /\ records'[1] = r
      BY <1>2
  <2>2. Describes(records[1])'
      BY <1>1, <1>3, <1>4, <1>7, <2>1 DEF Describes
  <2> QED BY <2>1, <2>2 DEF RecordsDescribe
<1>9. Published' => (Good' /\ Good) \/ codec \in Blind
    BY <1>1 DEF Published, Good, Clean
<1>10. ChunksApart'
  <2> SUFFICES ASSUME Published', codec' = "zck"
               PROVE  disk'[XmlName'].cuts = ChunkEnds(IF Counted = NPackages THEN 0 ELSE 1)'
      BY DEF ChunksApart
  <2>1. codec = "zck" /\ codec \notin Blind
      BY <1>1 DEF Blind
  <2>2. disk[XmlName].cuts = ChunkEnds(IF Counted = NPackages THEN 0 ELSE 1)
      BY <1>1, <1>9, <2>1 DEF Recording
  <2> QED BY <1>1, <1>6, <2>2 DEF ChunkEnds
<1>11. StatusTells'
    BY <1>1, <1>6, <1>9 DEF StatusTells, Recording
<1> QED BY <1>1, <1>5, <1>8, <1>10, <1>11 DEF XmlInv, FilesDescribed

LEMMA XmlRests ==
    ASSUME XmlInv, UNCHANGED metaVars
    PROVE  XmlInv'
<1>1. /\ UNCHANGED <<disk, room, open, block, err, stat, xml, rw>>
      /\ UNCHANGED <<flow, codec, pc, left, broken, hadErrors, mdStat, records, exit>>
    BY DEF metaVars, xmlVars, fileVars
<1>2. UNCHANGED <<XmlName, NewName, Counted, OldXml, WholeXml, WrittenTo>>
    BY <1>1, Fixed
<1>3. FilesOK' = FilesOK
    BY <1>1 DEF FilesOK, FileOK, OutOK, InOK, Writing, Reading
<1>4. Opening' = Opening /\ Numbering' = Numbering /\ Dumping' = Dumping
    BY <1>1, <1>2 DEF Opening, Numbering, Dumping, LeftOK, Done, Shut, OutIs, Begun, Clean
<1>5. /\ OldIs' = OldIs /\ Shut' = Shut /\ Recording' = Recording
    BY <1>1, <1>2 DEF OldIs, Shut, NewIs, Recording, Good, Clean, ChunkEnds
<1>6. Rewriting' = Rewriting
    BY <1>1, <1>2 DEF Rewriting, RwOK, OldIs, NewIs, Shut, InIs, OutIs, AtModify, AtRead,
       AtWrite, AtCloseNew, AtCloseOld, Copied, Good, Clean
<1>7. StatusTells' = StatusTells /\ FilesDescribed' = FilesDescribed
    BY <1>1, <1>2 DEF StatusTells, FilesDescribed, Published, RecordsDescribe, Describes,
       ChunksApart, ChunkEnds, FileSum
<1> QED BY <1>1, <1>2, <1>3, <1>4, <1>5, <1>6, <1>7 DEF XmlInv

LEMMA XmlStep ==
    ASSUME XmlInv, [MetaNext]_metaVars
    PROVE  XmlInv'
<1>1. /\ flow = "xml"
      /\ pc \in {"open", "number", "pool", "count", "rewrite", "record", "end"}
    BY DEF XmlInv
<1>2. ~(CompressOpens \/ CompressCreates \/ CompressReads \/ CompressWrites \/ CompressClosesOld
        \/ RecordDatabase \/ RecordAdditional \/ RecordZchunk)
    BY <1>1 DEF CompressOpens, CompressCreates, CompressReads, CompressWrites,
       CompressClosesOld, RecordDatabase, RecordAdditional, RecordZchunk
<1> QED BY <1>2, XmlStarted, NumberSet, HeaderDumped, PackageDumped, PackageSkipped, XmlClosed,
           CountChecked, RewriteKeeps, RewriteChecked, XmlRecorded, XmlRests DEF MetaNext

LEMMA XmlStarts ==
    ASSUME MetaInit, flow = "xml"
    PROVE  XmlInv
<1>1. /\ codec \in Codecs /\ broken \in SUBSET Packages /\ room \in 0..MaxRoom
      /\ left = [p \in Packages |-> p] /\ disk = <<>> /\ pc = "open"
      /\ records = <<>> /\ exit = "running"
      /\ open = [h \in Handles |-> Closed] /\ block = <<>> /\ err = FALSE
    BY DEF MetaInit, XmlInit, FileInit
<1>2. open["in"] = Closed /\ open["out"] = Closed /\ open = [h \in Handles |-> open[h]]
    BY <1>1 DEF Handles
<1>3. FilesOK
  <2>1. DOMAIN disk = {}
      BY <1>1
  <2>2. room \in Nat /\ block \in Seq(Block) /\ err \in BOOLEAN
    <3>1. <<>> \in Seq(Block)
        OBVIOUS
    <3>2. room \in Nat
        BY <1>1, MetadataFilesAssumption
    <3> QED BY <1>1, <3>1, <3>2
  <2>3. ~Writing /\ ~Reading
      BY <1>2 DEF Writing, Reading, Closed
  <2> QED BY <1>2, <2>1, <2>2, <2>3 DEF FilesOK
<1>4. LeftOK /\ Len(left) = NPackages
  <2>1. NPackages \in Nat /\ left = [p \in 1..NPackages |-> p]
      BY <1>1, MetadataFilesAssumption DEF Packages
  <2>2. left \in Seq(Nat) /\ Len(left) = NPackages /\ \A i \in 1..NPackages : left[i] = i
      BY <2>1
  <2> QED BY <2>1, <2>2 DEF LeftOK, Done
<1>5. Opening
    BY <1>2, <1>4 DEF Opening, Shut
<1> QED BY <1>1, <1>3, <1>5 DEF XmlInv

-----------------------------------------------------------------------------
(* Copying a file: a database, or additional metadata for --zck.           *)

Copying == flow = "database" \/ (flow = "additional" /\ codec = "none")

\* How far the copy is.
AsFar(data, q) == q \in 0..Len(Data) /\ data = SubSeq(Data, 1, q)

CopyRead ==
    \E pos, data, cuts :
        /\ InIs(Source, "none", pos) /\ OutIs(Target, Suffix(Target), data, cuts)
        /\ AsFar(data, pos)
CopyWrite ==
    \E pos, q, data, cuts :
        /\ InIs(Source, "none", pos) /\ OutIs(Target, Suffix(Target), data, cuts)
        /\ AsFar(data, q) /\ pos \in q..Len(Data) /\ block = SubSeq(Data, q + 1, pos)
CopyClose ==
    \E data, cuts :
        /\ OutIs(Target, Suffix(Target), data, cuts)
        /\ err \/ data = Data

CopyInv ==
    /\ Copying /\ codec \in Codecs /\ (flow = "database" => codec # "none")
    /\ FilesOK
    /\ Source \in DOMAIN disk /\ disk[Source] = Saved("none", Data)
    /\ pc \in {"fill", "compress", "read", "write", "closeold", "closenew", "end"}
    /\ pc # "end" => \A i \in DOMAIN records : records[i].name = Source /\ Describes(records[i])
    /\ pc = "fill" => Shut /\ flow = "additional"
    /\ pc = "compress" => /\ open["out"] = Closed
                          /\ open["in"] = Closed \/ InIs(Source, "none", 0)
    /\ pc = "read" => CopyRead
    /\ pc = "write" => CopyWrite
    /\ pc \in {"closeold", "closenew"} => CopyClose
    /\ pc = "end" => RecordsDescribe

LEMMA DataIs ==
    Data \in Seq(Block) /\ Len(Data) = 2
<1>1. Package(1) \in Block /\ Package(2) \in Block
    BY BlockIs
<1> QED BY <1>1 DEF Data

LEMMA SavedIs ==
    ASSUME NEW c, NEW bs
    PROVE  Saved(c, bs).whole /\ Saved(c, bs).content = bs /\ Saved(c, bs).codec = c
BY DEF Saved

LEMMA EndsAre ==
    ASSUME Copying, flow = "database" => codec # "none"
    PROVE  Source # Target /\ Detect(Source) = "none"
<1>1. CASE flow = "database"
  <2>1. Source[2] = "none" /\ Target[2] = codec
      BY <1>1 DEF Source, Target, DbName, DbFile
  <2> QED BY <1>1, <2>1 DEF Detect, Suffix
<1>2. CASE flow # "database"
  <2>1. Source[2] = "none" /\ Target[2] = "zck"
      BY <1>2 DEF Source, Target, MdName, MdZck, Copying
  <2> QED BY <2>1 DEF Detect, Suffix
<1> QED BY <1>1, <1>2

LEMMA CopyFixed ==
    ASSUME UNCHANGED <<flow, codec, broken>>
    PROVE  /\ Source' = Source /\ Target' = Target /\ Copying' = Copying
           /\ Suffix(Target)' = Suffix(Target)
BY DEF Source, Target, Copying, DbName, DbFile, MdName, MdZck, Suffix

\* The records that there are stay right, while the file they are about does.
LEMMA RecordsStay ==
    ASSUME CopyInv, pc # "end", UNCHANGED <<flow, codec, broken, records>>,
           disk'[Source] = disk[Source]
    PROVE  \A i \in DOMAIN records' : records'[i].name = Source' /\ Describes(records[i])'
<1>1. \A i \in DOMAIN records : records[i].name = Source /\ Describes(records[i])
    BY DEF CopyInv
<1>2. Source' = Source
    BY CopyFixed
<1> SUFFICES ASSUME NEW i \in DOMAIN records
             PROVE  records[i].name = Source /\ Describes(records[i])'
    BY <1>2
<1>3. records[i].name = Source /\ Describes(records[i])
    BY <1>1
<1> QED BY <1>3 DEF Describes, FileSum

LEMMA CopyOpened ==
    ASSUME CopyInv, CompressOpens
    PROVE  CopyInv'
<1>1. /\ Copying /\ codec \in Codecs /\ (flow = "database" => codec # "none") /\ FilesOK
      /\ Source \in DOMAIN disk /\ disk[Source] = Saved("none", Data)
      /\ pc = "compress" /\ pc' = "compress" /\ open["in"] = Closed /\ open["out"] = Closed
      /\ UNCHANGED <<flow, codec, broken, records>>
    BY DEF CopyInv, CompressOpens, Same, Quiet
<1>2. PICK nm : nm = Source
    OBVIOUS
<1>3. OpenRead("in", nm, "none")
    BY <1>1, <1>2, EndsAre DEF CompressOpens
<1>4. ~Writing
    BY <1>1 DEF Writing, Closed
<1>5. /\ FilesOK' /\ InIs(nm, "none", 0)' /\ open'["out"] = open["out"] /\ disk' = disk
    BY <1>1, <1>3, <1>4, OpenReadIs
<1>6. Source' = Source /\ Copying'
    BY <1>1, CopyFixed
<1>7. InIs(Source, "none", 0)'
    BY <1>2, <1>5, <1>6 DEF InIs
<1>8. \A i \in DOMAIN records' : records'[i].name = Source' /\ Describes(records[i])'
    BY <1>1, <1>5, RecordsStay
<1> QED BY <1>1, <1>5, <1>6, <1>7, <1>8 DEF CopyInv

LEMMA CopyCreated ==
    ASSUME CopyInv, CompressCreates
    PROVE  CopyInv'
<1>1. /\ Copying /\ codec \in Codecs /\ (flow = "database" => codec # "none") /\ FilesOK
      /\ Source \in DOMAIN disk /\ disk[Source] = Saved("none", Data)
      /\ pc = "compress" /\ pc' = "read" /\ InIs(Source, "none", 0)
      /\ UNCHANGED <<flow, codec, broken, records>>
    BY DEF CopyInv, CompressCreates, Same, Quiet, To
<1>2. PICK nm : nm = Target
    OBVIOUS
<1>3. PICK c : c = Suffix(Target)
    OBVIOUS
<1>4. OpenWrite("out", nm, c)
    BY <1>2, <1>3 DEF CompressCreates
<1>5. open["in"].name = Source /\ Source # nm
    BY <1>1, <1>2, InFacts, EndsAre
<1>6. /\ FilesOK' /\ OutIs(nm, c, <<>>, <<>>)'
      /\ DOMAIN disk' = DOMAIN disk \union {nm}
      /\ \A n \in DOMAIN disk : n # nm => disk'[n] = disk[n]
      /\ open'["in"] = open["in"]
    BY <1>1, <1>4, <1>5, OpenWriteIs
<1>7. /\ Source' = Source /\ Copying' /\ Target' = nm /\ Suffix(Target)' = c
    BY <1>1, <1>2, <1>3, CopyFixed
<1>8. Source \in DOMAIN disk' /\ disk'[Source] = disk[Source]
    BY <1>1, <1>5, <1>6
<1>9. \A i \in DOMAIN records' : records'[i].name = Source' /\ Describes(records[i])'
    BY <1>1, <1>8, RecordsStay
<1>10. CopyRead'
  <2>1. InIs(Source, "none", 0)' /\ OutIs(Target, Suffix(Target), <<>>, <<>>)'
      BY <1>1, <1>6, <1>7 DEF InIs, OutIs
  <2>2. AsFar(<<>>, 0)'
      BY DataIs, SubSeqEmpty DEF AsFar
  <2> QED BY <2>1, <2>2 DEF CopyRead
<1> QED BY <1>1, <1>6, <1>7, <1>8, <1>9, <1>10 DEF CopyInv

LEMMA CopyReads ==
    ASSUME CopyInv, CompressReads
    PROVE  CopyInv'
<1>1. /\ Copying /\ codec \in Codecs /\ (flow = "database" => codec # "none") /\ FilesOK
      /\ Source \in DOMAIN disk /\ disk[Source] = Saved("none", Data)
      /\ pc = "read" /\ pc' = (IF block' = <<>> THEN "closeold" ELSE "write") /\ CopyRead
      /\ Read("in", 1)
      /\ UNCHANGED <<flow, codec, broken, records>>
    BY DEF CopyInv, CompressReads, Same, Quiet, To
<1>2. PICK nm : nm = Source
    OBVIOUS
<1>3. PICK q, data, cuts :
        /\ InIs(nm, "none", q) /\ OutIs(Target, Suffix(Target), data, cuts)
        /\ AsFar(data, q)
    BY <1>1, <1>2 DEF CopyRead
<1>4. /\ disk[nm].whole /\ disk[nm].content = Data
    BY <1>1, <1>2, SavedIs
<1>5. /\ FilesOK' /\ open'["out"] = open["out"] /\ UNCHANGED <<disk, room, stat>>
      /\ \E upto \in q..Len(disk[nm].content) :
           /\ InIs(nm, "none", upto)'
           /\ upto = q => upto = Len(disk[nm].content)
           /\ disk[nm].whole =>
                ~err' /\ block' = SubSeq(disk[nm].content, q + 1, upto)
  <2>1. 1 \in Nat /\ 1 # 0
      OBVIOUS
  <2> QED BY <1>1, <1>3, <2>1, ReadIs
<1>6. PICK pos \in q..Len(Data) :
           /\ InIs(nm, "none", pos)'
           /\ pos = q => pos = Len(Data)
           /\ block' = SubSeq(Data, q + 1, pos)
    BY <1>4, <1>5
<1>7. /\ Source' = Source /\ Copying' /\ Target' = Target /\ Suffix(Target)' = Suffix(Target)
    BY <1>1, CopyFixed
<1>8. \A i \in DOMAIN records' : records'[i].name = Source' /\ Describes(records[i])'
    BY <1>1, <1>5, RecordsStay
<1>9. OutIs(Target, Suffix(Target), data, cuts)' /\ InIs(Source, "none", pos)'
    BY <1>2, <1>3, <1>5, <1>6, <1>7 DEF InIs, OutIs
<1>10. CASE block' = <<>>
  <2>1. q \in 0..Len(Data) /\ data = SubSeq(Data, 1, q)
      BY <1>3 DEF AsFar
  <2>2. SubSeq(Data, q + 1, pos) = <<>> <=> pos = q
    <3>1. \A i \in q + 1..Len(Data) : Data[i] = Data[i]
        OBVIOUS
    <3> QED BY <2>1, <3>1, DataIs, Joined, ZenonT(60)
  <2>3. data = Data
    <3>1. q = Len(Data)
        BY <1>6, <1>10, <2>2
    <3> QED BY <2>1, <3>1, DataIs, SubSeqFull
  <2>4. CopyClose'
      BY <1>9, <2>3 DEF CopyClose
  <2> QED BY <1>1, <1>5, <1>7, <1>8, <1>10, <2>4 DEF CopyInv
<1>11. CASE block' # <<>>
  <2>1. CopyWrite'
    <3>1. AsFar(data, q)' <=> AsFar(data, q)
        BY DEF AsFar
    <3> QED BY <1>3, <1>6, <1>9, <3>1 DEF CopyWrite
  <2> QED BY <1>1, <1>5, <1>7, <1>8, <1>11, <2>1 DEF CopyInv
<1> QED BY <1>10, <1>11

LEMMA CopyWrites ==
    ASSUME CopyInv, CompressWrites
    PROVE  CopyInv'
<1>1. /\ Copying /\ codec \in Codecs /\ (flow = "database" => codec # "none") /\ FilesOK
      /\ Source \in DOMAIN disk /\ disk[Source] = Saved("none", Data)
      /\ pc = "write" /\ pc' = (IF err' THEN "closeold" ELSE "read") /\ CopyWrite
      /\ Write("out", block, FALSE)
      /\ UNCHANGED <<flow, codec, broken, records>>
    BY DEF CopyInv, CompressWrites, Same, Quiet, To
<1>2. PICK nm : nm = Target
    OBVIOUS
<1>3. PICK c : c = Suffix(Target)
    OBVIOUS
<1>4. PICK pos, q, data, cuts :
        /\ InIs(Source, "none", pos) /\ OutIs(nm, c, data, cuts)
        /\ AsFar(data, q) /\ pos \in q..Len(Data) /\ block = SubSeq(Data, q + 1, pos)
    BY <1>1, <1>2, <1>3 DEF CopyWrite
<1>5. PICK b \in Seq(Block) : b = block
    BY <1>1 DEF FilesOK
<1>6. /\ FilesOK' /\ Only(nm) /\ open'["in"] = open["in"]
      /\ OutIs(nm, c, data \o b, cuts)'
  <2>1. FALSE \in BOOLEAN /\ Write("out", b, FALSE)
      BY <1>1, <1>5
  <2> QED BY <1>1, <1>4, <2>1, WriteIs
<1>7. /\ Source' = Source /\ Copying' /\ Target' = nm /\ Suffix(Target)' = c
    BY <1>1, <1>2, <1>3, CopyFixed
<1>8. Source \in DOMAIN disk' /\ disk'[Source] = disk[Source]
    BY <1>1, <1>2, <1>6, EndsAre DEF Only
<1>9. \A i \in DOMAIN records' : records'[i].name = Source' /\ Describes(records[i])'
    BY <1>1, <1>8, RecordsStay
<1>10. OutIs(Target, Suffix(Target), data \o b, cuts)' /\ InIs(Source, "none", pos)'
    BY <1>4, <1>6, <1>7 DEF InIs, OutIs
<1>11. AsFar(data \o b, pos)
  <2>1. q \in 0..Len(Data) /\ data = SubSeq(Data, 1, q) /\ pos \in 0..Len(Data)
      BY <1>4, DataIs DEF AsFar
  <2>2. SubSeq(Data, 1, q) \o SubSeq(Data, q + 1, pos) = SubSeq(Data, 1, pos)
    <3>1. \A i \in q + 1..Len(Data) : Data[i] = Data[i]
        OBVIOUS
    <3> QED BY <1>4, <2>1, <3>1, DataIs, Joined
  <2> QED BY <1>4, <1>5, <2>1, <2>2 DEF AsFar
<1>12. CASE err'
  <2>1. CopyClose'
      BY <1>10, <1>12 DEF CopyClose
  <2> QED BY <1>1, <1>6, <1>7, <1>8, <1>9, <1>12, <2>1 DEF CopyInv
<1>13. CASE ~err'
  <2>1. CopyRead'
    <3>1. AsFar(data \o b, pos)' <=> AsFar(data \o b, pos)
        BY <1>5 DEF AsFar
    <3> QED BY <1>10, <1>11, <3>1 DEF CopyRead
  <2> QED BY <1>1, <1>6, <1>7, <1>8, <1>9, <1>13, <2>1 DEF CopyInv
<1> QED BY <1>12, <1>13

LEMMA CopyClosesOld ==
    ASSUME CopyInv, CompressClosesOld
    PROVE  CopyInv'
<1>1. /\ Copying /\ codec \in Codecs /\ (flow = "database" => codec # "none") /\ FilesOK
      /\ Source \in DOMAIN disk /\ disk[Source] = Saved("none", Data)
      /\ pc = "closeold" /\ pc' = "closenew" /\ CopyClose
      /\ open' = [open EXCEPT !["in"] = Closed]
      /\ UNCHANGED <<disk, room, block, err, stat>>
      /\ UNCHANGED <<flow, codec, broken, records>>
    BY DEF CopyInv, CompressClosesOld, Same, Quiet, To
<1>2. PICK data, cuts : /\ OutIs(Target, Suffix(Target), data, cuts)
                        /\ err \/ data = Data
    BY <1>1 DEF CopyClose
<1>3. FilesOK' /\ open'["out"] = open["out"] /\ open'["in"] = Closed
  <2>1. err' \in BOOLEAN
      BY <1>1 DEF FilesOK
  <2> QED BY <1>1, <2>1, ClosedInIs
<1>4. /\ Source' = Source /\ Copying' /\ Target' = Target /\ Suffix(Target)' = Suffix(Target)
    BY <1>1, CopyFixed
<1>5. \A i \in DOMAIN records' : records'[i].name = Source' /\ Describes(records[i])'
    BY <1>1, RecordsStay
<1>6. CopyClose'
    BY <1>1, <1>2, <1>3, <1>4 DEF CopyClose, OutIs
<1> QED BY <1>1, <1>3, <1>4, <1>5, <1>6 DEF CopyInv

LEMMA DatabaseRecorded ==
    ASSUME CopyInv, RecordDatabase
    PROVE  CopyInv'
<1>1. /\ Copying /\ codec \in Codecs /\ (flow = "database" => codec # "none") /\ FilesOK
      /\ Source \in DOMAIN disk /\ disk[Source] = Saved("none", Data)
      /\ pc = "closenew" /\ pc' = "end" /\ CopyClose /\ flow = "database"
      /\ UNCHANGED <<err, flow, codec, broken>>
      /\ \E seen \in BOOLEAN : CloseWritten("out", seen)
    BY DEF CopyInv, RecordDatabase, Same, Exits, To
<1>2. PICK nm : nm = Target
    OBVIOUS
<1>3. PICK c : c = Suffix(Target)
    OBVIOUS
<1>4. PICK data, cuts : OutIs(nm, c, data, cuts)
    BY <1>1, <1>2, <1>3 DEF CopyClose
<1>5. PICK seen \in BOOLEAN : CloseWritten("out", seen)
    BY <1>1
<1>6. /\ FilesOK' /\ Only(nm) /\ nm \in DOMAIN disk /\ stat' = data
      /\ disk'[nm].whole => disk'[nm].content = data
  <2>1. err' \in BOOLEAN
      BY <1>1 DEF FilesOK
  <2> QED BY <1>1, <1>4, <1>5, <2>1, CloseIs
<1>7. /\ Source' = Source /\ Copying' /\ nm = DbFile /\ DbFile' = DbFile
    BY <1>1, <1>2, CopyFixed DEF Target, DbFile
<1>8. Source \in DOMAIN disk' /\ disk'[Source] = disk[Source]
    BY <1>1, <1>2, <1>6, EndsAre DEF Only
<1>9. PICK r : r = [name |-> DbFile, sum |-> FileSum(disk'[DbFile]), open |-> stat', hdr |-> None]
    OBVIOUS
<1>10. r.name = nm /\ r.sum = FileSum(disk'[nm]) /\ r.open = data /\ r.hdr = None
    BY <1>6, <1>7, <1>9
<1>11. records' = <<r>>
    BY <1>9 DEF RecordDatabase
<1>12. RecordsDescribe'
  <2>1. DOMAIN records' = {1} /\ records'[1] = r
      BY <1>11
  <2>2. Describes(records[1])'
      BY <1>6, <1>10, <2>1 DEF Describes, FileSum
  <2> QED BY <2>1, <2>2 DEF RecordsDescribe
<1> QED BY <1>1, <1>6, <1>7, <1>8, <1>12 DEF CopyInv

LEMMA ZchunkRecorded ==
    ASSUME CopyInv, RecordZchunk
    PROVE  CopyInv'
<1>1. /\ Copying /\ codec \in Codecs /\ (flow = "database" => codec # "none") /\ FilesOK
      /\ Source \in DOMAIN disk /\ disk[Source] = Saved("none", Data)
      /\ pc = "closenew" /\ pc' = "end" /\ CopyClose /\ flow = "additional"
      /\ UNCHANGED <<err, flow, codec, broken>>
    BY DEF CopyInv, RecordZchunk, Same, Exits, To
<1>2. PICK nm : nm = Target
    OBVIOUS
<1>3. PICK c : c = Suffix(Target)
    OBVIOUS
<1>4. PICK data, cuts : OutIs(nm, c, data, cuts) /\ (err \/ data = Data)
    BY <1>1, <1>2, <1>3 DEF CopyClose
<1>5. PICK seen \in BOOLEAN :
        /\ CloseWritten("out", seen)
        /\ IF err \/ seen THEN UNCHANGED records
           ELSE records' =
                    <<[name |-> MdName, sum |-> FileSum(disk[MdName]),
                       open |-> None, hdr |-> None],
                      [name |-> MdZck, sum |-> FileSum(disk'[MdZck]),
                       open |-> FileSum(disk[MdName]), hdr |-> stat']>>
    BY DEF RecordZchunk
<1>6. /\ FilesOK' /\ Only(nm) /\ nm \in DOMAIN disk /\ stat' = data
      /\ disk'[nm].whole => disk'[nm].content = data
  <2>1. err' \in BOOLEAN
      BY <1>1 DEF FilesOK
  <2> QED BY <1>1, <1>4, <1>5, <2>1, CloseIs
<1>7. /\ Source' = Source /\ Copying' /\ nm = MdZck /\ Source = MdName
    BY <1>1, <1>2, CopyFixed DEF Target, Source
<1>8. Source \in DOMAIN disk' /\ disk'[Source] = disk[Source]
    BY <1>1, <1>2, <1>6, EndsAre DEF Only
<1>9. CASE err \/ seen
  <2>1. UNCHANGED records
      BY <1>5, <1>9
  <2>2. pc # "end" /\ UNCHANGED <<flow, codec, broken, records>>
      BY <1>1, <2>1
  <2>3. \A i \in DOMAIN records' : records'[i].name = Source' /\ Describes(records[i])'
      BY <1>8, <2>2, RecordsStay
  <2>4. RecordsDescribe'
      BY <2>3 DEF RecordsDescribe
  <2> QED BY <1>1, <1>6, <1>7, <1>8, <2>4 DEF CopyInv
<1>10. CASE ~(err \/ seen)
  <2>1. PICK r : r = [name |-> MdName, sum |-> FileSum(disk[MdName]), open |-> None, hdr |-> None]
      OBVIOUS
  <2>2. PICK z : z = [name |-> MdZck, sum |-> FileSum(disk'[MdZck]),
                      open |-> FileSum(disk[MdName]), hdr |-> stat']
      OBVIOUS
  <2>3. r.name = Source /\ r.sum = FileSum(disk[Source]) /\ r.open = None /\ r.hdr = None
      BY <1>7, <2>1
  <2>4. z.name = nm /\ z.sum = FileSum(disk'[nm]) /\ z.open = Data /\ z.hdr = data
    <3>1. disk[Source].codec = "none" /\ disk[Source].content = Data
        BY <1>1, SavedIs
    <3>2. FileSum(disk[Source]) = Data
        BY <3>1 DEF FileSum
    <3> QED BY <1>6, <1>7, <2>2, <3>2
  <2>5. records' = <<r, z>>
      BY <1>5, <1>10, <2>1, <2>2
  <2>6. DOMAIN records' = {1, 2} /\ records'[1] = r /\ records'[2] = z
      BY <2>5
  <2>7. Describes(records[1])'
      BY <1>8, <2>3, <2>6 DEF Describes, FileSum
  <2>8. Describes(records[2])'
      BY <1>4, <1>6, <1>10, <2>4, <2>6 DEF Describes, FileSum
  <2>9. RecordsDescribe'
      BY <2>6, <2>7, <2>8 DEF RecordsDescribe
  <2> QED BY <1>1, <1>6, <1>7, <1>8, <2>9 DEF CopyInv
<1> QED BY <1>9, <1>10

LEMMA AdditionalRecorded ==
    ASSUME CopyInv, RecordAdditional, flow = "additional"
    PROVE  CopyInv'
<1>1. /\ Copying /\ codec = "none" /\ FilesOK
      /\ Source \in DOMAIN disk /\ disk[Source] = Saved("none", Data)
      /\ pc = "fill" /\ pc' \in {"compress", "end"} /\ Shut
      /\ UNCHANGED <<disk, room, open, block, err, stat>>
      /\ UNCHANGED <<flow, codec, broken>>
    BY DEF CopyInv, RecordAdditional, Same, Exits, To, Copying, xmlVars, fileVars
<1>2. PICK r : r = [name |-> MdName, sum |-> FileSum(disk[MdName]), open |-> None, hdr |-> None]
    OBVIOUS
<1>3. records' = <<r>>
    BY <1>1, <1>2 DEF RecordAdditional
<1>4. /\ Source' = Source /\ Copying' /\ Source = MdName
    BY <1>1, CopyFixed DEF Source
<1>5. r.name = Source /\ r.sum = FileSum(disk[Source]) /\ r.open = None /\ r.hdr = None
    BY <1>2, <1>4
<1>6. FilesOK'
    BY <1>1 DEF FilesOK, FileOK, OutOK, InOK, Writing, Reading
<1>7. DOMAIN records' = {1} /\ records'[1] = r
    BY <1>3
<1>8. Describes(records[1])'
    BY <1>1, <1>5, <1>7 DEF Describes, FileSum
<1>9. \A i \in DOMAIN records' : records'[i].name = Source' /\ Describes(records[i])'
    BY <1>4, <1>5, <1>7, <1>8
<1>10. RecordsDescribe'
    BY <1>9 DEF RecordsDescribe
<1>11. Shut'
    BY <1>1 DEF Shut
<1>12. flow' = "additional" /\ codec' \in Codecs
    BY <1>1 DEF Codecs
<1>13. Source' \in DOMAIN disk' /\ disk'[Source'] = Saved("none", Data)'
    BY <1>1, <1>4 DEF Saved, Data, Package
<1>14. flow' = "database" => codec' # "none"
    BY <1>12
<1> HIDE DEF CopyInv
<1>15. open'["out"] = Closed /\ open'["in"] = Closed
    BY <1>11 DEF Shut
<1> QED BY <1>1, <1>4, <1>6, <1>9, <1>10, <1>12, <1>13, <1>14, <1>15 DEF CopyInv

LEMMA CopyRests ==
    ASSUME CopyInv, UNCHANGED metaVars
    PROVE  CopyInv'
<1>1. /\ UNCHANGED <<disk, room, open, block, err, stat>>
      /\ UNCHANGED <<flow, codec, pc, broken, records>>
    BY DEF metaVars, xmlVars, fileVars
<1>2. /\ UNCHANGED <<Source, Target, Copying>> /\ UNCHANGED Suffix(Target)
    BY <1>1, CopyFixed
<1>3. FilesOK' = FilesOK
    BY <1>1 DEF FilesOK, FileOK, OutOK, InOK, Writing, Reading
<1>4. /\ CopyRead' = CopyRead /\ CopyWrite' = CopyWrite /\ CopyClose' = CopyClose /\ Shut' = Shut
    BY <1>1, <1>2 DEF CopyRead, CopyWrite, CopyClose, Shut, InIs, OutIs, AsFar
<1>5. RecordsDescribe' = RecordsDescribe
    BY <1>1 DEF RecordsDescribe, Describes, FileSum
<1>6. (\A i \in DOMAIN records : records[i].name = Source /\ Describes(records[i]))'
        = (\A i \in DOMAIN records : records[i].name = Source /\ Describes(records[i]))
    BY <1>1, <1>2 DEF Describes, FileSum
<1>7. InIs(Source, "none", 0)' = InIs(Source, "none", 0)
    BY <1>1, <1>2 DEF InIs
<1> QED BY <1>1, <1>2, <1>3, <1>4, <1>5, <1>6, <1>7 DEF CopyInv

LEMMA CopyStep ==
    ASSUME CopyInv, [MetaNext]_metaVars, flow \in {"database", "additional"}
    PROVE  CopyInv'
<1>1. pc \in {"fill", "compress", "read", "write", "closeold", "closenew", "end"}
      /\ (pc = "fill" => flow = "additional")
    BY DEF CopyInv
<1>2. ~(XmlStart \/ SetNumber \/ DumpHeader \/ DumpPackage \/ DumpSkips \/ CloseXml
        \/ CheckCount \/ RewriteStep \/ CheckRewrite \/ RecordXml)
    BY <1>1 DEF XmlStart, SetNumber, DumpHeader, DumpPackage, DumpSkips, CloseXml,
       CheckCount, RewriteStep, CheckRewrite, RecordXml
<1>3. RecordAdditional => flow = "additional"
    BY <1>1 DEF RecordAdditional
<1> QED BY <1>2, <1>3, CopyOpened, CopyCreated, CopyReads, CopyWrites, CopyClosesOld,
           DatabaseRecorded, ZchunkRecorded, AdditionalRecorded, CopyRests DEF MetaNext

LEMMA CopyStarts ==
    ASSUME MetaInit, Copying
    PROVE  CopyInv
<1>1. /\ codec \in Codecs /\ (flow = "database" => codec # "none") /\ room \in 0..MaxRoom
      /\ records = <<>> /\ exit = "running"
      /\ open = [h \in Handles |-> Closed] /\ block = <<>> /\ err = FALSE
    BY DEF MetaInit, XmlInit, FileInit
<1>2. open["in"] = Closed /\ open["out"] = Closed /\ open = [h \in Handles |-> open[h]]
    BY <1>1 DEF Handles
<1>3. disk = [n \in {Source} |-> Saved("none", Data)]
    BY DEF MetaInit, Copying, Source
<1>4. pc \in {"compress", "fill"} /\ (pc = "fill" => flow = "additional")
    BY DEF MetaInit, Copying
<1>5. FilesOK
  <2>1. PICK f : f = Saved("none", Data)
      OBVIOUS
  <2>2. f = [codec |-> "none", content |-> Data, cuts |-> <<>>, whole |-> TRUE]
      BY <2>1 DEF Saved
  <2>3. FileOK(f)
    <3>1. Data \in Seq(Block) /\ <<>> \in Seq(Nat) /\ Within(<<>>, Data)
        BY DataIs DEF Within
    <3> HIDE DEF Data
    <3>2. f.codec = "none" /\ f.content = Data /\ f.cuts = <<>> /\ f.whole = TRUE
        BY <2>2
    <3> QED BY <2>2, <3>1, <3>2 DEF FileOK
  <2>4. \A n \in DOMAIN disk : disk[n] = f
      BY <1>3, <2>1
  <2>5. room \in Nat /\ block \in Seq(Block) /\ err \in BOOLEAN
    <3>1. <<>> \in Seq(Block)
        OBVIOUS
    <3>2. room \in Nat
        BY <1>1, MetadataFilesAssumption
    <3> QED BY <1>1, <3>1, <3>2
  <2>6. ~Writing /\ ~Reading
      BY <1>2 DEF Writing, Reading, Closed
  <2> QED BY <1>2, <2>3, <2>4, <2>5, <2>6 DEF FilesOK
<1>6. Source \in DOMAIN disk /\ disk[Source] = Saved("none", Data)
    BY <1>3
<1>7. \A i \in DOMAIN records : records[i].name = Source /\ Describes(records[i])
    BY <1>1
<1>8. Shut
    BY <1>2 DEF Shut
<1> QED BY <1>1, <1>2, <1>4, <1>5, <1>6, <1>7, <1>8 DEF CopyInv

-----------------------------------------------------------------------------
(* The theorems.                                                           *)

\* The copies of additional metadata that were compressed already are not
\* promised anything.
CopyPcs == {"fill", "compress", "read", "write", "closeold", "closenew", "end"}
MetaInv ==
    /\ flow \in {"xml", "database", "additional"}
    /\ flow = "xml" => XmlInv
    /\ Copying => CopyInv
    /\ flow # "xml" => pc \in CopyPcs

LEMMA FlowStays ==
    ASSUME [MetaNext]_metaVars
    PROVE  UNCHANGED <<flow, codec, broken>>
BY DEF MetaNext, metaVars, Same, XmlStart, SetNumber, DumpHeader, DumpPackage, DumpSkips,
   CloseXml, CheckCount, RewriteStep, CheckRewrite, RecordXml, CompressOpens, CompressCreates,
   CompressReads, CompressWrites, CompressClosesOld, RecordDatabase, RecordAdditional,
   RecordZchunk

\* A copy never turns into XML.
LEMMA CopiesOn ==
    ASSUME pc \in CopyPcs, [MetaNext]_metaVars
    PROVE  pc' \in CopyPcs
<1>1. ~(XmlStart \/ SetNumber \/ DumpHeader \/ DumpPackage \/ DumpSkips \/ CloseXml
        \/ CheckCount \/ RewriteStep \/ CheckRewrite \/ RecordXml)
    BY DEF XmlStart, SetNumber, DumpHeader, DumpPackage, DumpSkips, CloseXml,
       CheckCount, RewriteStep, CheckRewrite, RecordXml, CopyPcs
<1>2. CASE UNCHANGED metaVars
    BY <1>2 DEF metaVars
<1>3. CASE CompressOpens \/ CompressCreates \/ CompressReads \/ CompressWrites
    BY <1>3 DEF CompressOpens, CompressCreates, CompressReads, CompressWrites, To, CopyPcs
<1>4. CASE CompressClosesOld \/ RecordDatabase \/ RecordAdditional \/ RecordZchunk
    BY <1>4 DEF CompressClosesOld, RecordDatabase, RecordAdditional, RecordZchunk, To,
       Exits, CopyPcs
<1> QED BY <1>1, <1>2, <1>3, <1>4 DEF MetaNext

\* Whatever is copied or written, the files are as far as "pc" and "rw" say:
\* the inductive invariant.
THEOREM FilesInductive == MetaSpec => []MetaInv
<1>1. MetaInit => MetaInv
    BY XmlStarts, CopyStarts DEF MetaInv, MetaInit, CopyPcs
<1>2. MetaInv /\ [MetaNext]_metaVars => MetaInv'
  <2> SUFFICES ASSUME MetaInv, [MetaNext]_metaVars PROVE MetaInv'
      OBVIOUS
  <2>1. UNCHANGED <<flow, codec, broken>>
      BY FlowStays
  <2>2. Copying' = Copying
      BY <2>1, CopyFixed
  <2>3. flow = "xml" => XmlInv'
      BY XmlStep DEF MetaInv
  <2>4. Copying => CopyInv'
    <3>1. Copying => flow \in {"database", "additional"}
        BY DEF Copying
    <3> QED BY <3>1, CopyStep DEF MetaInv
  <2>5. flow # "xml" => pc' \in CopyPcs
      BY CopiesOn DEF MetaInv
  <2> QED BY <2>1, <2>2, <2>3, <2>4, <2>5 DEF MetaInv
<1> QED BY <1>1, <1>2, PTL DEF MetaSpec

LEMMA XmlTells ==
    ASSUME XmlInv
    PROVE  StatusTells /\ FilesDescribed
<1>1. CASE pc = "end"
    BY <1>1 DEF XmlInv
<1>2. CASE pc # "end"
  <2>1. exit = "running" /\ records = <<>>
      BY <1>2 DEF XmlInv
  <2>2. ~Published /\ DOMAIN records = {}
      BY <2>1 DEF Published
  <2> QED BY <2>2 DEF StatusTells, FilesDescribed, RecordsDescribe, ChunksApart
<1> QED BY <1>1, <1>2

\* When the XML is published and the exit status tells of no error but of
\* broken packages, the file is whole (error_check_and_set_content_stat, the
\* closing of the XML files in main).
THEOREM StatusCanBeTrusted == MetaSpec => []StatusTells
<1>1. MetaInv => StatusTells
  <2>1. flow # "xml" => StatusTells
      BY DEF StatusTells, Published
  <2> QED BY <2>1, XmlTells DEF MetaInv
<1> QED BY <1>1, FilesInductive, PTL

\* The records of repomd.xml have the checksums of their files, and zchunk
\* files are cut at each package (cr_repomd_record_fill,
\* cr_repomd_record_compress_and_fill, cr_rewrite_pkg_count).
THEOREM RecordsCanBeTrusted == MetaSpec => []FilesDescribed
<1>1. MetaInv => FilesDescribed
  <2> SUFFICES ASSUME MetaInv PROVE FilesDescribed
      OBVIOUS
  <2>1. CASE flow = "xml"
      BY <2>1, XmlTells DEF MetaInv
  <2>2. CASE Copying
    <3>1. CopyInv
        BY <2>2 DEF MetaInv
    <3>2. RecordsDescribe
        BY <3>1 DEF CopyInv, RecordsDescribe
    <3>3. flow # "xml"
        BY <2>2 DEF Copying
    <3> QED BY <3>2, <3>3 DEF FilesDescribed, ChunksApart, Published
  <2>3. CASE flow = "additional" /\ codec # "none"
      BY <2>3 DEF FilesDescribed, RecordsDescribe, ChunksApart, Published
  <2>4. flow \in {"xml", "database", "additional"}
      BY DEF MetaInv
  <2> QED BY <2>1, <2>2, <2>3, <2>4 DEF Copying
<1> QED BY <1>1, FilesInductive, PTL

LEMMA WholeRemains ==
    ASSUME MetaInv, MetaInv', [MetaNext]_metaVars, pc = "rewrite", codec \notin Blind,
           disk[XmlName].whole
    PROVE  disk'[XmlName].whole
<1>1. UNCHANGED <<flow, codec, broken>> /\ XmlName' = XmlName
    BY FlowStays, Fixed
<1>2. flow = "xml" /\ XmlInv'
    BY <1>1 DEF MetaInv, CopyPcs
<1>3. pc' \in {"rewrite", "record"}
    BY DEF MetaNext, metaVars, XmlStart, SetNumber, DumpHeader, DumpPackage, DumpSkips,
       CloseXml, CheckCount, RewriteStep, CheckRewrite, RecordXml, CompressOpens,
       CompressCreates, CompressReads, CompressWrites, CompressClosesOld, RecordDatabase,
       RecordAdditional, RecordZchunk, To
<1>4. codec' \notin Blind
    BY <1>1
<1>5. CASE pc' = "rewrite"
  <2>1. Rewriting'
      BY <1>2, <1>5 DEF XmlInv
  <2>2. OldIs' \/ NewIs(XmlName)'
      BY <2>1 DEF Rewriting
  <2>3. disk'[XmlName'].whole
      BY <1>4, <2>2 DEF OldIs, NewIs
  <2> QED BY <1>1, <2>3
<1>6. CASE pc' = "record"
  <2>1. Recording'
      BY <1>2, <1>6 DEF XmlInv
  <2>2. disk'[XmlName'].whole
      BY <1>4, <2>1 DEF Recording
  <2> QED BY <1>1, <2>2
<1> QED BY <1>3, <1>5, <1>6

\* The file that is rewritten stays whole until a whole one replaces it
\* (cr_rewrite_header_package_count).
THEOREM WholeUntilReplaced == MetaSpec => OldUntilNew
<1>1. MetaInv /\ MetaInv' /\ [MetaNext]_metaVars =>
        [(pc = "rewrite" /\ disk[XmlName].whole /\ codec \notin Blind)
           => disk'[XmlName].whole]_metaVars
    BY WholeRemains
<1>2. MetaSpec => [][(pc = "rewrite" /\ disk[XmlName].whole /\ codec \notin Blind)
                        => disk'[XmlName].whole]_metaVars
    BY <1>1, FilesInductive, PTL DEF MetaSpec
<1> QED BY <1>2 DEF OldUntilNew
==============================================================================
