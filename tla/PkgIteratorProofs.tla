-------------------------- MODULE PkgIteratorProofs --------------------------
(***************************************************************************)
(* What the iterator promises for any contents of the three files, any     *)
(* chunks, and whatever the caller's newpkgcb accepts.  The packages are   *)
(* handed out, queued and listed in the order of their making (Numbered);  *)
(* the count of a file and the packages completed so far are the wanted    *)
(* elements it has supplied (InStep), so the package it fills next is the  *)
(* right one; and filelists and other are always read up to primary, so    *)
(* nothing is completed any more once primary is at its end (Ahead).       *)
(***************************************************************************)
EXTENDS PkgIterator, FiniteSetTheorems, SequenceTheorems, TLAPS

Package == [id : PkgIds, parts : [Files -> Nat]]

TypeOK ==
    /\ input \in Inputs
    /\ pc \in Files \union {"idle", "loop", "ended", "failed", "freed"}
    /\ error \in {"none", "unreadable", "out_of_order", "interrupted"}
    /\ reading \in BOOLEAN /\ progress \in BOOLEAN
    /\ at \in [Files -> Nat]
    /\ open \in [Files -> BOOLEAN]
    /\ current \in [Files -> Nat]
    /\ done \subseteq Files
    /\ packages \in Seq(Package)
    /\ inProgress \in Seq(Nat) /\ finished \in Seq(Nat) /\ returned \in Seq(Nat)
    /\ count \in [Files -> Nat]

\* The packages that are complete, which are the first ones.
Base == Len(returned) + Len(finished)
Supplied(f) == Base + count[f]

\* Of packages ps and a list of those in progress.
NumberedIn(ps, list) ==
    /\ Len(ps) = Base + Len(list)
    /\ \A k \in DOMAIN list : list[k] = Base + k

Numbered ==
    /\ NumberedIn(packages, inProgress)
    /\ \A k \in DOMAIN returned : returned[k] = k
    /\ \A k \in DOMAIN finished : finished[k] = Len(returned) + k

Freeing == pc = "freed" /\ ~input.callback => freed = inProgress \o finished

\* Whose turn it is, and what can have been parsed.
Turns ==
    /\ reading => pc \in LoadingFlags \ done
    /\ Files \ LoadingFlags \subseteq done
    /\ \A f \in Files :
         /\ at[f] <= Len(Content(f))
         /\ open[f] => f \in LoadingFlags /\ at[f] < Len(Content(f))
    /\ \A f \in LoadingFlags \intersect done : AllParsed(f)
    /\ pc = "ended" => IsFinished /\ finished = <<>>
    /\ error # "none" => pc \in {"failed", "freed"}
    /\ pc = "failed" => error # "none"

\* A file has supplied packages of the list, and one that supplies none of them
\* keeps the first from being complete.
Counts ==
    /\ \A f \in LoadingFlags : count[f] <= Len(inProgress)
    /\ \E f \in LoadingFlags : count[f] = 0

\* A package has its part from the files that have come to it, and it is the
\* wanted element of its number.
PartsIn(ps) ==
    \A m \in DOMAIN ps, f \in Files :
      /\ ps[m].parts[f] # 0 <=> f \in LoadingFlags /\ m <= Supplied(f)
      /\ ps[m].parts[f] # 0 =>
           /\ IsWanted(f, ps[m].parts[f], m)
           /\ ps[m].id = Content(f)[ps[m].parts[f]]

Parts == PartsIn(packages)

\* A package is wanted, and has its number in the file that it was first met in.
NamedIn(ps) ==
    \A m \in DOMAIN ps : \E f \in LoadingFlags : \E i \in DOMAIN Content(f) :
      IsWanted(f, i, m) /\ ps[m].id = Content(f)[i]

InStep ==
    error = "none" =>
      /\ \A f \in LoadingFlags : Rank(f)[at[f]] = Supplied(f)
      /\ NamedIn(packages)

\* What the parser of a file fills is the package that is next for that file.
Filling ==
    error = "none" =>
      \A f \in Files :
        IF f = "primary" \/ ~open[f]
          THEN current[f] = 0
          ELSE IF current[f] = 0
                 THEN ~Wanted(NextId(f))
                 ELSE /\ current[f] = Supplied(f) + 1
                      /\ current[f] <= Len(packages)
                      /\ packages[current[f]].id = NextId(f)
                      /\ Wanted(NextId(f))

UpToPrimary(f) == f \in done \/ count[f] >= count["primary"]

Ahead ==
    /\ (\/ pc \in {"idle", "loop", "ended"}
        \/ pc = "primary" /\ ~reading
        \/ "primary" \in done)
       => \A f \in LoadingFlags : UpToPrimary(f)
    /\ pc = "other" => UpToPrimary("filelists")
    /\ pc = "primary" /\ ~reading => finished = <<>>
    /\ "primary" \in done => finished = <<>>

IInv ==
    /\ TypeOK /\ Numbered /\ Freeing /\ Turns /\ Counts /\ Parts /\ InStep
    /\ Filling /\ Ahead /\ OutOfOrderOnlyIfSo

-----------------------------------------------------------------------------
USE PkgIteratorAssumption

\* A wanted element has the next rank, any other leaves it.
LEMMA RankStep ==
    ASSUME TypeOK, NEW f \in Files
    PROVE  /\ Content(f) \in Seq(PkgIds)
           /\ DOMAIN Content(f) = 1 .. Len(Content(f)) /\ Len(Content(f)) \in Nat
           /\ Rank(f)[0] = 0
           /\ \A i \in 0 .. Len(Content(f)) : Rank(f)[i] \in Nat
           /\ \A i \in 0 .. Len(Content(f)) - 1 :
                Rank(f)[i + 1] = IF Wanted(Content(f)[i + 1])
                                   THEN Rank(f)[i] + 1 ELSE Rank(f)[i]
<1>1. Content(f) \in Seq(PkgIds)
    BY DEF TypeOK, Content
<1>2. DOMAIN Content(f) = 1 .. Len(Content(f)) /\ Len(Content(f)) \in Nat
    BY <1>1
<1> DEFINE W(i) == {j \in 1 .. i : Wanted(Content(f)[j])}
<1>3. \A i \in 0 .. Len(Content(f)) : Rank(f)[i] = Cardinality(W(i))
    BY DEF Rank
<1>4. \A i \in Nat : IsFiniteSet(W(i)) /\ Cardinality(W(i)) \in Nat
  <2> SUFFICES ASSUME NEW i \in Nat
               PROVE  IsFiniteSet(W(i)) /\ Cardinality(W(i)) \in Nat
      OBVIOUS
  <2>1. IsFiniteSet(1 .. i)
      BY FS_Interval
  <2>2. IsFiniteSet(W(i))
      BY <2>1, FS_Subset
  <2> QED BY <2>2, FS_CardinalityType
<1>5. Rank(f)[0] = 0
  <2>1. W(0) = {}
      OBVIOUS
  <2> QED BY <1>2, <1>3, <2>1, FS_EmptySet
<1>6. ASSUME NEW i \in 0 .. Len(Content(f)) - 1
      PROVE  Rank(f)[i + 1] = IF Wanted(Content(f)[i + 1])
                                THEN Rank(f)[i] + 1 ELSE Rank(f)[i]
  <2>1. i \in Nat /\ i \in 0 .. Len(Content(f)) /\ i + 1 \in 0 .. Len(Content(f))
      BY <1>2
  <2>2. i + 1 \notin W(i)
      BY <2>1
  <2>3. CASE Wanted(Content(f)[i + 1])
    <3>1. W(i + 1) = W(i) \union {i + 1}
        BY <2>1, <2>3
    <3>2. Cardinality(W(i) \union {i + 1}) = Cardinality(W(i)) + 1
        BY <1>4, <2>1, <2>2, FS_AddElement
    <3> QED BY <1>3, <2>1, <2>3, <3>1, <3>2
  <2>4. CASE ~Wanted(Content(f)[i + 1])
    <3>1. W(i + 1) = W(i)
        BY <2>1, <2>4
    <3> QED BY <1>3, <2>1, <2>4, <3>1
  <2> QED BY <2>3, <2>4
<1>7. \A i \in 0 .. Len(Content(f)) : Rank(f)[i] \in Nat
  <2> HIDE DEF W
  <2> QED BY SMTT(30), <1>2, <1>3, <1>4
<1> QED BY <1>1, <1>2, <1>5, <1>6, <1>7

LEMMA InputFixed ==
    ASSUME UNCHANGED input
    PROVE  /\ LoadingFlags' = LoadingFlags
           /\ \A f \in Files : Content(f)' = Content(f) /\ Rank(f)' = Rank(f)
BY DEF LoadingFlags, Content, Rank, Wanted

LEMMA FlagsInFiles == TypeOK => LoadingFlags \subseteq Files /\ "primary" \in LoadingFlags
BY DEF TypeOK, LoadingFlags, Files

LEMMA Lengths ==
    ASSUME TypeOK
    PROVE  /\ Len(returned) \in Nat /\ Len(finished) \in Nat
           /\ Len(inProgress) \in Nat /\ Len(packages) \in Nat
           /\ DOMAIN packages = 1 .. Len(packages)
           /\ Base \in Nat
           /\ \A f \in Files : count[f] \in Nat /\ Supplied(f) = Base + count[f]
<1>1. /\ Len(returned) \in Nat /\ Len(finished) \in Nat
      /\ Len(inProgress) \in Nat /\ Len(packages) \in Nat
      /\ DOMAIN packages = 1 .. Len(packages)
    BY DEF TypeOK
<1> QED BY <1>1 DEF TypeOK, Base, Supplied

\* The files that are out of order are so from the start.
LEMMA OutOfOrderFrame ==
    ASSUME IInv, UNCHANGED input, error' = error \/ error' # "out_of_order"
    PROVE  OutOfOrderOnlyIfSo'
<1>1. SUFFICES ASSUME error = "out_of_order"
               PROVE  OutOfOrderOnlyIfSo'
    BY DEF OutOfOrderOnlyIfSo
<1>2. PICK f, g \in LoadingFlags : \E i \in DOMAIN Content(f), j \in DOMAIN Content(g) :
        /\ IsWanted(f, i, Rank(g)[j]) /\ IsWanted(g, j, Rank(f)[i])
        /\ Content(f)[i] # Content(g)[j]
    BY <1>1 DEF IInv, OutOfOrderOnlyIfSo
<1>3. f \in Files /\ g \in Files
    BY <1>2, FlagsInFiles DEF IInv
<1> QED BY <1>2, <1>3, InputFixed DEF OutOfOrderOnlyIfSo, IsWanted, Wanted

LEMMA ListsFrame ==
    ASSUME IInv, UNCHANGED <<input, listVars, returned>>
    PROVE  Numbered' /\ Counts' /\ Parts' /\ NamedIn(packages)' = NamedIn(packages)
<1>1. Numbered'
    BY DEF IInv, Numbered, NumberedIn, Base, listVars
<1>2. Counts'
    BY InputFixed DEF IInv, Counts, listVars
<1>3. Parts'
    BY InputFixed DEF IInv, Parts, PartsIn, Supplied, Base, IsWanted, Wanted, listVars
<1>4. NamedIn(packages)' = NamedIn(packages)
    BY DEF NamedIn, IsWanted, Wanted, listVars, LoadingFlags, Content, Rank
<1> QED BY <1>1, <1>2, <1>3, <1>4

\* While only the control moves on.
LEMMA DataFrame ==
    ASSUME IInv, UNCHANGED <<input, listVars, returned, at, open, current>>,
           error' = "none" => error = "none"
    PROVE  Numbered' /\ Counts' /\ Parts' /\ InStep' /\ Filling'
<1>1. InStep'
    BY ListsFrame, InputFixed, FlagsInFiles DEF IInv, InStep, Supplied, Base, listVars
<1>2. Filling'
    BY DEF IInv, Filling, Supplied, Base, listVars, NextId, Wanted, Content
<1> QED BY <1>1, <1>2, ListsFrame

-----------------------------------------------------------------------------
(* The end of an element of f, which is the part of package p of ps.       *)

\* What the callbacks of the parsers have made sure of before they supply it.
Suppliable(f, p, ps, list) ==
    /\ pc = f /\ reading /\ open[f]
    /\ ps \in Seq(Package) /\ list \in Seq(Nat)
    /\ NumberedIn(ps, list) /\ PartsIn(ps) /\ NamedIn(ps)
    /\ Len(inProgress) <= Len(list) /\ Len(packages) <= Len(ps)
    /\ \A m \in DOMAIN packages : ps[m].id = packages[m].id
    /\ p = Supplied(f) + 1 /\ p <= Len(ps)
    /\ ps[p].id = NextId(f) /\ Wanted(NextId(f))

\* What a turn of f means.
LEMMA TurnFacts ==
    ASSUME IInv, NEW f \in Files, pc = f, reading
    PROVE  /\ f \in LoadingFlags /\ f \notin done
           /\ error = "none"
           /\ Rank(f)[at[f]] = Supplied(f)
           /\ at[f] \in 0 .. Len(Content(f))
<1>1. f \in LoadingFlags /\ f \notin done /\ error = "none"
    BY DEF IInv, Turns, Files
<1> QED BY <1>1, RankStep DEF IInv, Turns, TypeOK, InStep

\* A package is complete when it is the first and only f lacked its part.
LEMMA SupplyCompletes ==
    ASSUME IInv, NEW f \in Files, NEW p, NEW ps, NEW list,
           Suppliable(f, p, ps, list),
           IsComplete([ps[p].parts EXCEPT ![f] = at[f] + 1])
    PROVE  /\ count[f] = 0 /\ p = Base + 1
           /\ \A g \in LoadingFlags \ {f} : count[g] >= 1
<1>1. /\ p \in DOMAIN ps /\ ps[p].parts \in [Files -> Nat]
      /\ Base \in Nat /\ count[f] \in Nat /\ p = Base + count[f] + 1
  <2>1. Base \in Nat /\ count[f] \in Nat /\ p = Base + count[f] + 1
      BY Lengths DEF Suppliable, IInv
  <2>2. p \in 1 .. Len(ps) /\ ps \in Seq(Package)
      BY <2>1 DEF Suppliable
  <2>3. p \in DOMAIN ps /\ ps[p] \in Package
      BY <2>2
  <2> QED BY <2>1, <2>3 DEF Package
<1>2. ASSUME NEW g \in LoadingFlags \ {f}
      PROVE  count[g] >= count[f] + 1
  <2>1. g \in Files /\ count[g] \in Nat
      BY FlagsInFiles DEF IInv, TypeOK
  <2>2. ps[p].parts[g] # 0
      BY <1>1, <1>2, <2>1 DEF IsComplete
  <2>3. p <= Supplied(g)
      BY <1>1, <2>1, <2>2 DEF Suppliable, PartsIn
  <2> QED BY <1>1, <2>1, <2>3 DEF Supplied
<1>3. count[f] = 0
  <2>1. PICK g \in LoadingFlags : count[g] = 0
      BY DEF IInv, Counts
  <2> QED BY <1>1, <1>2, <2>1
<1> QED BY <1>1, <1>2, <1>3, FlagsInFiles DEF IInv, TypeOK

\* The packages after it.
LEMMA SuppliedPackages ==
    ASSUME IInv, NEW f \in Files, NEW p, NEW ps, NEW list,
           Suppliable(f, p, ps, list), Supply(f, p, ps, list)
    PROVE  /\ packages' \in Seq(Package) /\ Len(packages') = Len(ps)
           /\ DOMAIN packages' = DOMAIN ps /\ DOMAIN ps = 1 .. Len(ps)
           /\ p \in DOMAIN ps
           /\ \A m \in DOMAIN ps : packages'[m].id = ps[m].id
           /\ \A m \in DOMAIN ps, g \in Files :
                packages'[m].parts[g] =
                  IF m = p /\ g = f THEN at[f] + 1 ELSE ps[m].parts[g]
<1> DEFINE parts == [ps[p].parts EXCEPT ![f] = at[f] + 1]
           e == [ps[p] EXCEPT !.parts = parts]
<1>1. p \in 1 .. Len(ps) /\ ps \in Seq(Package) /\ DOMAIN ps = 1 .. Len(ps)
  <2>1. Supplied(f) \in Nat
      BY Lengths DEF IInv
  <2>2. ps \in Seq(Package) /\ p = Supplied(f) + 1 /\ p <= Len(ps)
      BY DEF Suppliable
  <2> QED BY <2>1, <2>2
<1>2. \A m \in DOMAIN ps : ps[m] \in Package
    BY <1>1
<1>3. e \in Package /\ e.id = ps[p].id /\ e.parts = parts
  <2>1. ps[p] \in Package /\ at[f] + 1 \in Nat
      BY <1>1, <1>2 DEF IInv, TypeOK
  <2>2. parts \in [Files -> Nat]
      BY <2>1 DEF Package
  <2> HIDE DEF parts
  <2> QED BY <2>1, <2>2 DEF Package
<1>4. packages' = [ps EXCEPT ![p] = e]
    BY <1>1 DEF Supply
<1>5. /\ packages' \in Seq(Package) /\ Len(packages') = Len(ps)
      /\ \A m \in 1 .. Len(ps) : packages'[m] = IF m = p THEN e ELSE ps[m]
  <2> HIDE DEF e
  <2> QED BY <1>1, <1>3, <1>4, ExceptSeq
<1>6. \A g \in Files : parts[g] = IF g = f THEN at[f] + 1 ELSE ps[p].parts[g]
    BY <1>1, <1>2 DEF Package
<1> HIDE DEF e, parts
<1> QED BY <1>1, <1>3, <1>5, <1>6

\* The lists after it.  Of two other files, none gets ahead of the other.
LEMMA SuppliedLists ==
    ASSUME IInv, NEW f \in Files, NEW p, NEW ps, NEW list,
           Suppliable(f, p, ps, list), Supply(f, p, ps, list),
           UNCHANGED <<input, returned>>
    PROVE  /\ inProgress' \in Seq(Nat) /\ finished' \in Seq(Nat)
           /\ count' \in [Files -> Nat]
           /\ \A g \in LoadingFlags :
                Supplied(g)' = IF g = f THEN Supplied(g) + 1 ELSE Supplied(g)
           /\ Numbered' /\ Counts'
           /\ \A g \in LoadingFlags \ {f} :
                /\ \A h \in LoadingFlags \ {f} :
                     count[g] >= count[h] => count'[g] >= count'[h]
                /\ count[f] >= count[g] => count'[f] >= count'[g]
           /\ finished' = finished \/ \A g \in LoadingFlags : count[g] >= IF g = f THEN 0 ELSE 1
           /\ finished' = finished \/ count[f] = 0
<1> DEFINE parts == [ps[p].parts EXCEPT ![f] = at[f] + 1]
<1>1. /\ f \in LoadingFlags /\ LoadingFlags \subseteq Files
      /\ count \in [Files -> Nat]
      /\ finished \in Seq(Nat) /\ returned \in Seq(Nat)
      /\ list \in Seq(Nat) /\ ps \in Seq(Package) /\ p \in Nat
      /\ Base \in Nat /\ Len(ps) = Base + Len(list)
      /\ p = Base + count[f] + 1 /\ p <= Len(ps)
  <2>1. f \in LoadingFlags
      BY TurnFacts DEF Suppliable
  <2>2. /\ LoadingFlags \subseteq Files /\ count \in [Files -> Nat]
        /\ finished \in Seq(Nat) /\ returned \in Seq(Nat)
      BY FlagsInFiles DEF IInv, TypeOK
  <2> QED BY <2>1, <2>2, Lengths DEF IInv, Suppliable, NumberedIn
<1>2. /\ \A k \in DOMAIN list : list[k] = Base + k
      /\ \A g \in LoadingFlags : count[g] <= Len(list)
      /\ \E g \in LoadingFlags : count[g] = 0
  <2>1. Len(inProgress) \in Nat /\ Len(inProgress) <= Len(list) /\ Len(list) \in Nat
      BY <1>1 DEF Suppliable, IInv, TypeOK
  <2> QED BY <1>1, <2>1 DEF Suppliable, NumberedIn, IInv, Counts
<1>3. Len(packages') = Len(ps)
    BY SuppliedPackages
<1>4. LoadingFlags' = LoadingFlags
    BY InputFixed
<1>5. CASE IsComplete(parts)
  <2>1. /\ count[f] = 0 /\ p = Base + 1
        /\ \A g \in LoadingFlags \ {f} : count[g] >= 1
      BY <1>5, SupplyCompletes
  <2>2. /\ inProgress' = Tail(list) /\ finished' = Append(finished, p)
        /\ count' = [g \in Files |-> [count EXCEPT ![f] = @ + 1][g]
                                    - IF CountDown(g) THEN 1 ELSE 0]
      BY <1>5 DEF Supply
  <2>3. \A g \in Files : count'[g] = IF g = f THEN 0
                                    ELSE IF g \in LoadingFlags THEN count[g] - 1
                                    ELSE count[g]
      BY <1>1, <2>1, <2>2 DEF CountDown
  <2>4. count' \in [Files -> Nat]
      BY <1>1, <2>1, <2>2, <2>3
  <2>5. /\ Len(list) \in Nat \ {0} /\ list # <<>> /\ Tail(list) \in Seq(Nat)
        /\ Len(Tail(list)) = Len(list) - 1
        /\ \A k \in 1 .. Len(list) - 1 : Tail(list)[k] = list[k + 1]
      BY <1>1, <2>1
  <2>6. /\ Append(finished, p) \in Seq(Nat)
        /\ Len(Append(finished, p)) = Len(finished) + 1
        /\ \A k \in 1 .. Len(finished) : Append(finished, p)[k] = finished[k]
        /\ Append(finished, p)[Len(finished) + 1] = p
      BY <1>1
  <2>7. Base' = Base + 1
      BY <1>1, <2>2, <2>6 DEF Base
  <2>8. \A g \in LoadingFlags :
           Supplied(g)' = IF g = f THEN Supplied(g) + 1 ELSE Supplied(g)
      BY <1>1, <2>1, <2>3, <2>7 DEF Supplied
  <2>9. Numbered'
    <3>1. NumberedIn(packages, inProgress)'
      <4>1. Len(packages') = Base' + Len(inProgress')
          BY <1>1, <1>3, <2>2, <2>5, <2>7
      <4>2. DOMAIN inProgress' = 1 .. Len(list) - 1
          BY <2>2, <2>5
      <4>3. ASSUME NEW k \in 1 .. Len(list) - 1
            PROVE  inProgress'[k] = Base' + k
        <5>1. k + 1 \in DOMAIN list
            BY <1>1, <2>5
        <5>2. list[k + 1] = Base + (k + 1)
            BY <1>2, <5>1
        <5> QED BY <1>1, <2>2, <2>5, <2>7, <5>2
      <4> QED BY <4>1, <4>2, <4>3 DEF NumberedIn
    <3>2. \A k \in DOMAIN finished' : finished'[k] = Len(returned) + k
      <4>1. Len(finished) \in Nat /\ Len(returned) \in Nat
            /\ DOMAIN finished' = 1 .. Len(finished) + 1
            /\ p = Len(returned) + Len(finished) + 1
          BY <1>1, <2>1, <2>2, <2>6 DEF Base
      <4>2. \A k \in 1 .. Len(finished) : finished[k] = Len(returned) + k
          BY <1>1 DEF IInv, Numbered
      <4>3. ASSUME NEW k \in 1 .. Len(finished) + 1
            PROVE  finished'[k] = Len(returned) + k
        <5>1. CASE k \in 1 .. Len(finished)
            BY <2>2, <2>6, <4>2, <5>1
        <5>2. CASE k = Len(finished) + 1
          <6>1. finished'[k] = p
              BY <2>2, <2>6, <5>2
          <6> QED BY <4>1, <5>2, <6>1
        <5> QED BY <4>1, <5>1, <5>2
      <4> QED BY <4>1, <4>3
    <3> QED BY <3>1, <3>2 DEF IInv, Numbered
  <2>10. Counts'
    <3>1. Len(inProgress') = Len(list) - 1
        BY <2>2, <2>5
    <3>2. ASSUME NEW g \in LoadingFlags
          PROVE  count'[g] <= Len(list) - 1
      <4>1. g \in Files /\ count[g] \in Nat /\ count[g] <= Len(list)
          BY <1>1, <1>2
      <4>2. count'[g] = IF g = f THEN 0 ELSE count[g] - 1
          BY <2>3, <4>1
      <4> QED BY <2>5, <4>1, <4>2
    <3>3. count'[f] = 0
        BY <1>1, <2>3
    <3> QED BY <1>1, <1>4, <3>1, <3>2, <3>3 DEF Counts
  <2>11. \A g \in LoadingFlags \ {f} :
            /\ \A h \in LoadingFlags \ {f} :
                 count[g] >= count[h] => count'[g] >= count'[h]
            /\ count[f] >= count[g] => count'[f] >= count'[g]
      BY <1>1, <2>1, <2>3
  <2>12. inProgress' \in Seq(Nat) /\ finished' \in Seq(Nat)
      BY <2>2, <2>5, <2>6
  <2>13. \A g \in LoadingFlags : count[g] >= IF g = f THEN 0 ELSE 1
      BY <1>1, <2>1
  <2> QED BY <2>1, <2>4, <2>8, <2>9, <2>10, <2>11, <2>12, <2>13
<1>6. CASE ~IsComplete(parts)
  <2>1. /\ inProgress' = list /\ finished' = finished
        /\ count' = [count EXCEPT ![f] = @ + 1]
      BY <1>6 DEF Supply
  <2>2. /\ count' \in [Files -> Nat]
        /\ \A g \in Files : count'[g] = IF g = f THEN count[g] + 1 ELSE count[g]
      BY <1>1, <2>1
  <2>3. Base' = Base
      BY <2>1 DEF Base
  <2>4. \A g \in LoadingFlags :
           Supplied(g)' = IF g = f THEN Supplied(g) + 1 ELSE Supplied(g)
    <3>1. \A g \in LoadingFlags : Supplied(g)' = Base' + count'[g]
        BY DEF Supplied
    <3>2. \A g \in LoadingFlags : Supplied(g) = Base + count[g]
        BY DEF Supplied
    <3> QED BY SMTT(30), <1>1, <2>2, <2>3, <3>1, <3>2
  <2>5. Numbered'
      BY <1>1, <1>2, <1>3, <2>1, <2>3 DEF IInv, Numbered, NumberedIn
  <2>6. Counts'
    <3>1. \E g \in LoadingFlags \ {f} : count[g] = 0
      <4>1. SUFFICES ASSUME \A g \in LoadingFlags \ {f} : count[g] # 0
                     PROVE  FALSE
          OBVIOUS
      <4>2. count[f] = 0 /\ p = Base + 1
          BY <1>1, <1>2, <4>1
      <4>3. ASSUME NEW g \in LoadingFlags \ {f}
            PROVE  ps[p].parts[g] # 0
        <5>1. g \in Files /\ count[g] \in Nat /\ count[g] # 0 /\ p \in DOMAIN ps
            BY <1>1, <4>1
        <5>2. p <= Supplied(g)
            BY <1>1, <4>2, <5>1 DEF Supplied
        <5> QED BY <5>1, <5>2 DEF Suppliable, PartsIn
      <4>4. /\ ps[p].parts \in [Files -> Nat]
            /\ at[f] + 1 # 0
        <5>1. p \in DOMAIN ps /\ ps[p] \in Package
            BY <1>1
        <5>2. at[f] \in Nat
            BY DEF IInv, TypeOK
        <5> QED BY <5>1, <5>2 DEF Package
      <4>5. IsComplete(parts)
          BY <1>1, <4>3, <4>4 DEF IsComplete
      <4> QED BY <1>6, <4>5
    <3>2. count'[f] <= Len(list)
        BY <1>1, <2>2
    <3> QED BY <1>1, <1>2, <1>4, <2>1, <2>2, <3>1, <3>2 DEF Counts
  <2> QED BY <1>1, <2>1, <2>2, <2>4, <2>5, <2>6
<1> HIDE DEF parts
<1> QED BY <1>5, <1>6

\* What the callbacks do besides, and nothing fails.
Ending(f) ==
    /\ open' = [open EXCEPT ![f] = FALSE]
    /\ at' = [at EXCEPT ![f] = @ + 1]
    /\ progress' = TRUE
    /\ current' = [current EXCEPT ![f] = 0]
    /\ UNCHANGED <<input, pc, error, reading, done, returned, freed>>

\* The next element of f has the rank of the package it is for.
LEMMA NextRank ==
    ASSUME IInv, NEW f \in Files, pc = f, reading, at[f] < Len(Content(f)),
           Wanted(NextId(f))
    PROVE  /\ IsWanted(f, at[f] + 1, Supplied(f) + 1)
           /\ at[f] + 1 \in 1 .. Len(Content(f))
<1>1. at[f] + 1 \in 1 .. Len(Content(f)) /\ at[f] \in 0 .. Len(Content(f)) - 1
    BY RankStep DEF IInv, TypeOK
<1>2. Rank(f)[at[f] + 1] = Rank(f)[at[f]] + 1
    BY <1>1, RankStep DEF IInv, NextId
<1> QED BY <1>1, <1>2, RankStep, TurnFacts DEF IInv, IsWanted, NextId

LEMMA SuppliedParts ==
    ASSUME IInv, NEW f \in Files, NEW p, NEW ps, NEW list,
           Suppliable(f, p, ps, list), Supply(f, p, ps, list), Ending(f)
    PROVE  Parts' /\ InStep'
<1>1. /\ UNCHANGED <<input, returned>> /\ LoadingFlags' = LoadingFlags
      /\ LoadingFlags \subseteq Files /\ f \in LoadingFlags
      /\ \A g \in Files : Content(g)' = Content(g) /\ Rank(g)' = Rank(g)
      /\ at'[f] = at[f] + 1 /\ at[f] \in Nat
      /\ \A g \in Files \ {f} : at'[g] = at[g]
    BY TurnFacts, InputFixed, FlagsInFiles DEF Suppliable, Ending, IInv, TypeOK
<1>2. at[f] < Len(Content(f))
    BY DEF Suppliable, IInv, Turns
<1>3. IsWanted(f, at[f] + 1, p) /\ at[f] + 1 \in 1 .. Len(Content(f))
    BY <1>2, NextRank DEF Suppliable
<1>4. /\ DOMAIN packages' = DOMAIN ps /\ DOMAIN ps = 1 .. Len(ps)
      /\ p \in DOMAIN ps
      /\ \A m \in DOMAIN ps : packages'[m].id = ps[m].id
      /\ \A m \in DOMAIN ps, g \in Files :
           packages'[m].parts[g] =
             IF m = p /\ g = f THEN at[f] + 1 ELSE ps[m].parts[g]
    BY SuppliedPackages
<1>5. \A g \in LoadingFlags :
        Supplied(g)' = IF g = f THEN Supplied(g) + 1 ELSE Supplied(g)
    BY <1>1, SuppliedLists
<1>6. Supplied(f) \in Nat /\ p = Supplied(f) + 1
    BY SMTT(30), Lengths DEF Suppliable, IInv, TypeOK
<1>7. \A i, k : \A g \in Files : IsWanted(g, i, k)' <=> IsWanted(g, i, k)
    BY <1>1 DEF IsWanted, Wanted
<1>8. ASSUME NEW m \in DOMAIN ps, NEW g \in Files
      PROVE  /\ packages'[m].parts[g] # 0
                  <=> g \in LoadingFlags /\ m <= Supplied(g)'
             /\ packages'[m].parts[g] # 0 =>
                  /\ IsWanted(g, packages'[m].parts[g], m)
                  /\ packages'[m].id = Content(g)[packages'[m].parts[g]]
  <2>1. CASE m = p /\ g = f
    <3>1. packages'[m].parts[g] = at[f] + 1
        BY <1>4, <2>1
    <3>2. packages'[m].id = Content(f)[at[f] + 1]
        BY <1>4, <2>1 DEF Suppliable, NextId
    <3> QED BY <1>1, <1>3, <1>5, <1>6, <2>1, <3>1, <3>2
  <2>2. CASE ~(m = p /\ g = f)
    <3>1. packages'[m].parts[g] = ps[m].parts[g] /\ packages'[m].id = ps[m].id
        BY <1>4, <2>2
    <3>2. g \in LoadingFlags => (m <= Supplied(g)' <=> m <= Supplied(g))
        BY <1>4, <1>5, <1>6, <2>2
    <3> QED BY <3>1, <3>2 DEF Suppliable, PartsIn
  <2> QED BY <2>1, <2>2
<1>9. Parts'
  <2>1. \A m \in DOMAIN ps, g \in Files :
          IsWanted(g, packages'[m].parts[g], m)
            <=> /\ packages'[m].parts[g] \in DOMAIN Content(g)'
                /\ Wanted(Content(g)[packages'[m].parts[g]])
                /\ Rank(g)'[packages'[m].parts[g]] = m
      BY <1>1 DEF IsWanted
  <2> QED BY <1>1, <1>4, <1>8, <2>1 DEF Parts, PartsIn, IsWanted, Wanted
<1>10. InStep'
  <2>1. \A g \in LoadingFlags : Rank(g)'[at'[g]] = Supplied(g)'
    <3>1. Rank(f)[at[f] + 1] = Supplied(f) + 1
        BY <1>3, <1>6 DEF IsWanted
    <3>2. ASSUME NEW g \in LoadingFlags, g # f PROVE Rank(g)[at[g]] = Supplied(g)
        BY <3>2, TurnFacts DEF IInv, InStep, Suppliable
    <3> QED BY <1>1, <1>5, <3>1, <3>2
  <2>2. NamedIn(packages)'
      BY SMTT(30), <1>1, <1>4, <1>7 DEF Suppliable, NamedIn
  <2> QED BY <1>1, <2>1, <2>2 DEF InStep
<1> QED BY <1>9, <1>10

\* The control after any callback of f, and the positions of the other files.
LEMMA CallbackTurns ==
    ASSUME IInv, NEW f \in Files, pc = f, reading,
           UNCHANGED <<input, done>>,
           \/ UNCHANGED <<pc, error, reading>>
           \/ pc' = "failed" /\ error' # "none" /\ ~reading',
           \A g \in Files \ {f} : at'[g] = at[g] /\ open'[g] = open[g],
           at'[f] <= Len(Content(f)), open'[f] => at'[f] < Len(Content(f))
    PROVE  Turns' /\ Freeing'
<1>1. /\ f \notin done /\ error = "none" /\ f \in LoadingFlags
      /\ LoadingFlags \subseteq Files /\ LoadingFlags' = LoadingFlags
      /\ \A g \in Files : Content(g)' = Content(g)
    BY TurnFacts, InputFixed, FlagsInFiles DEF IInv
<1>2. pc' # "freed" /\ pc' # "ended" /\ (pc' = "failed" => error' # "none")
    BY DEF Files
<1>3. ASSUME NEW g \in Files
      PROVE  /\ at'[g] <= Len(Content(g)')
             /\ open'[g] => g \in LoadingFlags /\ at'[g] < Len(Content(g)')
    BY <1>1 DEF IInv, Turns
<1>4. ASSUME NEW g \in LoadingFlags \intersect done PROVE AllParsed(g)'
  <2>1. g # f /\ g \in Files
      BY <1>1, <1>4
  <2> QED BY <1>1, <1>4, <2>1 DEF AllParsed, IInv, Turns
<1>5. /\ reading' => pc' \in LoadingFlags' \ done'
      /\ Files \ LoadingFlags' \subseteq done'
      /\ error' # "none" => pc' = "failed"
    BY <1>1 DEF IInv, Turns
<1>6. Turns'
    BY <1>1, <1>2, <1>3, <1>4, <1>5 DEF Turns
<1> QED BY <1>2, <1>6 DEF Freeing

\* Of a callback that supplies nothing.
LEMMA CallbackAhead ==
    ASSUME IInv, NEW f \in Files, pc = f, reading,
           UNCHANGED <<input, done, count, finished>>,
           UNCHANGED <<pc, reading>> \/ pc' = "failed"
    PROVE  Ahead'
BY InputFixed DEF IInv, Ahead, UpToPrimary, Files

LEMMA SuppliedControl ==
    ASSUME IInv, NEW f \in Files, pc = f, reading, open[f], Ending(f)
    PROVE  Turns' /\ Freeing' /\ OutOfOrderOnlyIfSo'
<1>1. at[f] \in Nat /\ Len(Content(f)) \in Nat /\ at[f] < Len(Content(f))
    BY RankStep DEF IInv, TypeOK, Turns
<1>2. at'[f] <= Len(Content(f)) /\ ~open'[f]
    BY <1>1 DEF Ending, IInv, TypeOK
<1>3. \A g \in Files \ {f} : at'[g] = at[g] /\ open'[g] = open[g]
    BY DEF Ending, IInv, TypeOK
<1>4. Turns' /\ Freeing'
    BY <1>2, <1>3, CallbackTurns DEF Ending
<1> QED BY <1>4, OutOfOrderFrame DEF Ending

LEMMA SuppliedFilling ==
    ASSUME IInv, NEW f \in Files, NEW p, NEW ps, NEW list,
           Suppliable(f, p, ps, list), Supply(f, p, ps, list), Ending(f)
    PROVE  Filling'
<1>1. /\ error = "none" /\ open \in [Files -> BOOLEAN] /\ current \in [Files -> Nat]
      /\ at \in [Files -> Nat] /\ UNCHANGED <<input, returned>>
      /\ Len(ps) \in Nat /\ Len(packages) \in Nat /\ Len(packages) <= Len(ps)
      /\ DOMAIN packages = 1 .. Len(packages)
    BY SMTT(30), TurnFacts, Lengths DEF Suppliable, Ending, IInv, TypeOK
<1>2. /\ Len(packages') = Len(ps) /\ DOMAIN ps = 1 .. Len(ps)
      /\ \A m \in DOMAIN ps : packages'[m].id = ps[m].id
    BY SuppliedPackages
<1>3. \A g \in LoadingFlags \ {f} : Supplied(g)' = Supplied(g)
    BY <1>1, SuppliedLists
<1>4. ASSUME NEW g \in Files
      PROVE  IF g = "primary" \/ ~open'[g]
               THEN current'[g] = 0
               ELSE IF current'[g] = 0
                      THEN ~Wanted(NextId(g))'
                      ELSE /\ current'[g] = Supplied(g)' + 1
                           /\ current'[g] <= Len(packages')
                           /\ packages'[current'[g]].id = NextId(g)'
                           /\ Wanted(NextId(g))'
  <2>1. CASE g = f
      BY <1>1, <2>1 DEF Ending
  <2>2. CASE g # f
    <3>1. /\ open'[g] = open[g] /\ current'[g] = current[g] /\ at'[g] = at[g]
          /\ NextId(g)' = NextId(g) /\ (Wanted(NextId(g))' <=> Wanted(NextId(g)))
        BY <1>1, <2>2 DEF Ending, NextId, Wanted, Content
    <3>2. CASE g = "primary" \/ ~open[g]
        BY <1>1, <3>1, <3>2 DEF IInv, Filling
    <3>3. CASE ~(g = "primary" \/ ~open[g]) /\ current[g] = 0
        BY <1>1, <3>1, <3>3 DEF IInv, Filling
    <3>4. CASE ~(g = "primary" \/ ~open[g]) /\ current[g] # 0
      <4>1. /\ current[g] = Supplied(g) + 1 /\ current[g] <= Len(packages)
            /\ packages[current[g]].id = NextId(g) /\ Wanted(NextId(g))
          BY <1>1, <3>4 DEF IInv, Filling
      <4>2. g \in LoadingFlags /\ current[g] \in 1 .. Len(packages)
          BY <1>1, <3>4, <4>1 DEF IInv, Turns
      <4>3. packages'[current[g]].id = packages[current[g]].id
        <5>1. current[g] \in DOMAIN packages /\ current[g] \in DOMAIN ps
            BY <1>1, <1>2, <4>2
        <5>2. ps[current[g]].id = packages[current[g]].id
            BY <5>1 DEF Suppliable
        <5> QED BY <1>2, <5>1, <5>2
      <4> QED BY <1>1, <1>2, <1>3, <2>2, <3>1, <3>4, <4>1, <4>2, <4>3
    <3> QED BY <3>2, <3>3, <3>4
  <2> QED BY <2>1, <2>2
<1> QED BY <1>4 DEF Filling

LEMMA SuppliedAhead ==
    ASSUME IInv, NEW f \in Files, NEW p, NEW ps, NEW list,
           Suppliable(f, p, ps, list), Supply(f, p, ps, list), Ending(f)
    PROVE  Ahead'
<1>1. /\ f \in LoadingFlags /\ f \notin done /\ "primary" \in LoadingFlags
      /\ LoadingFlags' = LoadingFlags /\ UNCHANGED <<pc, reading, done, input, returned>>
      /\ pc = f /\ reading /\ LoadingFlags \subseteq Files
    BY TurnFacts, FlagsInFiles, InputFixed DEF Suppliable, Ending, IInv
<1>2. ASSUME NEW g \in LoadingFlags, f # "primary", UpToPrimary(g)
      PROVE  UpToPrimary(g)'
  <2>1. CASE g \in done
      BY <1>1, <2>1 DEF UpToPrimary
  <2>2. CASE g \notin done
    <3>1. count[g] >= count["primary"]
        BY <1>2, <2>2 DEF UpToPrimary
    <3>2. count'[g] >= count'["primary"]
        BY <1>1, <1>2, <3>1, SuppliedLists
    <3> QED BY <3>2 DEF UpToPrimary
  <2> QED BY <2>1, <2>2
<1>3. ASSUME "primary" \in done
      PROVE  finished' = <<>> /\ \A g \in LoadingFlags : UpToPrimary(g)'
  <2>1. f # "primary" /\ finished = <<>>
    <3>1. finished = <<>>
        BY <1>3 DEF IInv, Ahead
    <3> QED BY <1>1, <1>3, <3>1
  <2>2. \A g \in LoadingFlags : UpToPrimary(g)
      BY <1>3 DEF IInv, Ahead
  <2>3. finished' = finished
    <3>1. SUFFICES ASSUME finished' # finished PROVE FALSE
        OBVIOUS
    <3>2. count[f] = 0 /\ count["primary"] >= 1
        BY <1>1, <2>1, <3>1, SuppliedLists
    <3>3. count[f] >= count["primary"]
        BY <1>1, <2>2 DEF UpToPrimary
    <3> QED BY <3>2, <3>3, FlagsInFiles DEF IInv, TypeOK
  <2> QED BY <1>2, <2>1, <2>2, <2>3
<1>4. ASSUME pc = "other" PROVE UpToPrimary("filelists")'
  <2>1. UpToPrimary("filelists") /\ f # "primary"
      BY <1>1, <1>4 DEF IInv, Ahead
  <2>2. CASE "filelists" \in LoadingFlags
      BY <1>2, <2>1, <2>2
  <2>3. CASE "filelists" \notin LoadingFlags
      BY <1>1, <2>3 DEF UpToPrimary, IInv, Turns, Files
  <2> QED BY <2>2, <2>3
<1> QED BY <1>1, <1>3, <1>4 DEF Ahead, Files

LEMMA SupplyStep ==
    ASSUME IInv, NEW f \in Files, NEW p, NEW ps, NEW list,
           Suppliable(f, p, ps, list), Supply(f, p, ps, list), Ending(f)
    PROVE  IInv'
<1>1. TypeOK'
  <2>1. packages' \in Seq(Package)
      BY SuppliedPackages
  <2>2. /\ inProgress' \in Seq(Nat) /\ finished' \in Seq(Nat)
        /\ count' \in [Files -> Nat]
      BY SuppliedLists DEF Ending
  <2>3. at \in [Files -> Nat] /\ open \in [Files -> BOOLEAN] /\ current \in [Files -> Nat]
      BY DEF IInv, TypeOK
  <2>4. at' \in [Files -> Nat] /\ open' \in [Files -> BOOLEAN] /\ current' \in [Files -> Nat]
      BY <2>3 DEF Ending
  <2>5. UNCHANGED <<input, pc, error, reading, done, returned>> /\ progress' = TRUE
      BY DEF Ending
  <2>6. TypeOK
      BY DEF IInv
  <2> QED BY <2>1, <2>2, <2>4, <2>5, <2>6 DEF TypeOK
<1>2. Numbered' /\ Counts'
    BY SuppliedLists DEF Ending
<1>3. Turns' /\ Freeing' /\ OutOfOrderOnlyIfSo'
    BY SuppliedControl DEF Suppliable
<1>4. Filling' /\ Ahead' /\ Parts' /\ InStep'
    BY SuppliedFilling, SuppliedAhead, SuppliedParts
<1> QED BY <1>1, <1>2, <1>3, <1>4 DEF IInv

LEMMA EndingTypes ==
    ASSUME TypeOK, NEW f \in Files, Ending(f)
    PROVE  at' \in [Files -> Nat] /\ open' \in [Files -> BOOLEAN]
           /\ current' \in [Files -> Nat]
BY SMTT(30) DEF TypeOK, Ending

\* The end of an element that is left out.
LEMMA SkippedStep ==
    ASSUME IInv, NEW f \in Files, pc = f, reading, open[f], Ending(f),
           ~Wanted(NextId(f)), UNCHANGED listVars
    PROVE  IInv'
<1>1. TypeOK'
    BY EndingTypes DEF IInv, TypeOK, Ending, listVars
<1>2. Numbered' /\ Counts' /\ Parts' /\ NamedIn(packages)' = NamedIn(packages)
    BY ListsFrame DEF Ending
<1>3. /\ f \in LoadingFlags /\ LoadingFlags \subseteq Files /\ error = "none"
      /\ LoadingFlags' = LoadingFlags /\ \A g \in Files : Rank(g)' = Rank(g)
      /\ at[f] \in 0 .. Len(Content(f)) - 1 /\ Rank(f)[at[f]] = Supplied(f)
      /\ \A g \in Files : Supplied(g)' = Supplied(g)
  <2>1. at[f] < Len(Content(f)) /\ Len(Content(f)) \in Nat
      BY RankStep DEF IInv, Turns
  <2>2. \A g \in Files : Supplied(g)' = Supplied(g)
      BY DEF Supplied, Base, listVars, Ending
  <2> QED BY <2>1, <2>2, TurnFacts, FlagsInFiles, InputFixed DEF Ending, IInv
<1>4. InStep'
  <2>1. Rank(f)[at[f] + 1] = Rank(f)[at[f]]
      BY <1>3, RankStep DEF IInv, NextId
  <2>2. at'[f] = at[f] + 1 /\ \A g \in Files \ {f} : at'[g] = at[g]
      BY DEF Ending, IInv, TypeOK
  <2>3. \A g \in LoadingFlags : Rank(g)'[at'[g]] = Supplied(g)'
      BY <1>3, <2>1, <2>2 DEF IInv, InStep
  <2> QED BY <1>2, <1>3, <2>3 DEF InStep, IInv
<1>5. Filling'
  <2>1. ~open'[f] /\ current'[f] = 0
      BY DEF Ending, IInv, TypeOK
  <2>2. \A g \in Files \ {f} :
          open'[g] = open[g] /\ current'[g] = current[g] /\ at'[g] = at[g]
      BY DEF Ending, IInv, TypeOK
  <2> QED BY <1>3, <2>1, <2>2
          DEF Filling, IInv, NextId, Wanted, Content, Ending, listVars
<1>6. Ahead'
    BY CallbackAhead DEF Ending, listVars
<1> QED BY <1>1, <1>2, <1>4, <1>5, <1>6, SuppliedControl DEF IInv

LEMMA EndPackageStep ==
    ASSUME IInv, NEW f \in Files, EndPackage(f)
    PROVE  IInv'
<1>1. pc = f /\ reading /\ open[f] /\ f # "primary" /\ current[f] # 0 /\ Ending(f)
    BY DEF EndPackage, End, Ending
<1>2. /\ current[f] = Supplied(f) + 1 /\ current[f] <= Len(packages)
      /\ packages[current[f]].id = NextId(f) /\ Wanted(NextId(f))
    BY <1>1, TurnFacts DEF IInv, Filling
<1>3. NamedIn(packages)
    BY <1>1, TurnFacts DEF IInv, InStep
<1>4. Suppliable(f, current[f], packages, inProgress)
    BY <1>1, <1>2, <1>3, Lengths DEF Suppliable, IInv, TypeOK, Numbered, Parts
<1>5. Supply(f, current[f], packages, inProgress)
    BY DEF EndPackage
<1> HIDE DEF IInv
<1> QED BY <1>1, <1>4, <1>5, SupplyStep

LEMMA EndSkippedStep ==
    ASSUME IInv, NEW f \in Files, EndSkipped(f)
    PROVE  IInv'
<1>1. /\ pc = f /\ reading /\ open[f] /\ f # "primary" /\ current[f] = 0
      /\ UNCHANGED listVars
    BY DEF EndSkipped, End
<1>2. Ending(f)
  <2>1. current' = [current EXCEPT ![f] = 0]
      BY <1>1 DEF EndSkipped, IInv, TypeOK
  <2> QED BY <2>1 DEF EndSkipped, End, Ending
<1>3. ~Wanted(NextId(f))
    BY <1>1, TurnFacts DEF IInv, Filling
<1> QED BY <1>1, <1>2, <1>3, SkippedStep

\* The package of the list that is next for f, if there is one.
LEMMA NextListed ==
    ASSUME IInv, NEW f \in Files, Listed(f)
    PROVE  /\ ListedPackage(f) = Supplied(f) + 1
           /\ Supplied(f) + 1 \in 1 .. Len(packages)
<1>1. count[f] \in Nat /\ count[f] < Len(inProgress) /\ Len(inProgress) \in Nat
      /\ Base \in Nat /\ Supplied(f) = Base + count[f]
      /\ DOMAIN inProgress = 1 .. Len(inProgress)
    BY Lengths DEF Listed, IInv, TypeOK
<1>2. /\ Len(packages) = Base + Len(inProgress)
      /\ \A k \in DOMAIN inProgress : inProgress[k] = Base + k
    BY DEF IInv, Numbered, NumberedIn
<1>3. count[f] + 1 \in DOMAIN inProgress
    BY <1>1
<1>4. inProgress[count[f] + 1] = Base + (count[f] + 1)
    BY <1>2, <1>3
<1> QED BY <1>1, <1>2, <1>4 DEF ListedPackage

LEMMA NextUnlisted ==
    ASSUME IInv, NEW f \in LoadingFlags, ~Listed(f)
    PROVE  Supplied(f) = Len(packages)
<1>1. count[f] \in Nat /\ ~(count[f] < Len(inProgress)) /\ Len(inProgress) \in Nat
      /\ Base \in Nat /\ Supplied(f) = Base + count[f]
    BY Lengths, FlagsInFiles DEF Listed, IInv
<1>2. Len(packages) = Base + Len(inProgress) /\ count[f] <= Len(inProgress)
    BY DEF IInv, Numbered, NumberedIn, Counts
<1> QED BY <1>1, <1>2

\* newpkgcb has accepted every package there is.
LEMMA PackagesWanted ==
    ASSUME IInv, error = "none", NEW m \in DOMAIN packages
    PROVE  Wanted(packages[m].id)
BY DEF IInv, InStep, NamedIn, IsWanted

LEMMA EndPrimaryFoundStep ==
    ASSUME IInv, EndPrimaryFound
    PROVE  IInv'
<1> DEFINE f == "primary"
<1>0. f \in Files
    BY DEF Files
<1>1. pc = f /\ reading /\ open[f] /\ Found(f)
    BY DEF EndPrimaryFound, End
<1>2. error = "none"
    BY <1>0, <1>1, TurnFacts
<1>3. Ending(f)
  <2>1. current[f] = 0
      BY <1>0, <1>2 DEF IInv, Filling
  <2>2. current' = [current EXCEPT ![f] = 0]
      BY <2>1, <1>0 DEF EndPrimaryFound, IInv, TypeOK
  <2> QED BY <2>2 DEF EndPrimaryFound, End, Ending
<1>4. /\ ListedPackage(f) = Supplied(f) + 1
      /\ Supplied(f) + 1 \in DOMAIN packages /\ Supplied(f) + 1 <= Len(packages)
      /\ packages[Supplied(f) + 1].id = NextId(f)
    BY <1>0, <1>1, NextListed, Lengths DEF Found, IInv
<1>5. Wanted(NextId(f)) /\ NamedIn(packages)
    BY <1>2, <1>4, PackagesWanted DEF IInv, InStep
<1>6. Suppliable(f, ListedPackage(f), packages, inProgress)
    BY <1>1, <1>4, <1>5, Lengths DEF Suppliable, IInv, TypeOK, Numbered, Parts
<1>7. Supply(f, ListedPackage(f), packages, inProgress)
    BY DEF EndPrimaryFound
<1> HIDE DEF IInv, f
<1> QED BY <1>0, <1>3, <1>6, <1>7, SupplyStep

LEMMA EndPrimarySkippedStep ==
    ASSUME IInv, EndPrimarySkipped
    PROVE  IInv'
<1> DEFINE f == "primary"
<1>0. f \in Files
    BY DEF Files
<1>1. pc = f /\ reading /\ open[f] /\ ~Wanted(NextId(f)) /\ UNCHANGED listVars
    BY DEF EndPrimarySkipped, End
<1>2. Ending(f)
  <2>1. current[f] = 0
      BY <1>0, <1>1, TurnFacts DEF IInv, Filling
  <2>2. current' = [current EXCEPT ![f] = 0]
      BY <2>1, <1>0 DEF EndPrimarySkipped, IInv, TypeOK
  <2> QED BY <2>2 DEF EndPrimarySkipped, End, Ending
<1> HIDE DEF f
<1> QED BY <1>0, <1>1, <1>2, SkippedStep

-----------------------------------------------------------------------------
(* A package that is made for the next element of f.                       *)

LEMMA AppendedPackage ==
    ASSUME IInv, NEW f \in Files, pc = f, reading, at[f] < Len(Content(f)),
           NEW ps, ps = Append(packages, NewPackage(f)),
           NEW list, list = Append(inProgress, NewNumber)
    PROVE  /\ ps \in Seq(Package) /\ Len(ps) = Len(packages) + 1
           /\ DOMAIN ps = DOMAIN packages \union {Len(packages) + 1}
           /\ \A m \in DOMAIN packages : ps[m] = packages[m]
           /\ ps[Len(packages) + 1] = NewPackage(f)
           /\ list \in Seq(Nat) /\ Len(list) = Len(inProgress) + 1
           /\ NumberedIn(ps, list) /\ PartsIn(ps)
<1>1. /\ packages \in Seq(Package) /\ inProgress \in Seq(Nat)
      /\ Len(packages) \in Nat /\ Len(inProgress) \in Nat /\ Base \in Nat
      /\ DOMAIN packages = 1 .. Len(packages)
      /\ DOMAIN inProgress = 1 .. Len(inProgress)
      /\ Len(packages) = Base + Len(inProgress)
      /\ \A k \in DOMAIN inProgress : inProgress[k] = Base + k
    BY Lengths DEF IInv, TypeOK, Numbered, NumberedIn
<1>2. NewPackage(f) \in Package /\ \A g \in Files : NewPackage(f).parts[g] = 0
  <2>1. at[f] + 1 \in 1 .. Len(Content(f)) /\ Content(f) \in Seq(PkgIds)
      BY RankStep DEF IInv, TypeOK
  <2>2. NextId(f) \in PkgIds
      BY <2>1 DEF NextId
  <2> QED BY <2>2 DEF NewPackage, Package
<1>3. /\ ps \in Seq(Package) /\ Len(ps) = Len(packages) + 1
      /\ \A m \in 1 .. Len(packages) : ps[m] = packages[m]
      /\ ps[Len(packages) + 1] = NewPackage(f)
  <2> DEFINE new == NewPackage(f)
  <2>1. new \in Package /\ ps = Append(packages, new) /\ packages \in Seq(Package)
      BY <1>1, <1>2
  <2> HIDE DEF new
  <2>2. /\ Append(packages, new) \in Seq(Package)
        /\ Len(Append(packages, new)) = Len(packages) + 1
        /\ \A m \in 1 .. Len(packages) : Append(packages, new)[m] = packages[m]
        /\ Append(packages, new)[Len(packages) + 1] = new
      BY <2>1, AppendProperties
  <2> QED BY <2>1, <2>2 DEF new
<1>4. DOMAIN ps = DOMAIN packages \union {Len(packages) + 1}
  <2>1. DOMAIN ps = 1 .. Len(ps)
      BY <1>3
  <2> QED BY <1>1, <1>3, <2>1
<1>5. /\ list \in Seq(Nat) /\ Len(list) = Len(inProgress) + 1
      /\ NumberedIn(ps, list)
  <2>1. NewNumber \in Nat /\ NewNumber = Base + (Len(inProgress) + 1)
      BY <1>1 DEF NewNumber
  <2>2. /\ list \in Seq(Nat) /\ Len(list) = Len(inProgress) + 1
        /\ \A k \in 1 .. Len(inProgress) : list[k] = inProgress[k]
        /\ list[Len(inProgress) + 1] = NewNumber
    <3> QED BY <1>1, <2>1, AppendProperties
  <2>3. ASSUME NEW k \in 1 .. Len(inProgress) + 1 PROVE list[k] = Base + k
    <3>1. CASE k \in 1 .. Len(inProgress)
        BY <1>1, <2>2, <3>1
    <3>2. CASE k = Len(inProgress) + 1
        BY <2>1, <2>2, <3>2
    <3> QED BY <1>1, <3>1, <3>2
  <2>4. DOMAIN list = 1 .. Len(inProgress) + 1
      BY <2>2
  <2>5. Len(ps) = Base + Len(list)
      BY <1>1, <1>3, <2>2
  <2> QED BY <2>2, <2>3, <2>4, <2>5 DEF NumberedIn
<1>6. PartsIn(ps)
  <2>1. ASSUME NEW m \in DOMAIN ps, NEW g \in Files
        PROVE  /\ ps[m].parts[g] # 0 <=> g \in LoadingFlags /\ m <= Supplied(g)
               /\ ps[m].parts[g] # 0 =>
                    /\ IsWanted(g, ps[m].parts[g], m)
                    /\ ps[m].id = Content(g)[ps[m].parts[g]]
    <3>1. CASE m \in DOMAIN packages
      <4>1. ps[m] = packages[m]
          BY <1>1, <1>3, <3>1
      <4> QED BY <3>1, <4>1 DEF IInv, Parts, PartsIn
    <3>2. CASE m = Len(packages) + 1
      <4>1. ps[m].parts[g] = 0
          BY <1>2, <1>3, <3>2
      <4>2. ASSUME g \in LoadingFlags PROVE ~(m <= Supplied(g))
        <5>1. count[g] <= Len(inProgress) /\ count[g] \in Nat
              /\ Supplied(g) = Base + count[g]
            BY <4>2, Lengths DEF IInv, Counts
        <5> QED BY <1>1, <3>2, <5>1
      <4> QED BY <4>1, <4>2
    <3> QED BY <1>4, <3>1, <3>2
  <2> QED BY <2>1 DEF PartsIn
<1> QED BY <1>1, <1>3, <1>4, <1>5, <1>6

\* Nobody else has come as far as f.
LEMMA AppendedNamed ==
    ASSUME IInv, NEW f \in Files, pc = f, reading, at[f] < Len(Content(f)),
           ~Listed(f), Wanted(NextId(f)),
           NEW ps, ps = Append(packages, NewPackage(f))
    PROVE  NamedIn(ps) /\ Supplied(f) = Len(packages)
<1>1. /\ DOMAIN ps = DOMAIN packages \union {Len(packages) + 1}
      /\ \A m \in DOMAIN packages : ps[m] = packages[m]
      /\ ps[Len(packages) + 1] = NewPackage(f)
    BY AppendedPackage
<1>2. f \in LoadingFlags /\ Supplied(f) = Len(packages) /\ error = "none"
    BY TurnFacts, NextUnlisted
<1>3. ASSUME NEW m \in DOMAIN ps
      PROVE  \E g \in LoadingFlags : \E i \in DOMAIN Content(g) :
               IsWanted(g, i, m) /\ ps[m].id = Content(g)[i]
  <2>1. CASE m \in DOMAIN packages
      BY <1>1, <1>2, <2>1 DEF IInv, InStep, NamedIn
  <2>2. CASE m = Len(packages) + 1
    <3>1. IsWanted(f, at[f] + 1, m) /\ at[f] + 1 \in DOMAIN Content(f)
        BY <1>2, <2>2, NextRank, RankStep DEF IInv
    <3>2. ps[m].id = Content(f)[at[f] + 1]
        BY <1>1, <2>2 DEF NewPackage, NextId
    <3> QED BY <1>2, <3>1, <3>2
  <2> QED BY <1>1, <2>1, <2>2
<1> QED BY <1>2, <1>3 DEF NamedIn

\* The next wanted element of f is not of the package that is next in the list.
LEMMA OutOfOrder ==
    ASSUME IInv, NEW f \in Files, pc = f, reading, at[f] < Len(Content(f)),
           Listed(f), ~Found(f), Wanted(NextId(f)), UNCHANGED input
    PROVE  OutOfOrderOnlyIfSo'
<1>1. /\ ListedPackage(f) = Supplied(f) + 1
      /\ Supplied(f) + 1 \in DOMAIN packages
    BY NextListed, Lengths DEF IInv
<1>2. packages[Supplied(f) + 1].id # NextId(f)
    BY <1>1 DEF Found
<1>3. PICK g \in LoadingFlags : \E j \in DOMAIN Content(g) :
        /\ IsWanted(g, j, Supplied(f) + 1)
        /\ packages[Supplied(f) + 1].id = Content(g)[j]
    BY <1>1, TurnFacts DEF IInv, InStep, NamedIn
<1>4. PICK j \in DOMAIN Content(g) :
        /\ IsWanted(g, j, Supplied(f) + 1)
        /\ packages[Supplied(f) + 1].id = Content(g)[j]
    BY <1>3
<1>5. /\ IsWanted(f, at[f] + 1, Supplied(f) + 1)
      /\ at[f] + 1 \in DOMAIN Content(f) /\ f \in LoadingFlags
    BY NextRank, RankStep, TurnFacts DEF IInv
<1>6. /\ Rank(g)[j] = Supplied(f) + 1 /\ Rank(f)[at[f] + 1] = Supplied(f) + 1
      /\ Content(f)[at[f] + 1] # Content(g)[j]
    BY <1>2, <1>4, <1>5 DEF IsWanted, NextId
<1> DEFINE i == at[f] + 1
<1>7. /\ IsWanted(f, i, Rank(g)[j]) /\ IsWanted(g, j, Rank(f)[i])
      /\ Content(f)[i] # Content(g)[j]
    BY <1>4, <1>5, <1>6
<1>8. \E h, k \in LoadingFlags : \E x \in DOMAIN Content(h), y \in DOMAIN Content(k) :
        /\ IsWanted(h, x, Rank(k)[y]) /\ IsWanted(k, y, Rank(h)[x])
        /\ Content(h)[x] # Content(k)[y]
    BY <1>4, <1>5, <1>7
<1>9. PICK h, k \in LoadingFlags : \E x \in DOMAIN Content(h), y \in DOMAIN Content(k) :
        /\ IsWanted(h, x, Rank(k)[y]) /\ IsWanted(k, y, Rank(h)[x])
        /\ Content(h)[x] # Content(k)[y]
    BY <1>8
<1>10. h \in Files /\ k \in Files
    BY <1>9, FlagsInFiles DEF IInv
<1> QED BY <1>9, <1>10, InputFixed DEF OutOfOrderOnlyIfSo, IsWanted, Wanted

LEMMA EndPrimaryNewStep ==
    ASSUME IInv, EndPrimaryNew
    PROVE  IInv'
<1> DEFINE f == "primary"
           ps == Append(packages, NewPackage(f))
           list == Append(inProgress, NewNumber)
<1>0. f \in Files
    BY DEF Files
<1>1. pc = f /\ reading /\ open[f] /\ ~Listed(f) /\ Wanted(NextId(f))
    BY DEF EndPrimaryNew, End
<1>2. error = "none" /\ at[f] < Len(Content(f))
    BY <1>0, <1>1, TurnFacts DEF IInv, Turns
<1>3. Ending(f)
  <2>1. current[f] = 0
      BY <1>0, <1>2 DEF IInv, Filling
  <2>2. current' = [current EXCEPT ![f] = 0]
      BY <2>1, <1>0 DEF EndPrimaryNew, IInv, TypeOK
  <2> QED BY <2>2 DEF EndPrimaryNew, End, Ending
<1>4. Supply(f, NewNumber, ps, list)
    BY DEF EndPrimaryNew
<1> HIDE DEF ps, list
<1>5. /\ ps \in Seq(Package) /\ Len(ps) = Len(packages) + 1
      /\ DOMAIN ps = DOMAIN packages \union {Len(packages) + 1}
      /\ \A m \in DOMAIN packages : ps[m] = packages[m]
      /\ ps[Len(packages) + 1] = NewPackage(f)
      /\ list \in Seq(Nat) /\ Len(list) = Len(inProgress) + 1
      /\ NumberedIn(ps, list) /\ PartsIn(ps)
    BY <1>0, <1>1, <1>2, AppendedPackage DEF ps, list
<1>6. NamedIn(ps) /\ Supplied(f) = Len(packages)
    BY <1>0, <1>1, <1>2, AppendedNamed DEF ps
<1>7. /\ NewNumber = Supplied(f) + 1 /\ NewNumber <= Len(ps)
      /\ Len(inProgress) <= Len(list) /\ Len(packages) <= Len(ps)
      /\ ps[NewNumber].id = NextId(f)
    BY <1>5, <1>6, Lengths DEF NewNumber, NewPackage, IInv
<1>8. Suppliable(f, NewNumber, ps, list)
    BY <1>1, <1>5, <1>6, <1>7 DEF Suppliable
<1> HIDE DEF IInv, f
<1> QED BY <1>0, <1>3, <1>4, <1>8, SupplyStep

\* The list with a package that is out of order, and without a file ahead of it.
LEMMA AppendedLists ==
    ASSUME IInv, NEW f \in Files, pc = f, reading, at[f] < Len(Content(f)),
           packages' = Append(packages, NewPackage(f)),
           inProgress' = Append(inProgress, NewNumber),
           UNCHANGED <<input, count, finished, returned>>
    PROVE  /\ packages' \in Seq(Package) /\ inProgress' \in Seq(Nat)
           /\ Numbered' /\ Counts' /\ Parts'
<1> DEFINE ps == Append(packages, NewPackage(f))
           list == Append(inProgress, NewNumber)
<1>1. packages' = ps /\ inProgress' = list
    OBVIOUS
<1> HIDE DEF ps, list
<1>2. /\ ps \in Seq(Package) /\ list \in Seq(Nat)
      /\ Len(list) = Len(inProgress) + 1
      /\ NumberedIn(ps, list) /\ PartsIn(ps)
    BY AppendedPackage DEF ps, list
<1>3. Numbered'
    BY <1>1, <1>2 DEF IInv, Numbered, NumberedIn, Base
<1>4. Counts'
  <2>1. Len(inProgress) \in Nat /\ Len(inProgress') = Len(inProgress) + 1
        /\ LoadingFlags' = LoadingFlags
      BY <1>1, <1>2, Lengths, InputFixed DEF IInv
  <2>2. \A g \in LoadingFlags : count[g] \in Nat /\ count[g] <= Len(inProgress)
      BY Lengths, FlagsInFiles DEF IInv, Counts
  <2> QED BY <2>1, <2>2 DEF Counts, IInv
<1>5. Parts'
    BY <1>1, <1>2, InputFixed DEF Parts, PartsIn, Supplied, Base, IsWanted, Wanted
<1> QED BY <1>1, <1>2, <1>3, <1>4, <1>5

LEMMA EndPrimaryOutOfOrderStep ==
    ASSUME IInv, EndPrimaryOutOfOrder
    PROVE  IInv'
<1> DEFINE f == "primary"
<1>0. f \in Files
    BY DEF Files
<1>1. /\ pc = f /\ reading /\ open[f] /\ Listed(f) /\ ~Found(f)
      /\ Wanted(NextId(f))
      /\ UNCHANGED <<input, current, done, count, finished, returned, freed>>
      /\ pc' = "failed" /\ error' = "out_of_order" /\ reading' = FALSE
      /\ open' = [open EXCEPT ![f] = FALSE] /\ at' = [at EXCEPT ![f] = @ + 1]
      /\ progress' = TRUE
    BY DEF EndPrimaryOutOfOrder, End, Fail
<1>2. /\ at[f] < Len(Content(f)) /\ at[f] \in Nat /\ Len(Content(f)) \in Nat
      /\ at'[f] = at[f] + 1 /\ at'[f] <= Len(Content(f)) /\ ~open'[f]
      /\ \A g \in Files \ {f} : at'[g] = at[g] /\ open'[g] = open[g]
      /\ at' \in [Files -> Nat] /\ open' \in [Files -> BOOLEAN]
    BY <1>0, <1>1, RankStep DEF IInv, Turns, TypeOK
<1>3. /\ packages' \in Seq(Package) /\ inProgress' \in Seq(Nat)
      /\ Numbered' /\ Counts' /\ Parts'
    BY <1>0, <1>1, <1>2, AppendedLists DEF EndPrimaryOutOfOrder
<1>4. TypeOK'
    BY <1>1, <1>2, <1>3 DEF IInv, TypeOK
<1>5. Turns' /\ Freeing'
    BY <1>0, <1>1, <1>2, CallbackTurns
<1>6. InStep' /\ Filling'
    BY <1>1 DEF InStep, Filling
<1>7. Ahead'
    BY <1>0, <1>1, CallbackAhead
<1>8. OutOfOrderOnlyIfSo'
    BY <1>0, <1>1, <1>2, OutOfOrder
<1> QED BY <1>3, <1>4, <1>5, <1>6, <1>7, <1>8 DEF IInv

\* newpkgcb ends the parsing, at the start or at the end of an element.
LEMMA InterruptedStep ==
    ASSUME IInv, NEW f \in Files, pc = f, reading, Fail("interrupted"),
           at' \in [Files -> Nat], open' \in [Files -> BOOLEAN], progress' = TRUE,
           UNCHANGED <<input, current, done, listVars, returned, freed>>,
           \A g \in Files \ {f} : at'[g] = at[g] /\ open'[g] = open[g],
           at'[f] <= Len(Content(f)), open'[f] => at'[f] < Len(Content(f))
    PROVE  IInv'
<1>1. pc' = "failed" /\ error' = "interrupted" /\ reading' = FALSE
    BY DEF Fail
<1>2. TypeOK'
    BY <1>1 DEF IInv, TypeOK, listVars
<1>3. Numbered' /\ Counts' /\ Parts'
    BY ListsFrame
<1>4. Turns' /\ Freeing'
    BY <1>1, CallbackTurns
<1>5. InStep' /\ Filling'
    BY <1>1 DEF InStep, Filling
<1>6. Ahead'
    BY <1>1, CallbackAhead DEF listVars
<1>7. OutOfOrderOnlyIfSo'
    BY <1>1, OutOfOrderFrame
<1> QED BY <1>2, <1>3, <1>4, <1>5, <1>6, <1>7 DEF IInv

LEMMA EndPrimaryInterruptedStep ==
    ASSUME IInv, EndPrimaryInterrupted
    PROVE  IInv'
<1> DEFINE f == "primary"
<1>0. f \in Files
    BY DEF Files
<1>1. /\ pc = f /\ reading /\ open[f] /\ Fail("interrupted")
      /\ UNCHANGED <<input, current, done, listVars, returned, freed>>
      /\ open' = [open EXCEPT ![f] = FALSE] /\ at' = [at EXCEPT ![f] = @ + 1]
      /\ progress' = TRUE
    BY DEF EndPrimaryInterrupted, End, listVars
<1>2. /\ at[f] < Len(Content(f)) /\ at[f] \in Nat /\ Len(Content(f)) \in Nat
      /\ at'[f] = at[f] + 1 /\ at'[f] <= Len(Content(f)) /\ ~open'[f]
      /\ \A g \in Files \ {f} : at'[g] = at[g] /\ open'[g] = open[g]
      /\ at' \in [Files -> Nat] /\ open' \in [Files -> BOOLEAN]
    BY <1>0, <1>1, RankStep DEF IInv, Turns, TypeOK
<1> HIDE DEF IInv, f
<1> QED BY <1>0, <1>1, <1>2, InterruptedStep

\* Of Start, for any of the files.
LEMMA Started ==
    ASSUME IInv, NEW f \in Files, open' = [open EXCEPT ![f] = TRUE],
           UNCHANGED <<input, at>>, at[f] < Len(Content(f))
    PROVE  /\ open' \in [Files -> BOOLEAN] /\ open'[f]
           /\ \A g \in Files \ {f} : at'[g] = at[g] /\ open'[g] = open[g]
           /\ at' \in [Files -> Nat]
           /\ at'[f] <= Len(Content(f)) /\ at'[f] < Len(Content(f))
BY RankStep DEF IInv, TypeOK

\* The start of an element, that is parsed for the package current'[f].
LEMMA StartStep ==
    ASSUME IInv, NEW f \in Files, pc = f, reading,
           open' = [open EXCEPT ![f] = TRUE], at[f] < Len(Content(f)),
           progress' = TRUE, current' \in [Files -> Nat],
           \A g \in Files \ {f} : current'[g] = current[g],
           UNCHANGED <<input, pc, error, reading, at, done, listVars, returned, freed>>,
           IF f = "primary"
             THEN current'[f] = 0
             ELSE IF current'[f] = 0
                    THEN ~Wanted(NextId(f))
                    ELSE /\ current'[f] = Supplied(f) + 1
                         /\ current'[f] <= Len(packages)
                         /\ packages[current'[f]].id = NextId(f)
                         /\ Wanted(NextId(f))
    PROVE  IInv'
<1>1. /\ open' \in [Files -> BOOLEAN] /\ open'[f] /\ at' \in [Files -> Nat]
      /\ \A g \in Files \ {f} : at'[g] = at[g] /\ open'[g] = open[g]
      /\ at'[f] <= Len(Content(f)) /\ at'[f] < Len(Content(f))
    BY Started
<1>2. TypeOK'
    BY <1>1 DEF IInv, TypeOK, listVars
<1>3. /\ Numbered' /\ Counts' /\ Parts'
      /\ NamedIn(packages)' = NamedIn(packages)
    BY ListsFrame
<1>4. Turns' /\ Freeing'
    BY <1>1, CallbackTurns
<1>5. InStep'
    BY <1>3, InputFixed, FlagsInFiles DEF IInv, InStep, Supplied, Base, listVars
<1>6. Filling'
  <2>1. error = "none"
      BY TurnFacts
  <2>2. \A g \in Files :
          /\ Supplied(g)' = Supplied(g) /\ NextId(g)' = NextId(g)
          /\ Wanted(NextId(g))' <=> Wanted(NextId(g))
      BY DEF Supplied, Base, listVars, NextId, Content, Wanted
  <2>3. packages' = packages
      BY DEF listVars
  <2> QED BY <1>1, <2>1, <2>2, <2>3 DEF IInv, Filling
<1>7. Ahead'
    BY CallbackAhead DEF listVars
<1>8. OutOfOrderOnlyIfSo'
    BY OutOfOrderFrame
<1> QED BY <1>2, <1>3, <1>4, <1>5, <1>6, <1>7, <1>8 DEF IInv

LEMMA StartPrimaryStep ==
    ASSUME IInv, StartPrimary
    PROVE  IInv'
<1> DEFINE f == "primary"
<1>0. f \in Files
    BY DEF Files
<1>1. /\ pc = f /\ reading /\ open' = [open EXCEPT ![f] = TRUE]
      /\ at[f] < Len(Content(f)) /\ progress' = TRUE /\ current' = current
      /\ UNCHANGED <<input, pc, error, reading, at, done, listVars, returned, freed>>
    BY DEF StartPrimary, listVars
<1>2. current \in [Files -> Nat] /\ current[f] = 0
    BY <1>0, <1>1, TurnFacts DEF IInv, TypeOK, Filling
<1> HIDE DEF IInv
<1> QED BY <1>0, <1>1, <1>2, StartStep

LEMMA StartFoundStep ==
    ASSUME IInv, NEW f \in Files, StartFound(f)
    PROVE  IInv'
<1>1. /\ pc = f /\ reading /\ open' = [open EXCEPT ![f] = TRUE]
      /\ at[f] < Len(Content(f)) /\ progress' = TRUE /\ f # "primary"
      /\ current' = [current EXCEPT ![f] = ListedPackage(f)] /\ Found(f)
      /\ UNCHANGED <<input, pc, error, reading, at, done, listVars, returned, freed>>
    BY DEF StartFound, Start, listVars
<1>2. /\ ListedPackage(f) = Supplied(f) + 1 /\ Supplied(f) + 1 \in 1 .. Len(packages)
      /\ Supplied(f) + 1 \in DOMAIN packages /\ Supplied(f) \in Nat
      /\ packages[Supplied(f) + 1].id = NextId(f)
    BY <1>1, NextListed, Lengths DEF Found, IInv
<1>3. Wanted(NextId(f))
    BY <1>1, <1>2, PackagesWanted, TurnFacts
<1>4. /\ current' \in [Files -> Nat] /\ current'[f] = Supplied(f) + 1
      /\ \A g \in Files \ {f} : current'[g] = current[g]
    BY <1>1, <1>2 DEF IInv, TypeOK
<1>5. current'[f] # 0 /\ current'[f] <= Len(packages)
    BY <1>2, <1>4, Lengths DEF IInv
<1> HIDE DEF IInv
<1> QED BY <1>1, <1>2, <1>3, <1>4, <1>5, StartStep

LEMMA StartSkippedStep ==
    ASSUME IInv, NEW f \in Files, StartSkipped(f)
    PROVE  IInv'
<1>1. /\ pc = f /\ reading /\ open' = [open EXCEPT ![f] = TRUE]
      /\ at[f] < Len(Content(f)) /\ progress' = TRUE /\ f # "primary"
      /\ current' = [current EXCEPT ![f] = 0] /\ ~Wanted(NextId(f))
      /\ UNCHANGED <<input, pc, error, reading, at, done, listVars, returned, freed>>
    BY DEF StartSkipped, Start, listVars
<1>2. /\ current' \in [Files -> Nat] /\ current'[f] = 0
      /\ \A g \in Files \ {f} : current'[g] = current[g]
    BY <1>1 DEF IInv, TypeOK
<1> HIDE DEF IInv
<1> QED BY <1>1, <1>2, StartStep

LEMMA StartInterruptedStep ==
    ASSUME IInv, NEW f \in Files, StartInterrupted(f)
    PROVE  IInv'
<1>1. /\ pc = f /\ reading /\ open' = [open EXCEPT ![f] = TRUE]
      /\ at[f] < Len(Content(f)) /\ progress' = TRUE /\ Fail("interrupted")
      /\ UNCHANGED <<input, at>>
      /\ UNCHANGED <<input, current, done, listVars, returned, freed>>
    BY DEF StartInterrupted, Start, listVars
<1> HIDE DEF IInv
<1> QED BY <1>1, Started, InterruptedStep

LEMMA StartNewStep ==
    ASSUME IInv, NEW f \in Files, StartNew(f)
    PROVE  IInv'
<1>1. /\ pc = f /\ reading /\ open' = [open EXCEPT ![f] = TRUE]
      /\ at[f] < Len(Content(f)) /\ progress' = TRUE /\ f # "primary"
      /\ ~Found(f) /\ Wanted(NextId(f))
      /\ current' = [current EXCEPT ![f] = NewNumber]
      /\ packages' = Append(packages, NewPackage(f))
      /\ inProgress' = Append(inProgress, NewNumber)
      /\ UNCHANGED <<input, at, done, count, finished, returned, freed>>
    BY DEF StartNew, Start
<1>2. \/ Listed(f) /\ pc' = "failed" /\ error' = "out_of_order" /\ reading' = FALSE
      \/ ~Listed(f) /\ UNCHANGED <<pc, error, reading>>
    BY DEF StartNew, Fail
<1>3. /\ open' \in [Files -> BOOLEAN] /\ open'[f] /\ at' \in [Files -> Nat]
      /\ \A g \in Files \ {f} : at'[g] = at[g] /\ open'[g] = open[g]
      /\ at'[f] <= Len(Content(f)) /\ at'[f] < Len(Content(f))
    BY <1>1, Started
<1>4. /\ packages' \in Seq(Package) /\ inProgress' \in Seq(Nat)
      /\ Numbered' /\ Counts' /\ Parts'
    BY <1>1, AppendedLists
<1>5. /\ current' \in [Files -> Nat] /\ current'[f] = Len(packages) + 1
      /\ \A g \in Files \ {f} : current'[g] = current[g]
      /\ Len(packages) \in Nat
    BY SMTT(30), <1>1, Lengths DEF IInv, TypeOK, NewNumber
<1>6. TypeOK'
    BY <1>1, <1>2, <1>3, <1>4, <1>5 DEF IInv, TypeOK
<1>7. Turns' /\ Freeing'
    BY <1>1, <1>2, <1>3, CallbackTurns
<1>8. Ahead'
    BY <1>1, <1>2, CallbackAhead
<1>9. InStep'
  <2>1. CASE Listed(f)
      BY <1>2, <2>1 DEF InStep
  <2>2. CASE ~Listed(f)
    <3>1. \A g \in LoadingFlags : Rank(g)'[at'[g]] = Supplied(g)'
        BY <1>1, TurnFacts, InputFixed, FlagsInFiles DEF IInv, InStep, Supplied, Base
    <3>2. NamedIn(packages')
        BY <1>1, <2>2, AppendedNamed
    <3>3. NamedIn(packages)'
        BY <1>1, <3>2, InputFixed, FlagsInFiles DEF IInv, NamedIn, IsWanted, Wanted
    <3> QED BY <1>1, <3>1, <3>3, InputFixed DEF InStep
  <2> QED BY <2>1, <2>2
<1>10. Filling'
  <2>1. CASE Listed(f)
      BY <1>2, <2>1 DEF Filling
  <2>2. CASE ~Listed(f)
    <3>1. /\ error = "none" /\ Supplied(f) = Len(packages)
        BY <1>1, <2>2, TurnFacts, AppendedNamed
    <3>2. /\ Len(packages') = Len(packages) + 1
          /\ \A m \in 1 .. Len(packages) : packages'[m] = packages[m]
          /\ packages'[Len(packages) + 1].id = NextId(f)
        BY <1>1, AppendedPackage, Lengths DEF IInv, NewPackage
    <3>3. \A g \in Files :
            /\ Supplied(g)' = Supplied(g) /\ NextId(g)' = NextId(g)
            /\ Wanted(NextId(g))' <=> Wanted(NextId(g))
        BY <1>1 DEF Supplied, Base, NextId, Content, Wanted
    <3>4. ASSUME NEW g \in Files
          PROVE  IF g = "primary" \/ ~open'[g]
                   THEN current'[g] = 0
                   ELSE IF current'[g] = 0
                          THEN ~Wanted(NextId(g))'
                          ELSE /\ current'[g] = Supplied(g)' + 1
                               /\ current'[g] <= Len(packages')
                               /\ packages'[current'[g]].id = NextId(g)'
                               /\ Wanted(NextId(g))'
      <4>1. CASE g = f
          BY <1>1, <1>3, <1>5, <3>1, <3>2, <3>3, <4>1
      <4>2. CASE g # f
        <5>1. open'[g] = open[g] /\ current'[g] = current[g] /\ current[g] \in Nat
            BY <1>3, <1>5, <4>2 DEF IInv, TypeOK
        <5> QED BY <1>5, <3>1, <3>2, <3>3, <5>1 DEF IInv, Filling
      <4> QED BY <4>1, <4>2
    <3> QED BY <3>4 DEF Filling
  <2> QED BY <2>1, <2>2
<1>11. OutOfOrderOnlyIfSo'
    BY <1>1, <1>2, OutOfOrder, OutOfOrderFrame
<1> QED BY <1>4, <1>6, <1>7, <1>8, <1>9, <1>10, <1>11 DEF IInv

-----------------------------------------------------------------------------
(* The loop of cr_PkgIterator_parse_next and its chunks.                   *)

\* The conjuncts that the control alone cannot break.
LEMMA ControlStep ==
    ASSUME IInv, UNCHANGED <<input, listVars, returned, at, open, current>>,
           \/ error' = error
           \/ error' \in {"unreadable", "interrupted"}
    PROVE  Numbered' /\ Counts' /\ Parts' /\ InStep' /\ Filling'
           /\ OutOfOrderOnlyIfSo'
BY DataFrame, OutOfOrderFrame

LEMMA ParseNextStep == ASSUME IInv, ParseNext PROVE IInv'
<1>1. TypeOK'
    BY DEF ParseNext, IInv, TypeOK, parserVars, listVars
<1>2. Turns' /\ Freeing' /\ Ahead'
    BY InputFixed, FlagsInFiles
       DEF ParseNext, IInv, Turns, Freeing, Ahead, UpToPrimary, AllParsed, IsFinished,
           Files, parserVars, listVars
<1> QED BY <1>1, <1>2, ControlStep DEF ParseNext, IInv, parserVars

LEMMA IterateStep == ASSUME IInv, Iterate PROVE IInv'
<1>1. TypeOK'
    BY DEF Iterate, IInv, TypeOK, Files, parserVars, listVars
<1>2. Turns' /\ Freeing' /\ Ahead'
    BY InputFixed, FlagsInFiles
       DEF Iterate, IInv, Turns, Freeing, Ahead, UpToPrimary, AllParsed, IsFinished,
           Files, parserVars, listVars
<1> QED BY <1>1, <1>2, ControlStep DEF Iterate, IInv, parserVars

LEMMA ReturnNullStep == ASSUME IInv, ReturnNull PROVE IInv'
<1>1. TypeOK'
    BY DEF ReturnNull, IInv, TypeOK, parserVars, listVars
<1>2. Turns' /\ Freeing' /\ Ahead'
    BY InputFixed, FlagsInFiles
       DEF ReturnNull, IInv, Turns, Freeing, Ahead, UpToPrimary, AllParsed, IsFinished,
           Files, parserVars, listVars
<1> QED BY <1>1, <1>2, ControlStep DEF ReturnNull, IInv, parserVars

LEMMA ReadChunkStep == ASSUME IInv, NEW f \in Files, ReadChunk(f) PROVE IInv'
<1>1. TypeOK'
    BY DEF ReadChunk, IInv, TypeOK, parserVars, listVars
<1>2. f \in LoadingFlags
    BY DEF ReadChunk, Turn, IInv, Turns
<1>3. Turns' /\ Freeing'
    BY <1>2, InputFixed, FlagsInFiles
       DEF ReadChunk, Turn, IInv, Turns, Freeing, AllParsed, IsFinished,
           Files, parserVars, listVars
<1>4. Ahead'
    BY InputFixed
       DEF ReadChunk, Turn, IInv, Ahead, UpToPrimary, Files, parserVars, listVars
<1> QED BY <1>1, <1>3, <1>4, ControlStep DEF ReadChunk, IInv, parserVars

LEMMA ReadFailsStep == ASSUME IInv, NEW f \in Files, ReadFails(f) PROVE IInv'
<1>1. TypeOK'
    BY DEF ReadFails, Fail, IInv, TypeOK, parserVars, listVars
<1>2. Turns' /\ Freeing'
    BY InputFixed, FlagsInFiles
       DEF ReadFails, Fail, Turn, IInv, Turns, Freeing, AllParsed, IsFinished,
           Files, parserVars, listVars
<1>3. Ahead'
    BY InputFixed
       DEF ReadFails, Fail, IInv, Ahead, UpToPrimary, Files, parserVars, listVars
<1> QED BY <1>1, <1>2, <1>3, ControlStep DEF ReadFails, Fail, IInv, parserVars

\* Who has left a file has read it to its end, or up to primary.
LEMMA LeftUpToPrimary ==
    ASSUME IInv, NEW f \in Files, f # "primary", f \in done \/ ~Behind(f)
    PROVE  UpToPrimary(f)
BY DEF IInv, TypeOK, Behind, UpToPrimary, Files

LEMMA LeaveStep == ASSUME IInv, NEW f \in Files, Leave(f) PROVE IInv'
<1>1. TypeOK'
    BY DEF Leave, After, IInv, TypeOK, Files, parserVars, listVars
<1>2. Turns' /\ Freeing'
    BY InputFixed, FlagsInFiles
       DEF Leave, After, IInv, Turns, Freeing, AllParsed, IsFinished,
           Files, parserVars, listVars
<1>3. /\ UNCHANGED <<input, reading, done, count, finished>> /\ ~reading
      /\ LoadingFlags' = LoadingFlags /\ \A g \in Files : UpToPrimary(g)' = UpToPrimary(g)
      /\ LoadingFlags \subseteq Files
    BY InputFixed, FlagsInFiles DEF Leave, parserVars, listVars, UpToPrimary, IInv
<1>4. Ahead'
  <2>1. CASE f = "primary"
      BY <1>3, <2>1 DEF Leave, After, IInv, Ahead, Behind
  <2>2. CASE f = "filelists"
      BY <1>3, <2>2, LeftUpToPrimary DEF Leave, After, IInv, Ahead
  <2>3. CASE f = "other"
    <3>1. UpToPrimary("other") /\ UpToPrimary("filelists") /\ UpToPrimary("primary")
          /\ pc' = "loop"
      <4>1. UpToPrimary("other")
          BY <2>3, LeftUpToPrimary DEF Leave
      <4>2. UpToPrimary("filelists") /\ pc' = "loop"
          BY <2>3 DEF Leave, After, IInv, Ahead
      <4>3. UpToPrimary("primary")
          BY DEF UpToPrimary, IInv, TypeOK, Files
      <4> QED BY <4>1, <4>2, <4>3
    <3> QED BY <1>3, <3>1 DEF IInv, Ahead, Files
  <2> QED BY <2>1, <2>2, <2>3 DEF Files
<1> QED BY <1>1, <1>2, <1>4, ControlStep DEF Leave, IInv, parserVars

LEMMA ChunkEndsStep == ASSUME IInv, NEW f \in Files, ChunkEnds(f) PROVE IInv'
<1>1. TypeOK'
    BY DEF ChunkEnds, After, IInv, TypeOK, Files, parserVars, listVars
<1>2. Turns' /\ Freeing'
    BY InputFixed, FlagsInFiles
       DEF ChunkEnds, After, IInv, Turns, Freeing, AllParsed, IsFinished,
           Files, parserVars, listVars
<1>3. Ahead'
    BY InputFixed, TurnFacts
       DEF ChunkEnds, After, IInv, Ahead, UpToPrimary, Files, parserVars, listVars
<1> QED BY <1>1, <1>2, <1>3, ControlStep DEF ChunkEnds, IInv, parserVars

LEMMA ReadEndStep == ASSUME IInv, NEW f \in Files, ReadEnd(f) PROVE IInv'
<1>1. TypeOK'
    BY DEF ReadEnd, After, IInv, TypeOK, Files, listVars
<1>2. /\ pc = f /\ ~reading /\ f \notin done /\ AllParsed(f) /\ done' = done \union {f}
      /\ UNCHANGED <<input, error, reading, at, open, count, finished>>
      /\ pc' = After(f) /\ f \in LoadingFlags
      /\ LoadingFlags' = LoadingFlags /\ LoadingFlags \subseteq Files
    BY InputFixed, FlagsInFiles DEF ReadEnd, Turn, listVars, IInv, Turns
<1>3. Turns' /\ Freeing'
  <2>1. pc' \in {"filelists", "other", "loop"}
      BY <1>2 DEF After
  <2> QED BY <1>2, <2>1, InputFixed
             DEF IInv, Turns, Freeing, AllParsed, Files
<1>4. /\ \A g \in Files : UpToPrimary(g) => UpToPrimary(g)'
      /\ UpToPrimary(f)'
    BY <1>2 DEF UpToPrimary
<1>5. Ahead'
  <2>1. CASE f = "primary"
      BY <1>2, <1>4, <2>1 DEF After, IInv, Ahead
  <2>2. CASE f = "filelists"
      BY <1>2, <1>4, <2>2 DEF After, IInv, Ahead
  <2>3. CASE f = "other"
    <3>1. UpToPrimary("other")' /\ UpToPrimary("filelists")' /\ UpToPrimary("primary")'
          /\ pc' = "loop"
      <4>1. UpToPrimary("filelists") /\ pc' = "loop"
          BY <1>2, <2>3 DEF After, IInv, Ahead
      <4>2. UpToPrimary("primary")
          BY DEF UpToPrimary, IInv, TypeOK, Files
      <4> QED BY <1>4, <2>3, <4>1, <4>2 DEF Files
    <3> QED BY <1>2, <2>3, <3>1 DEF IInv, Ahead, Files
  <2> QED BY <1>2, <2>1, <2>2, <2>3 DEF Files
<1> QED BY <1>1, <1>3, <1>5, ControlStep DEF ReadEnd, IInv

\* The first of the queue is the one after those that have been returned.
LEMMA ReturnPackageStep == ASSUME IInv, ReturnPackage PROVE IInv'
<1>1. /\ finished # <<>> /\ finished \in Seq(Nat) /\ returned \in Seq(Nat)
      /\ Len(returned) \in Nat /\ Len(finished) \in Nat
      /\ returned' = Append(returned, Head(finished)) /\ finished' = Tail(finished)
      /\ DOMAIN finished = 1 .. Len(finished) /\ DOMAIN returned = 1 .. Len(returned)
    BY Lengths DEF ReturnPackage, IInv, TypeOK
<1>2. /\ Len(finished) >= 1 /\ Head(finished) = finished[1] /\ finished[1] \in Nat
      /\ finished' \in Seq(Nat) /\ Len(finished') = Len(finished) - 1
      /\ DOMAIN finished' = 1 .. Len(finished) - 1
      /\ \A k \in 1 .. Len(finished) - 1 : finished'[k] = finished[k + 1]
    BY <1>1
<1>3. /\ returned' \in Seq(Nat) /\ Len(returned') = Len(returned) + 1
      /\ DOMAIN returned' = 1 .. Len(returned) + 1
      /\ \A k \in 1 .. Len(returned) : returned'[k] = returned[k]
      /\ returned'[Len(returned) + 1] = finished[1]
  <2>1. /\ Append(returned, finished[1]) \in Seq(Nat)
        /\ Len(Append(returned, finished[1])) = Len(returned) + 1
        /\ \A k \in 1 .. Len(returned) : Append(returned, finished[1])[k] = returned[k]
        /\ Append(returned, finished[1])[Len(returned) + 1] = finished[1]
      BY <1>1, <1>2, AppendProperties
  <2> QED BY <1>1, <1>2, <2>1
<1>4. Base' = Base
    BY <1>1, <1>2, <1>3 DEF Base
<1>5. \A k \in 1 .. Len(finished) : finished[k] = Len(returned) + k
    BY <1>1 DEF IInv, Numbered
<1>6. Numbered'
  <2>1. ASSUME NEW k \in 1 .. Len(returned) + 1 PROVE returned'[k] = k
    <3>1. CASE k \in 1 .. Len(returned)
        BY <1>1, <1>3, <3>1 DEF IInv, Numbered
    <3>2. CASE k = Len(returned) + 1
        BY <1>1, <1>2, <1>3, <1>5, <3>2
    <3> QED BY <1>1, <3>1, <3>2
  <2>2. ASSUME NEW k \in 1 .. Len(finished) - 1
        PROVE  finished'[k] = Len(returned') + k
    <3>1. k + 1 \in 1 .. Len(finished) /\ finished[k + 1] = Len(returned) + (k + 1)
        BY <1>1, <1>5
    <3> QED BY <1>1, <1>2, <1>3, <3>1
  <2>3. NumberedIn(packages, inProgress)'
      BY <1>4 DEF ReturnPackage, IInv, Numbered, NumberedIn
  <2> QED BY <1>2, <1>3, <2>1, <2>2, <2>3 DEF Numbered
<1>7. /\ UNCHANGED <<input, error, reading, at, open, current, done, packages,
                     inProgress, count, freed>>
      /\ pc = "loop" /\ pc' = "idle"
    BY DEF ReturnPackage, parserVars
<1>8. TypeOK'
    BY <1>2, <1>3, <1>7 DEF ReturnPackage, IInv, TypeOK
<1>9. \A g \in Files : Supplied(g)' = Supplied(g)
    BY <1>4, <1>7 DEF Supplied
<1>10. Turns' /\ Freeing' /\ Counts'
    BY <1>7, InputFixed, FlagsInFiles
       DEF IInv, Turns, Freeing, Counts, AllParsed, IsFinished, Files
<1>11. Parts'
    BY <1>7, <1>9, InputFixed DEF IInv, Parts, PartsIn, IsWanted, Wanted
<1>12. InStep'
  <2>1. error = "none"
      BY <1>7 DEF IInv, Turns
  <2>2. \A g \in LoadingFlags : Rank(g)'[at'[g]] = Supplied(g)'
      BY <1>7, <1>9, <2>1, InputFixed, FlagsInFiles DEF IInv, InStep
  <2>3. NamedIn(packages)'
      BY <1>7, <2>1, InputFixed, FlagsInFiles
         DEF IInv, InStep, NamedIn, IsWanted, Wanted
  <2> QED BY <1>7, <2>2, <2>3, InputFixed DEF InStep
<1>13. Filling'
    BY <1>7, <1>9 DEF IInv, Filling, NextId, Content, Wanted
<1>14. Ahead'
  <2>1. "primary" \notin done
      BY <1>1 DEF IInv, Ahead
  <2> QED BY <1>7, <2>1, InputFixed DEF IInv, Ahead, UpToPrimary
<1>15. OutOfOrderOnlyIfSo'
    BY <1>7, OutOfOrderFrame
<1> QED BY <1>6, <1>8, <1>10, <1>11, <1>12, <1>13, <1>14, <1>15 DEF IInv

LEMMA FreeStep == ASSUME IInv, Free PROVE IInv'
<1>1. TypeOK'
    BY DEF Free, IInv, TypeOK, parserVars, listVars
<1>2. Turns' /\ Freeing'
    BY InputFixed, FlagsInFiles
       DEF Free, IInv, Turns, Freeing, AllParsed, IsFinished, Files, parserVars, listVars
<1>3. Ahead'
    BY InputFixed
       DEF Free, IInv, Ahead, UpToPrimary, Files, parserVars, listVars
<1> QED BY <1>1, <1>2, <1>3, ControlStep DEF Free, IInv, parserVars

LEMMA NewIteratorInv == ASSUME NewIterator PROVE IInv
<1>1. TypeOK
  <2>1. /\ at \in [Files -> Nat] /\ current \in [Files -> Nat]
        /\ count \in [Files -> Nat] /\ open \in [Files -> BOOLEAN]
      BY DEF NewIterator
  <2>2. /\ packages \in Seq(Package) /\ inProgress \in Seq(Nat)
        /\ finished \in Seq(Nat) /\ returned \in Seq(Nat)
      BY DEF NewIterator
  <2>3. /\ input \in Inputs /\ done \subseteq Files /\ pc = "idle" /\ error = "none"
        /\ reading \in BOOLEAN /\ progress \in BOOLEAN
      BY DEF NewIterator
  <2> QED BY <2>1, <2>2, <2>3 DEF TypeOK
<1>2. /\ returned = <<>> /\ finished = <<>> /\ inProgress = <<>> /\ packages = <<>>
      /\ error = "none" /\ pc = "idle" /\ ~reading /\ input \in Inputs
      /\ done = Files \ LoadingFlags
    BY DEF NewIterator
<1>3. Base = 0 /\ \A f \in Files : Supplied(f) = 0 /\ count[f] = 0 /\ at[f] = 0
                              /\ ~open[f] /\ current[f] = 0
    BY DEF NewIterator, Base, Supplied
<1>4. Numbered /\ Freeing /\ Parts
    BY <1>2, <1>3 DEF Numbered, NumberedIn, Freeing, Parts, PartsIn
<1>5. Turns
    BY <1>1, <1>2, <1>3, FlagsInFiles, RankStep DEF Turns, AllParsed
<1>6. Counts /\ InStep /\ Filling
    BY <1>1, <1>2, <1>3, FlagsInFiles, RankStep DEF Counts, InStep, NamedIn, Filling
<1>7. Ahead
    BY <1>1, <1>2, <1>3, FlagsInFiles DEF Ahead, UpToPrimary
<1>8. OutOfOrderOnlyIfSo
    BY <1>2 DEF OutOfOrderOnlyIfSo
<1> QED BY <1>1, <1>4, <1>5, <1>6, <1>7, <1>8 DEF IInv

LEMMA IteratorStutters == ASSUME IInv, UNCHANGED vars PROVE IInv'
<1>1. TypeOK'
    BY DEF vars, IInv, TypeOK, parserVars, listVars
<1>2. Turns' /\ Freeing' /\ Ahead'
    BY InputFixed, FlagsInFiles
       DEF vars, IInv, Turns, Freeing, Ahead, UpToPrimary, AllParsed, IsFinished,
           Files, parserVars, listVars
<1> QED BY <1>1, <1>2, ControlStep DEF vars, IInv, parserVars

LEMMA IteratorStep == ASSUME IInv, [Next]_vars PROVE IInv'
<1> HIDE DEF IInv
<1>1. ASSUME NEW f \in Files, Parse(f) PROVE IInv'
    BY <1>1, LeaveStep, ReadChunkStep, ReadEndStep, ReadFailsStep, ChunkEndsStep,
       StartFoundStep, StartNewStep, StartSkippedStep, StartInterruptedStep,
       EndPackageStep, EndSkippedStep DEF Parse
<1>2. ASSUME ParsePrimary PROVE IInv'
    BY <1>2, StartPrimaryStep, EndPrimaryFoundStep, EndPrimaryNewStep,
       EndPrimaryOutOfOrderStep, EndPrimarySkippedStep, EndPrimaryInterruptedStep
       DEF ParsePrimary
<1> QED BY <1>1, <1>2, ParseNextStep, IterateStep, ReturnPackageStep, ReturnNullStep,
           FreeStep, IteratorStutters DEF Next, Run

-----------------------------------------------------------------------------
(* What the caller relies on.                                              *)

\* The invariant, in every state the iterator can come to.
THEOREM IteratorInvariance == Spec => []IInv
<1>1. NewIterator => IInv
    BY NewIteratorInv
<1>2. IInv /\ [Next]_vars => IInv'
    BY IteratorStep
<1> QED BY <1>1, <1>2, PTL DEF Spec

\* The queue and what was returned together.
LEMMA CompleteOnes ==
    ASSUME IInv
    PROVE  /\ DOMAIN (returned \o finished) = 1 .. Base
           /\ \A k \in 1 .. Base : (returned \o finished)[k] = k
           /\ Base <= Len(packages)
<1>1. /\ returned \in Seq(Nat) /\ finished \in Seq(Nat)
      /\ Len(returned) \in Nat /\ Len(finished) \in Nat /\ Len(inProgress) \in Nat
      /\ Base \in Nat /\ Base = Len(returned) + Len(finished)
      /\ DOMAIN returned = 1 .. Len(returned) /\ DOMAIN finished = 1 .. Len(finished)
    BY Lengths DEF IInv, TypeOK, Base
<1>2. /\ \A k \in 1 .. Len(returned) : returned[k] = k
      /\ \A k \in 1 .. Len(finished) : finished[k] = Len(returned) + k
      /\ Len(packages) = Base + Len(inProgress)
    BY <1>1 DEF IInv, Numbered, NumberedIn
<1>3. /\ DOMAIN (returned \o finished) = 1 .. Base
      /\ \A k \in 1 .. Base :
           (returned \o finished)[k] = IF k <= Len(returned)
                                         THEN returned[k]
                                         ELSE finished[k - Len(returned)]
    BY <1>1
<1>4. ASSUME NEW k \in 1 .. Base PROVE (returned \o finished)[k] = k
  <2>1. CASE k <= Len(returned)
      BY <1>1, <1>2, <1>3, <2>1
  <2>2. CASE ~(k <= Len(returned))
    <3>1. k - Len(returned) \in 1 .. Len(finished)
        BY <1>1, <2>2
    <3> QED BY <1>1, <1>2, <1>3, <2>2, <3>1
  <2> QED BY <2>1, <2>2
<1> QED BY <1>1, <1>2, <1>3, <1>4

\* The caller gets packages that are made of their own elements of the three
\* files, all that are wanted, and no end before the last of them.
THEOREM IteratorHandsOut == Spec => []HandedOut
<1>1. ASSUME IInv PROVE Assembled
  <2>1. ASSUME NEW k \in 1 .. Base, NEW f \in Files
        PROVE  IF f \in LoadingFlags
                 THEN /\ IsWanted(f, packages[k].parts[f], k)
                      /\ packages[k].id = Content(f)[packages[k].parts[f]]
                 ELSE packages[k].parts[f] = 0
    <3>1. k \in DOMAIN packages
        BY <1>1, CompleteOnes, Lengths DEF IInv
    <3>2. f \in LoadingFlags => k <= Supplied(f)
        BY <1>1, Lengths DEF IInv
    <3> QED BY <1>1, <3>1, <3>2 DEF IInv, Parts, PartsIn
  <2> QED BY <1>1, <2>1, CompleteOnes DEF Assembled
<1>2. ASSUME IInv PROVE AllReturned
  <2>1. SUFFICES ASSUME pc = "ended"
                 PROVE  /\ \A f \in LoadingFlags : Len(returned) <= WantedCount(f)
                        /\ \E f \in LoadingFlags : Len(returned) = WantedCount(f)
      BY DEF AllReturned
  <2>2. error = "none" /\ IsFinished /\ finished = <<>> /\ LoadingFlags \subseteq Files
      BY <1>2, <2>1, FlagsInFiles DEF IInv, Turns
  <2>3. Base = Len(returned)
      BY <1>2, <2>2, Lengths DEF IInv, Base
  <2>4. ASSUME NEW f \in LoadingFlags
        PROVE  WantedCount(f) = Len(returned) + count[f] /\ count[f] \in Nat
    <3>1. AllParsed(f) /\ count[f] \in Nat /\ Supplied(f) = Base + count[f]
        BY <1>2, <2>2, <2>4, Lengths DEF IInv, Turns, IsFinished
    <3>2. Rank(f)[at[f]] = Supplied(f)
        BY <1>2, <2>2, <2>4 DEF IInv, InStep
    <3> QED BY <2>3, <3>1, <3>2 DEF AllParsed, WantedCount
  <2>5. \E f \in LoadingFlags : count[f] = 0
      BY <1>2 DEF IInv, Counts
  <2> QED BY <1>2, <2>4, <2>5, Lengths DEF IInv
<1>3. ASSUME IInv PROVE FinishedMeansConsumed
    BY <1>3 DEF FinishedMeansConsumed, IsFinished, IInv, Ahead, Files
<1>4. IInv => HandedOut
    BY <1>1, <1>2, <1>3 DEF HandedOut
<1> QED BY <1>4, IteratorInvariance, PTL

\* Files that hold the wanted packages in the same order are never out of order.
THEOREM IteratorOrder == Spec => []OutOfOrderOnlyIfSo
<1>1. IInv => OutOfOrderOnlyIfSo
    BY DEF IInv
<1> QED BY <1>1, IteratorInvariance, PTL

\* However it ended, each package is the caller's or freed, and freed once.
THEOREM IteratorFreesOnce == Spec => []FreedOnce
<1>1. ASSUME IInv PROVE FreedOnce
  <2>1. SUFFICES ASSUME pc = "freed", ~input.callback
                 PROVE  /\ {(returned \o freed)[i] : i \in DOMAIN (returned \o freed)}
                              = DOMAIN packages
                        /\ Len(returned \o freed) = Len(packages)
      BY DEF FreedOnce, Numbers
  <2>2. freed = inProgress \o finished
      BY <1>1, <2>1 DEF IInv, Freeing
  <2> DEFINE r == Len(returned)
             n == Len(inProgress)
             q == Len(finished)
             all == returned \o (inProgress \o finished)
  <2>3. /\ r \in Nat /\ n \in Nat /\ q \in Nat
        /\ returned \in Seq(Nat) /\ finished \in Seq(Nat) /\ inProgress \in Seq(Nat)
        /\ Len(packages) = r + q + n /\ DOMAIN packages = 1 .. r + q + n
        /\ \A k \in 1 .. r : returned[k] = k
        /\ \A k \in 1 .. q : finished[k] = r + k
        /\ \A k \in 1 .. n : inProgress[k] = (r + q) + k
    <3>1. /\ r \in Nat /\ n \in Nat /\ q \in Nat /\ Base = r + q
          /\ DOMAIN packages = 1 .. Len(packages)
        BY <1>1, Lengths DEF IInv, Base
    <3>2. /\ returned \in Seq(Nat) /\ finished \in Seq(Nat) /\ inProgress \in Seq(Nat)
          /\ DOMAIN returned = 1 .. r /\ DOMAIN finished = 1 .. q
          /\ DOMAIN inProgress = 1 .. n
        BY <1>1 DEF IInv, TypeOK
    <3>3. /\ Len(packages) = Base + n
          /\ \A k \in DOMAIN returned : returned[k] = k
          /\ \A k \in DOMAIN finished : finished[k] = r + k
          /\ \A k \in DOMAIN inProgress : inProgress[k] = Base + k
        BY <1>1 DEF IInv, Numbered, NumberedIn
    <3> HIDE DEF r, n, q
    <3> QED BY <3>1, <3>2, <3>3
  <2>4. /\ inProgress \o finished \in Seq(Nat)
        /\ Len(inProgress \o finished) = n + q
        /\ \A k \in 1 .. n + q :
             (inProgress \o finished)[k] = IF k <= n THEN inProgress[k]
                                                     ELSE finished[k - n]
      BY <2>3
  <2>5. /\ Len(all) = r + (n + q) /\ DOMAIN all = 1 .. r + (n + q)
        /\ \A k \in 1 .. r + (n + q) :
             all[k] = IF k <= r THEN returned[k] ELSE (inProgress \o finished)[k - r]
    <3> DEFINE rest == inProgress \o finished
    <3>1. rest \in Seq(Nat) /\ Len(rest) = n + q
        BY <2>4
    <3> HIDE DEF rest
    <3>2. /\ Len(returned \o rest) = r + (n + q)
          /\ DOMAIN (returned \o rest) = 1 .. r + (n + q)
          /\ \A k \in 1 .. r + (n + q) :
               (returned \o rest)[k] = IF k <= r THEN returned[k] ELSE rest[k - r]
        BY <2>3, <3>1
    <3> QED BY <3>2 DEF rest
  <2> HIDE DEF r, n, q, all
  <2>6. /\ \A k \in 1 .. r : all[k] = k
        /\ \A k \in 1 .. n : all[r + k] = (r + q) + k
        /\ \A k \in 1 .. q : all[(r + n) + k] = r + k
    <3>1. ASSUME NEW k \in 1 .. r PROVE all[k] = k
        BY <2>3, <2>5
    <3>2. ASSUME NEW k \in 1 .. n PROVE all[r + k] = (r + q) + k
      <4>1. /\ r + k \in 1 .. r + (n + q) /\ ~(r + k <= r) /\ (r + k) - r = k
            /\ k \in 1 .. n + q /\ k <= n
          BY <2>3
      <4> QED BY <2>3, <2>4, <2>5, <4>1
    <3>3. ASSUME NEW k \in 1 .. q PROVE all[(r + n) + k] = r + k
      <4>1. /\ (r + n) + k \in 1 .. r + (n + q) /\ ~((r + n) + k <= r)
            /\ ((r + n) + k) - r = n + k /\ n + k \in 1 .. n + q /\ ~(n + k <= n)
            /\ (n + k) - n = k
          BY <2>3
      <4> QED BY <2>3, <2>4, <2>5, <4>1
    <3> QED BY <3>1, <3>2, <3>3
  <2>0. r \in Nat /\ n \in Nat /\ q \in Nat /\ DOMAIN all = 1 .. r + (n + q)
      BY <2>3, <2>5
  <2>7. \A i \in DOMAIN all : all[i] \in 1 .. r + q + n
    <3> SUFFICES ASSUME NEW i \in 1 .. r + (n + q) PROVE all[i] \in 1 .. r + q + n
        BY <2>5
    <3>1. CASE i \in 1 .. r
        BY <2>3, <2>6, <3>1
    <3>2. ASSUME NEW k \in 1 .. n, i = r + k PROVE all[i] \in 1 .. r + q + n
      <4>1. all[i] = (r + q) + k
          BY <2>6, <3>2
      <4> QED BY <2>0, <4>1
    <3>3. ASSUME NEW k \in 1 .. q, i = (r + n) + k PROVE all[i] \in 1 .. r + q + n
      <4>1. all[i] = r + k
          BY <2>6, <3>3
      <4> QED BY <2>0, <4>1
    <3>4. \/ i \in 1 .. r
          \/ \E k \in 1 .. n : i = r + k
          \/ \E k \in 1 .. q : i = (r + n) + k
      <4>1. \/ i \in 1 .. r
            \/ i - r \in 1 .. n /\ i = r + (i - r)
            \/ i - (r + n) \in 1 .. q /\ i = (r + n) + (i - (r + n))
          BY <2>3
      <4> QED BY <4>1
    <3> QED BY <3>1, <3>2, <3>3, <3>4
  <2>8. \A m \in 1 .. r + q + n : \E i \in DOMAIN all : all[i] = m
    <3> SUFFICES ASSUME NEW m \in 1 .. r + q + n PROVE \E i \in DOMAIN all : all[i] = m
        OBVIOUS
    <3>1. CASE m \in 1 .. r
      <4>1. m \in DOMAIN all /\ all[m] = m
          BY <2>3, <2>5, <2>6, <3>1
      <4> QED BY <4>1
    <3>2. ASSUME NEW k \in 1 .. q, m = r + k PROVE \E i \in DOMAIN all : all[i] = m
      <4>1. (r + n) + k \in DOMAIN all
          BY <2>0
      <4>2. all[(r + n) + k] = m
          BY <2>6, <3>2
      <4> QED BY <4>1, <4>2
    <3>3. ASSUME NEW k \in 1 .. n, m = (r + q) + k
          PROVE  \E i \in DOMAIN all : all[i] = m
      <4>1. r + k \in DOMAIN all
          BY <2>0
      <4>2. all[r + k] = m
          BY <2>6, <3>3
      <4> QED BY <4>1, <4>2
    <3>4. \/ m \in 1 .. r
          \/ \E k \in 1 .. q : m = r + k
          \/ \E k \in 1 .. n : m = (r + q) + k
      <4>1. \/ m \in 1 .. r
            \/ m - r \in 1 .. q /\ m = r + (m - r)
            \/ m - (r + q) \in 1 .. n /\ m = (r + q) + (m - (r + q))
          BY <2>3
      <4> QED BY <4>1
    <3> QED BY <3>1, <3>2, <3>3, <3>4
  <2>9. {all[i] : i \in DOMAIN all} = DOMAIN packages
      BY <2>3, <2>7, <2>8
  <2>10. Len(all) = Len(packages)
      BY <2>3, <2>5
  <2> QED BY <2>2, <2>9, <2>10 DEF all
<1>2. IInv => FreedOnce
    BY <1>1
<1> QED BY <1>2, IteratorInvariance, PTL
=============================================================================
