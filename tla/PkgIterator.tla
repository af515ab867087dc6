----------------------------- MODULE PkgIterator -----------------------------
(***************************************************************************)
(* The iterator over the packages of a repository                          *)
(* (src/xml_parser_main_metadata_together.c).  primary, filelists and      *)
(* other are read side by side, a chunk of one file at a time, and a       *)
(* package is handed to the caller once all of them have supplied their    *)
(* part.  Packages not complete yet are kept in one list; per file, a      *)
(* count tells how many packages of the list the file has supplied, and so *)
(* which package of the list its next element has to belong to.            *)
(*                                                                         *)
(* Of an element only the pkgId matters, and that it may be cut by the end *)
(* of a chunk.  The caller may supply newpkgcb, which makes the package,   *)
(* or leaves it out, or interrupts the parsing.                            *)
(***************************************************************************)
EXTENDS Integers, Sequences, FiniteSets

CONSTANTS
    PkgIds,         \* the checksums that identify packages
    Inputs          \* what can be read: records of the fields below

Files == {"primary", "filelists", "other"}

ASSUME PkgIteratorAssumption ==
    Inputs \subseteq
      [content  : [Files -> Seq(PkgIds)],   \* the package elements of a file
       read     : SUBSET Files,             \* the files whose path is given
       callback : BOOLEAN,                  \* newpkgcb is given
       wanted   : SUBSET PkgIds]            \* the packages newpkgcb accepts

VARIABLES
    input,          \* what is read
    pc,             \* "idle" between two calls of parse_next, then "loop" or
                    \* the file whose turn it is; "ended", "failed", "freed"
    error,          \* why it has failed
    reading,        \* a chunk of that file is being parsed
    progress,       \* something has been parsed of it
    at,             \* per file: the package elements that are parsed
    open,           \* per file: the parser is inside a package element
    current,        \* per file: the package the parser fills, 0 for none
    done,           \* the files that are read to their end
    packages,       \* all packages ever made, by the order of their making
    inProgress,     \* in_progress_pkgs_list
    count,          \* per file: its in_progress_count
    finished,       \* finished_pkgs_queue
    returned,       \* the packages handed to the caller
    freed           \* the packages freed by cr_PkgIterator_free

parserVars == <<at, open, current, done>>
listVars == <<packages, inProgress, count, finished>>
vars == <<input, pc, error, reading, progress, parserVars, listVars, returned,
          freed>>

Content(f) == input.content[f]
Wanted(p) == ~input.callback \/ p \in input.wanted

\* cbdata->loadingflags: what makes a package complete.
LoadingFlags == {"primary"} \union input.read

NewIterator ==
    /\ input \in Inputs
    /\ pc = "idle"
    /\ error = "none"
    /\ reading = FALSE /\ progress = FALSE
    /\ at = [f \in Files |-> 0]
    /\ open = [f \in Files |-> FALSE]
    /\ current = [f \in Files |-> 0]
    /\ done = Files \ LoadingFlags
    /\ packages = <<>>
    /\ inProgress = <<>>
    /\ count = [f \in Files |-> 0]
    /\ finished = <<>>
    /\ returned = <<>>
    /\ freed = <<>>

Fail(why) ==
    /\ error' = why
    /\ pc' = "failed"
    /\ reading' = FALSE

-----------------------------------------------------------------------------
(* cr_PkgIterator_parse_next.                                              *)

IsFinished == done = Files

ParseNext ==
    /\ pc = "idle"
    /\ pc' = "loop"
    /\ UNCHANGED <<input, error, reading, progress, parserVars, listVars,
                   returned, freed>>

Iterate ==
    /\ pc = "loop"
    /\ ~IsFinished /\ finished = <<>>
    /\ pc' = "primary"
    /\ UNCHANGED <<input, error, reading, progress, parserVars, listVars,
                   returned, freed>>

ReturnPackage ==
    /\ pc = "loop"
    /\ finished # <<>>
    /\ returned' = Append(returned, Head(finished))
    /\ finished' = Tail(finished)
    /\ pc' = "idle"
    /\ UNCHANGED <<input, error, reading, progress, parserVars, packages,
                   inProgress, count, freed>>

\* NULL without an error: the caller has had them all.
ReturnNull ==
    /\ pc = "loop"
    /\ finished = <<>> /\ IsFinished
    /\ pc' = "ended"
    /\ UNCHANGED <<input, error, reading, progress, parserVars, listVars,
                   returned, freed>>

\* filelists and other are not kept ahead of primary.
Mutant_Behind(f) == f # "primary" => count[f] < count["primary"]
\* filelists and other are read until they are ahead of primary.
Behind(f) == f # "primary" => count[f] <= count["primary"]

After(f) == CASE f = "primary"   -> "filelists"
              [] f = "filelists" -> "other"
              [] OTHER           -> "loop"

Leave(f) ==
    /\ pc = f /\ ~reading
    /\ f \in done \/ ~Behind(f)
    /\ pc' = After(f)
    /\ UNCHANGED <<input, error, reading, progress, parserVars, listVars,
                   returned, freed>>

-----------------------------------------------------------------------------
(* parse_next_section, for one chunk of a file.                            *)

Turn(f) == pc = f /\ ~reading /\ f \notin done /\ Behind(f)

AllParsed(f) == at[f] = Len(Content(f)) /\ ~open[f]

ReadChunk(f) ==
    /\ Turn(f) /\ ~AllParsed(f)
    /\ reading' = TRUE
    /\ progress' = FALSE
    /\ UNCHANGED <<input, pc, error, parserVars, listVars, returned, freed>>

\* A read of length 0 ends the file; primary is read once in an iteration.
ReadEnd(f) ==
    /\ Turn(f) /\ AllParsed(f)
    /\ done' = done \union {f}
    /\ pc' = After(f)
    /\ UNCHANGED <<input, error, reading, progress, at, open, current, listVars,
                   returned, freed>>

\* The file cannot be read or is not well-formed, or warningcb interrupts.
ReadFails(f) ==
    /\ Turn(f) \/ (pc = f /\ reading)
    /\ Fail("unreadable")
    /\ UNCHANGED <<input, progress, parserVars, listVars, returned, freed>>

ChunkEnds(f) ==
    /\ pc = f /\ reading /\ progress
    /\ reading' = FALSE
    /\ pc' = IF f = "primary" THEN After(f) ELSE f
    /\ UNCHANGED <<input, error, progress, parserVars, listVars, returned, freed>>

-----------------------------------------------------------------------------
(* The callbacks of the three parsers.                                     *)

NextId(f) == Content(f)[at[f] + 1]

\* find_in_progress_pkg, by the count of the file.
Listed(f) == count[f] < Len(inProgress)
ListedPackage(f) == inProgress[count[f] + 1]
\* The package of the list is taken, whatever its pkgId.
Mutant_Found(f) == Listed(f)
Found(f) == Listed(f) /\ packages[ListedPackage(f)].id = NextId(f)

\* The parts of a package: which element of each file it has got, 0 for none.
NewPackage(f) == [id |-> NextId(f), parts |-> [g \in Files |-> 0]]
NewNumber == Len(packages) + 1

\* A package element of primary is parsed into a package of its own.
StartPrimary ==
    /\ pc = "primary" /\ reading
    /\ ~open["primary"] /\ at["primary"] < Len(Content("primary"))
    /\ open' = [open EXCEPT !["primary"] = TRUE]
    /\ progress' = TRUE
    /\ UNCHANGED <<input, pc, error, reading, at, current, done, listVars,
                   returned, freed>>

Start(f) ==
    /\ f # "primary"
    /\ pc = f /\ reading
    /\ ~open[f] /\ at[f] < Len(Content(f))
    /\ open' = [open EXCEPT ![f] = TRUE]
    /\ progress' = TRUE

\* newpkg_general: the package is in the list already.
StartFound(f) ==
    /\ Start(f)
    /\ Found(f)
    /\ current' = [current EXCEPT ![f] = ListedPackage(f)]
    /\ UNCHANGED <<input, pc, error, reading, at, done, listVars, returned, freed>>

\* A new package is put last.  In any other place it is out of order.
StartNew(f) ==
    /\ Start(f)
    /\ ~Found(f) /\ Wanted(NextId(f))
    /\ current' = [current EXCEPT ![f] = NewNumber]
    /\ packages' = Append(packages, NewPackage(f))
    /\ inProgress' = Append(inProgress, NewNumber)
    /\ IF Listed(f) THEN Fail("out_of_order")
                    ELSE UNCHANGED <<pc, error, reading>>
    /\ UNCHANGED <<input, at, done, count, finished, returned, freed>>

\* The error of find_in_progress_pkg is not cleared.
Mutant_StartSkipped(f) ==
    /\ Start(f)
    /\ ~Found(f) /\ ~Wanted(NextId(f))
    /\ current' = [current EXCEPT ![f] = 0]
    /\ IF Listed(f) THEN Fail("out_of_order")
                    ELSE UNCHANGED <<pc, error, reading>>
    /\ UNCHANGED <<input, at, done, listVars, returned, freed>>
\* newpkgcb leaves it out, and then its order does not matter.
StartSkipped(f) ==
    /\ Start(f)
    /\ ~Found(f) /\ ~Wanted(NextId(f))
    /\ current' = [current EXCEPT ![f] = 0]
    /\ UNCHANGED <<input, pc, error, reading, at, done, listVars, returned, freed>>

StartInterrupted(f) ==
    /\ Start(f)
    /\ ~Found(f) /\ input.callback
    /\ Fail("interrupted")
    /\ UNCHANGED <<input, at, current, done, listVars, returned, freed>>

End(f) ==
    /\ pc = f /\ reading /\ open[f]
    /\ open' = [open EXCEPT ![f] = FALSE]
    /\ at' = [at EXCEPT ![f] = @ + 1]
    /\ progress' = TRUE

IsComplete(parts) == \A g \in LoadingFlags : parts[g] # 0

CountDown(f) == f \in LoadingFlags

\* The element of f is the part of package p; ps and list are the packages and
\* the list, p included.  queue_package_if_finished drops the first of the list.
Supply(f, p, ps, list) ==
    LET parts == [ps[p].parts EXCEPT ![f] = at[f] + 1]
        counts == [count EXCEPT ![f] = @ + 1]
    IN  /\ packages' = [ps EXCEPT ![p].parts = parts]
        /\ IF IsComplete(parts)
             THEN /\ inProgress' = Tail(list)
                  /\ count' = [g \in Files |->
                                 counts[g] - IF CountDown(g) THEN 1 ELSE 0]
                  /\ finished' = Append(finished, p)
             ELSE /\ inProgress' = list
                  /\ count' = counts
                  /\ UNCHANGED finished

\* pkgcb_filelists and pkgcb_other.
EndPackage(f) ==
    /\ f # "primary"
    /\ End(f)
    /\ current[f] # 0
    /\ Supply(f, current[f], packages, inProgress)
    /\ current' = [current EXCEPT ![f] = 0]
    /\ UNCHANGED <<input, pc, error, reading, done, returned, freed>>

EndSkipped(f) ==
    /\ f # "primary"
    /\ End(f)
    /\ current[f] = 0
    /\ UNCHANGED <<input, pc, error, reading, current, done, listVars, returned,
                   freed>>

\* pkgcb_primary: only now the pkgId of the element is known.
EndPrimaryFound ==
    /\ End("primary")
    /\ Found("primary")
    /\ Supply("primary", ListedPackage("primary"), packages, inProgress)
    /\ UNCHANGED <<input, pc, error, reading, current, done, returned, freed>>

EndPrimaryNew ==
    /\ End("primary")
    /\ ~Listed("primary") /\ Wanted(NextId("primary"))
    /\ Supply("primary", NewNumber, Append(packages, NewPackage("primary")),
              Append(inProgress, NewNumber))
    /\ UNCHANGED <<input, pc, error, reading, current, done, returned, freed>>

EndPrimaryOutOfOrder ==
    /\ End("primary")
    /\ Listed("primary") /\ ~Found("primary") /\ Wanted(NextId("primary"))
    /\ packages' = Append(packages, NewPackage("primary"))
    /\ inProgress' = Append(inProgress, NewNumber)
    /\ Fail("out_of_order")
    /\ UNCHANGED <<input, current, done, count, finished, returned, freed>>

EndPrimarySkipped ==
    /\ End("primary")
    /\ ~Found("primary") /\ ~Wanted(NextId("primary"))
    /\ UNCHANGED <<input, pc, error, reading, current, done, listVars, returned,
                   freed>>

EndPrimaryInterrupted ==
    /\ End("primary")
    /\ ~Found("primary") /\ input.callback
    /\ Fail("interrupted")
    /\ UNCHANGED <<input, current, done, listVars, returned, freed>>

-----------------------------------------------------------------------------
\* The packages of the queue are forgotten.
Mutant_Free ==
    /\ pc \in {"idle", "ended", "failed"}
    /\ freed' = IF input.callback THEN <<>> ELSE inProgress
    /\ pc' = "freed"
    /\ UNCHANGED <<input, error, reading, progress, parserVars, listVars, returned>>
\* cr_PkgIterator_free, at any time: packages made by newpkgcb are the caller's.
Free ==
    /\ pc \in {"idle", "ended", "failed"}
    /\ freed' = IF input.callback THEN <<>> ELSE inProgress \o finished
    /\ pc' = "freed"
    /\ UNCHANGED <<input, error, reading, progress, parserVars, listVars, returned>>

Parse(f) ==
    \/ Leave(f)
    \/ ReadChunk(f) \/ ReadEnd(f) \/ ReadFails(f) \/ ChunkEnds(f)
    \/ StartFound(f) \/ StartNew(f) \/ StartSkipped(f) \/ StartInterrupted(f)
    \/ EndPackage(f) \/ EndSkipped(f)

ParsePrimary ==
    \/ StartPrimary
    \/ EndPrimaryFound \/ EndPrimaryNew \/ EndPrimaryOutOfOrder
    \/ EndPrimarySkipped \/ EndPrimaryInterrupted

Run ==
    \/ ParseNext
    \/ Iterate \/ ReturnPackage \/ ReturnNull
    \/ \E f \in Files : Parse(f)
    \/ ParsePrimary

Next == Run \/ Free

\* The caller asks until it gets no package, and every call runs.
Spec == NewIterator /\ [][Next]_vars /\ WF_vars(Run)

-----------------------------------------------------------------------------
(* Properties.                                                             *)

Numbers == DOMAIN packages

\* How many of the first elements of f are of packages that the caller wants.
Rank(f) ==
    [i \in 0 .. Len(Content(f)) |->
       Cardinality({j \in 1 .. i : Wanted(Content(f)[j])})]
WantedCount(f) == Rank(f)[Len(Content(f))]

\* The i-th element of f is the k-th wanted one.
IsWanted(f, i, k) ==
    i \in DOMAIN Content(f) /\ Wanted(Content(f)[i]) /\ Rank(f)[i] = k

\* The k-th package that is completed consists of the k-th wanted element of
\* every file, and of nothing else, wherever the chunks end: no part is given
\* to another package, none is missing, and the order of primary is kept.
Assembled ==
    LET complete == returned \o finished
    IN  \A k \in DOMAIN complete :
          LET p == packages[complete[k]]
          IN  \A f \in Files :
                IF f \in LoadingFlags
                  THEN /\ IsWanted(f, p.parts[f], k)
                       /\ p.id = Content(f)[p.parts[f]]
                  ELSE p.parts[f] = 0

\* When the caller gets no more packages, every wanted element of primary has
\* been handed out, but for a tail that another file does not have.
AllReturned ==
    pc = "ended" =>
      /\ \A f \in LoadingFlags : Len(returned) <= WantedCount(f)
      /\ \E f \in LoadingFlags : Len(returned) = WantedCount(f)

\* Files that hold the wanted packages in the same order are never out of order,
\* even if newpkgcb leaves out packages that are in different places.
OutOfOrderOnlyIfSo ==
    error = "out_of_order" =>
      \E f, g \in LoadingFlags :
        \E i \in DOMAIN Content(f), j \in DOMAIN Content(g) :
          /\ IsWanted(f, i, Rank(g)[j]) /\ IsWanted(g, j, Rank(f)[i])
          /\ Content(f)[i] # Content(g)[j]

\* is_finished is only true once the caller has got every package: all files at
\* their end while packages wait in the queue would make it end too early.
FinishedMeansConsumed ==
    pc = "idle" /\ IsFinished => finished = <<>>

\* Whenever the iterator is freed, each package it has made itself is either
\* the caller's or freed, and only once.
FreedOnce ==
    pc = "freed" /\ ~input.callback =>
      LET all == returned \o freed
      IN  /\ {all[i] : i \in DOMAIN all} = Numbers
          /\ Len(all) = Len(packages)

\* filelists and other hold no package that primary lacks.
NoExtraPackages ==
    \A f \in LoadingFlags : WantedCount(f) <= WantedCount("primary")

Over == pc \in {"ended", "failed", "freed"}

\* If primary lists all packages, the caller comes to an end.
Ends == NoExtraPackages ~> Over

\* The caller always comes to an end: the loop of the tests, which asks until
\* there is no package and then asserts that the iterator is finished.
EndsAlways == <>Over

\* What cr_PkgIterator_parse_next hands out: packages made of their own elements
\* of the three files, all that are wanted, and no end before the last of them.
HandedOut == Assembled /\ AllReturned /\ FinishedMeansConsumed
=============================================================================
