------------------------------- MODULE MergeRepo -------------------------------
(***************************************************************************)
(* The merge of mergerepo_c (src/mergerepo_c.c, src/koji.c): the packages  *)
(* of several repositories go into one table, repository by repository,    *)
(* and within one in the arbitrary order of its hash table.                *)
(*                                                                         *)
(* The lists of repositories and of their locations are both built by      *)
(* prepending, so repositories are in the order of the command line.       *)
(***************************************************************************)
EXTENDS Integers, Sequences, FiniteSets, SequencesExt, FiniteSetsExt

CONSTANT Calls      \* command lines: records of the fields used below, which
                    \* include the repositories that cannot be loaded

\* --noarch-repo is a hash table by location.
ASSUME MergeRepoAssumption ==
    \A c \in Calls :
      /\ Len(c.repos) \in Nat /\ DOMAIN c.repos = 1..Len(c.repos)
      /\ \A r \in DOMAIN c.repos : IsFiniteSet(c.repos[r])
      /\ IsFiniteSet(c.noarch)
      /\ \A p, q \in c.noarch : p.href = q.href => p = q
      /\ {c.koji, c.simple, c.all, c.omitBaseurl, c.pkgorigins} \subseteq BOOLEAN
      /\ c.method \in {"repo", "ts", "nvr"}
      /\ \A p \in c.noarch \union UNION {c.repos[r] : r \in DOMAIN c.repos} :
           /\ p.evr \in [1..3 -> Nat] /\ p.time \in Nat /\ p.srpm.vr \in Nat
           /\ p.base \in {"own", "none"}

\* A package is a record of its id, name, arch, evr (epoch, version and release
\* as ranks), time (of its file), href, base ("own" or "none") and srpm, whose
\* name may be "none", or "bad" if it is not that of a source rpm.
\* An object is a package that was loaded from a repository, 0 for --noarch-repo.
Object(r, p) == [repo |-> r, pkg |-> p]

VARIABLES
    call,           \* the command line with the repositories it names
    pc, repo,       \* the stage, and the repository it is at
    left,           \* objects of that repository still to be visited
    table, noarch,  \* the objects its hash table and that of --noarch-repo own
    used,           \* used_noarch_keys
    blocked, simple,\* koji_stuff: blocked_srpms, simple,
    include, seen,  \* include_srpms, seen_rpms,
    open, origins,  \* and pkgorigins: is it open, and the lines written
    merged,         \* merged_hashtable: from a name to a list of objects
    base,           \* the location_base that objects were given
    loaded,         \* the number merge_repos returns; -1 for an error
    freed           \* the objects freed so far, once for each time

kojiVars == <<blocked, simple, include, seen>>
mergeVars == <<call, pc, repo, left, table, noarch, used, kojiVars,
               open, origins, merged, base, loaded, freed>>

Repos == DOMAIN call.repos
NoMap == [x \in {} |-> 0]

-----------------------------------------------------------------------------
(* Arguments: check_arguments.                                             *)

Expansion ==
    [i386 |-> {"i486", "i586", "geode", "i686", "athlon"},
     x86_64 |-> {"ia32e", "amd64"},
     ppc64 |-> {"ppc64pseries", "ppc64iseries"},
     sparc64 |-> {"sparc64v", "sparc64v2"},
     sparc |-> {"sparcv8", "sparcv9", "sparcv9v", "sparcv9v2"},
     alpha |-> {"alphaev4", "alphaev45", "alphaev5", "alphaev56", "alphapca56",
                "alphaev6", "alphaev67", "alphaev68", "alphaev7"},
     armhfp |-> {"armv7hl", "armv7hnl"},
     arm |-> {"rmv5tel", "armv5tejl", "armv6l", "armv7l"},
     sh4 |-> {"sh4a"}]
Multilib == [x86_64 |-> "i386", ppc64 |-> "ppc", s390x |-> "s390"]

\* The list is only searched, so it is a set.  An arch that is in it already,
\* as an expansion of another one, is not expanded itself.
AppendArch(list, arch, expand) ==
    IF arch \in list THEN list
    ELSE list \union {arch, "noarch"}
              \union (IF expand /\ arch \in DOMAIN Expansion THEN Expansion[arch] ELSE {})
AppendMultilib(list, arch) ==
    IF arch \in DOMAIN Multilib THEN AppendArch(list, Multilib[arch], TRUE) ELSE list

\* {} is no restriction; without --archlist koji merges noarch packages only.
ArchList(c) ==
    LET expand == c.koji \/ c.expand
        add(arch, list) ==
            LET l == AppendArch(list, arch, expand)
            IN  IF expand THEN AppendMultilib(l, arch) ELSE l
    IN  IF c.archs = <<>> /\ c.koji THEN {"noarch"}
        ELSE FoldLeft(LAMBDA list, arch : add(arch, list), {}, c.archs)

Method ==
    IF call.koji THEN IF call.simple THEN "duplicates" ELSE "all"
    ELSE IF call.all THEN "all" ELSE call.method

-----------------------------------------------------------------------------
(* main(), up to the merge.                                                *)

Loaded(r) == {Object(r, p) : p \in call.repos[r]}

MergeInit ==
    /\ call \in Calls
    /\ pc = "koji" /\ repo = 1 /\ left = {} /\ table = {} /\ used = {}
    /\ noarch = {Object(0, p) : p \in call.noarch}
    /\ blocked = {} /\ simple = FALSE /\ include = NoMap /\ seen = {}
    /\ open = FALSE /\ origins = {}
    /\ merged = NoMap /\ loaded = 0 /\ freed = <<>>
    /\ base = [o \in {n \in noarch : n.pkg.base = "none"} |-> 0]

KojiStuff == call.koji \/ open

\* koji_stuff_prepare and pkgorigins_prepare may fail, and are not asked.
PrepareNothing ==
    /\ pc = "koji" /\ ~call.koji
    /\ open' \in {FALSE, call.pkgorigins}
    /\ pc' = "load"
    /\ UNCHANGED <<kojiVars>>
PrepareKoji ==
    /\ pc = "koji" /\ call.koji
    /\ blocked' = call.blocked /\ simple' = call.simple
    /\ open' = TRUE
    /\ pc' = "builds"
    /\ UNCHANGED <<include, seen>>
BlockedUnreadable ==
    /\ pc = "koji" /\ call.koji /\ call.blocked # {}
    /\ pc' = "load"
    /\ UNCHANGED <<kojiVars, open>>
OriginsUnwritable ==
    /\ pc = "koji" /\ call.koji
    /\ blocked' = call.blocked /\ simple' = call.simple
    /\ pc' = "load"
    /\ UNCHANGED <<include, seen, open>>
Prepare ==
    /\ PrepareNothing \/ PrepareKoji \/ BlockedUnreadable \/ OriginsUnwritable
    /\ UNCHANGED <<call, repo, left, table, noarch, used, origins, merged, base,
                   loaded, freed>>

\* Every repository is loaded once for its builds, and an error ends the loop
\* only.  The packages are freed when their repository is done.
Loadable == repo \notin call.damaged
BuildsLoaded ==
    /\ pc = "builds"
    /\ IF repo \in Repos /\ Loadable
         THEN left' = Loaded(repo) /\ pc' = "visit" /\ UNCHANGED repo
         ELSE pc' = "load" /\ repo' = 1 /\ UNCHANGED left
    /\ UNCHANGED include

HasSrpm(o) == o.pkg.srpm.name \notin {"none", "bad"}

\* The build of an earlier repository stays; within one the newest is taken.
Mutant_NewBuild(srpm) ==
    \/ srpm.name \notin DOMAIN include
    \/ srpm.vr > include[srpm.name].vr
NewBuild(srpm) ==
    \/ srpm.name \notin DOMAIN include
    \/ include[srpm.name].repo = repo /\ srpm.vr > include[srpm.name].vr
VisitBuild ==
    /\ pc = "visit"
    /\ \E o \in left :
         /\ left' = left \ {o}
         /\ include' =
              IF HasSrpm(o) /\ NewBuild(o.pkg.srpm)
                THEN [n \in DOMAIN include \union {o.pkg.srpm.name} |->
                         IF n = o.pkg.srpm.name
                           THEN [repo |-> repo, vr |-> o.pkg.srpm.vr] ELSE include[n]]
                ELSE include
    /\ UNCHANGED <<pc, repo>>
BuildsTaken ==
    /\ pc = "visit" /\ left = {}
    /\ pc' = "builds" /\ repo' = repo + 1
    /\ UNCHANGED <<left, include>>

FindBuilds ==
    /\ BuildsLoaded \/ VisitBuild \/ BuildsTaken
    /\ UNCHANGED <<call, table, noarch, used, blocked, simple, seen, open,
                   origins, merged, base, loaded, freed>>

-----------------------------------------------------------------------------
(* merge_repos.                                                            *)

LoadRepo ==
    /\ pc = "load" /\ repo \in Repos
    /\ IF Loadable
         THEN left' = Loaded(repo) /\ table' = left' /\ pc' = "merge" /\ UNCHANGED loaded
         ELSE loaded' = -1 /\ pc' = "merged" /\ UNCHANGED <<left, table>>
    /\ UNCHANGED <<call, repo, noarch, used, kojiVars, open, origins, merged, base, freed>>

\* A noarch package is replaced by the one of --noarch-repo at its location.
Substitute(o) ==
    LET found == {n \in noarch : n.pkg.href = o.pkg.href}
    IN  IF o.pkg.arch = "noarch" /\ found # {} THEN CHOOSE n \in found : TRUE ELSE o

RightArch(o) == ArchList(call) = {} \/ o.pkg.arch \in ArchList(call)

Nvra(o) == <<o.pkg.name, o.pkg.evr[2], o.pkg.evr[3], o.pkg.arch>>
BuildAllowed(o) ==
    o.pkg.srpm.name # "none" =>
        /\ o.pkg.srpm.name \notin blocked
        /\ simple \/ /\ o.pkg.srpm.name \in DOMAIN include
                     /\ include[o.pkg.srpm.name].vr = o.pkg.srpm.vr
Unseen(o) == simple \/ Nvra(o) \notin seen
\* pkgorigins_prepare makes no tables to look into.
KojiAllows(o) ==
    KojiStuff => /\ o.pkg.srpm.name # "bad"
                 /\ call.koji => BuildAllowed(o) /\ Unseen(o)

Listed(o) == IF o.pkg.name \in DOMAIN merged THEN merged[o.pkg.name] ELSE <<>>
\* The places in the list of the packages that are in its way.
Rivals(o) ==
    {i \in DOMAIN Listed(o) :
        /\ Listed(o)[i].pkg.arch = o.pkg.arch
        /\ Method \notin {"repo", "ts", "nvr"} => Listed(o)[i].pkg.evr = o.pkg.evr}
Rival(o) == Listed(o)[Min(Rivals(o))]

Newer(o, c) ==
    \/ Method = "ts" /\ o.pkg.time > c.pkg.time
    \/ Method = "nvr" /\ \E i \in 1..3 : /\ o.pkg.evr[i] > c.pkg.evr[i]
                                         /\ \A j \in 1..i-1 : o.pkg.evr[j] = c.pkg.evr[j]

\* What add_package does with an object: 0 not added, 1 added, 2 in the place of
\* an older one, 3 added as a duplicate.
AddPackage(o) ==
    IF ~RightArch(o) \/ ~KojiAllows(o) THEN 0
    ELSE IF Rivals(o) = {} THEN 1
    ELSE IF Method \in {"ts", "nvr"} THEN IF Newer(o, Rival(o)) THEN 2 ELSE 0
    ELSE IF Method = "duplicates" THEN 3 ELSE 0

Repopath == IF call.omitBaseurl \/ (KojiStuff /\ repo = 1) THEN {} ELSE {repo}

\* The package goes behind the first one, or where the older one was.
Insert(o, ret) ==
    LET list == Listed(o)
    IN  IF list = <<>> THEN <<o>>
        ELSE IF ret = 2 THEN [i \in DOMAIN list |-> IF list[i] = Rival(o) THEN o ELSE list[i]]
        ELSE InsertAt(list, 2, o)

\* A package of the table is taken out of it; one of --noarch-repo stays there,
\* and its key is noted.
Mutant_Keep(p, o) == UNCHANGED <<table, used>>
Keep(p, o) ==
    IF o = p THEN table' = table \ {p} /\ UNCHANGED used
             ELSE used' = used \union {o.pkg.href} /\ UNCHANGED table

Counts(ret) == ret = 1

MergePackage ==
    /\ pc = "merge"
    /\ \E p \in left :
         LET o == Substitute(p)
             ret == AddPackage(o)
         IN  /\ left' = left \ {p}
             /\ seen' = IF call.koji /\ ~simple /\ RightArch(o) /\ KojiAllows(o)
                          THEN seen \union {Nvra(o)} ELSE seen
             /\ IF ret = 0
                  THEN UNCHANGED <<table, used, merged, base, loaded, origins, freed>>
                  ELSE /\ Keep(p, o)
                       /\ merged' = [n \in DOMAIN merged \union {o.pkg.name} |->
                                        IF n = o.pkg.name THEN Insert(o, ret) ELSE merged[n]]
                       /\ base' = IF o.pkg.base = "own" \/ o \in DOMAIN base \/ Repopath = {}
                                    THEN base
                                    ELSE [x \in DOMAIN base \union {o} |->
                                             IF x = o THEN repo ELSE base[x]]
                       /\ freed' = IF ret = 2 THEN Append(freed, Rival(o)) ELSE freed
                       /\ loaded' = IF Counts(ret) THEN loaded + 1 ELSE loaded
                       /\ origins' = IF Counts(ret) /\ open
                                       THEN origins \union {<<Nvra(o), repo>>} ELSE origins
    /\ UNCHANGED <<call, pc, repo, noarch, blocked, simple, include, open>>

\* cr_metadata_free frees what is still in the table.
RepoDone ==
    /\ pc = "merge" /\ left = {}
    /\ freed' = freed \o SetToSeq(table)
    /\ table' = {}
    /\ pc' = "load" /\ repo' = repo + 1
    /\ UNCHANGED <<call, left, noarch, used, kojiVars, open, origins, merged, base,
                   loaded>>

\* The noted keys are stolen from the table of --noarch-repo.
MergeDone ==
    /\ pc = "load" /\ repo \notin Repos
    /\ noarch' = {n \in noarch : n.pkg.href \notin used}
    /\ pc' = "merged"
    /\ UNCHANGED <<call, repo, left, table, used, kojiVars, open, origins, merged, base,
                   loaded, freed>>

\* The end of main(): the tables free what they own.  The dump has sorted every
\* list by location, but the table still points to the package that was first:
\* those sorted before it are not freed.
MergedObjects == UNION {ToSet(merged[n]) : n \in DOMAIN merged}
FromFirst == {S \in SUBSET MergedObjects : \A n \in DOMAIN merged : merged[n][1] \in S}
MergeCleanup ==
    /\ pc = "merged"
    /\ \E S \in IF loaded >= 0 THEN FromFirst ELSE {MergedObjects} :
         freed' = freed \o SetToSeq(noarch) \o SetToSeq(S)
    /\ noarch' = {} /\ pc' = "end"
    /\ UNCHANGED <<call, repo, left, table, used, kojiVars, open, origins, merged, base,
                   loaded>>

\* What is freed and still used may be read as it was, or end the program.
Dangling == ToSet(freed) \cap (MergedObjects \union noarch) # {}
MergeCrash ==
    /\ Dangling /\ pc # "end"
    /\ pc' = "crashed"
    /\ UNCHANGED <<call, repo, left, table, noarch, used, kojiVars, open, origins,
                   merged, base, loaded, freed>>

MergeNext ==
    \/ Prepare
    \/ FindBuilds
    \/ LoadRepo
    \/ MergePackage
    \/ RepoDone
    \/ MergeDone
    \/ MergeCleanup
    \/ MergeCrash

MergeSpec == MergeInit /\ [][MergeNext]_mergeVars

-----------------------------------------------------------------------------
(* What the merge promises, said without the tables it uses.               *)

Merges == pc = "merged" /\ loaded >= 0
Faultless == call.koji => open

\* The build of a srpm name that koji takes: the newest one of the first
\* repository that has a package of it.
Having(name, r) == {o \in Loaded(r) : HasSrpm(o) /\ o.pkg.srpm.name = name}
Build(name) ==
    LET r == Min({q \in Repos : Having(name, q) # {}})
    IN  Max({o.pkg.srpm.vr : o \in Having(name, r)})

Wanted(o) ==
    /\ RightArch(o)
    /\ KojiStuff => o.pkg.srpm.name # "bad"
    /\ call.koji /\ o.pkg.srpm.name # "none" =>
         /\ o.pkg.srpm.name \notin call.blocked
         /\ ~call.simple =>
              /\ \E r \in Repos : Having(o.pkg.srpm.name, r) # {}
              /\ o.pkg.srpm.vr = Build(o.pkg.srpm.name)

NoarchRepo == {Object(0, p) : p \in call.noarch}
Replacement(o) ==
    LET found == {n \in NoarchRepo : n.pkg.href = o.pkg.href}
    IN  IF o.pkg.arch = "noarch" /\ found # {} THEN CHOOSE n \in found : TRUE ELSE o
Offered(r) == {o \in {Replacement(p) : p \in Loaded(r)} : Wanted(o)}
Candidates == UNION {Offered(r) : r \in Repos}
FirstRepo(o) == Min({r \in Repos : o \in Offered(r)})

\* Which packages are alternatives of each other, and which of them is better.
Alike(o) ==
    IF call.koji THEN IF call.simple THEN <<o>> ELSE Nvra(o)
    ELSE IF call.all THEN <<o.pkg.name, o.pkg.evr, o.pkg.arch>>
    ELSE <<o.pkg.name, o.pkg.arch>>
Rank(o) ==
    IF Method = "ts" THEN <<o.pkg.time>>
    ELSE IF Method = "nvr" THEN o.pkg.evr
    ELSE <<0>>
Above(a, b) == \E i \in DOMAIN a : a[i] > b[i] /\ \A j \in 1..i-1 : a[j] = b[j]
Beats(o, c) ==
    \/ Above(Rank(o), Rank(c))
    \/ Rank(o) = Rank(c) /\ FirstRepo(o) < FirstRepo(c)

\* Whatever the order of the hash tables and of their packages: of all packages
\* that are alternatives exactly one is in the merged repository, and none of
\* the others is better or as good in an earlier repository.  koji_stuff_prepare
\* failing is left out: then koji merges packages without a source rpm only.
MergedAsPromised ==
    Merges /\ Faultless =>
        /\ MergedObjects \subseteq Candidates
        /\ \A c \in Candidates :
             /\ Cardinality({m \in MergedObjects : Alike(m) = Alike(c)}) = 1
             /\ \A m \in MergedObjects : Alike(m) = Alike(c) => ~Beats(c, m)

\* No package is freed twice or while it is in the merged table, and none that is
\* not in it is kept.  A package of --noarch-repo is owned by two tables: with a
\* method that replaces packages, one that admits duplicates, or after a
\* repository that cannot be loaded it is freed twice (left out here).
FreedOnce ==
    call.noarch = {} \/ (Method \in {"repo", "all"} /\ loaded >= 0) =>
        /\ IsInjective(freed)
        /\ pc # "end" => ToSet(freed) \cap MergedObjects = {}
        /\ pc = "end" /\ loaded >= 0 =>
             (NoarchRepo \union UNION {Loaded(r) : r \in Repos}) \ MergedObjects \subseteq ToSet(freed)

\* The number that goes into the headers of the XML files is that of the
\* packages, and pkgorigins has one line for each with the repository it came
\* from.  Left out: a duplicate (--simple) is not counted, and with ts and nvr
\* the line stays that of the package that was replaced.
Places == UNION {{n} \X DOMAIN merged[n] : n \in DOMAIN merged}
CountsMatch ==
    Merges =>
        /\ Method # "duplicates" => loaded = Cardinality(Places)
        /\ Method \in {"repo", "all"} /\ open =>
             origins = {<<Nvra(o), FirstRepo(o)>> : o \in MergedObjects}

\* A package without a base URL gets that of the repository it is from, whoever
\* was in the table before it; not with --omit-baseurl, nor for the first
\* repository of koji.
HasBase(o) ==
    LET r == IF o.repo = 0 THEN 0 ELSE FirstRepo(o)
    IN  IF o.pkg.base = "own" \/ (r # 0 /\ (call.omitBaseurl \/ (call.koji /\ r = 1)))
          THEN o \notin DOMAIN base
          ELSE o \in DOMAIN base /\ base[o] = r
BasesSet == Merges /\ ~(call.pkgorigins /\ ~call.koji) => \A o \in MergedObjects : HasBase(o)


\* merge_repos: each merge method keeps the packages it promises out of what the
\* arch list and koji admit, the counts are those of the table, and each package
\* has the base of the repository it is from.
MergedRight == MergedAsPromised /\ CountsMatch /\ BasesSet
=============================================================================
