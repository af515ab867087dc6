------------------------------- MODULE Retention -------------------------------
(***************************************************************************)
(* Which files of an old repodata/ go (src/helpers.c): the lists of files  *)
(* that createrepo_c leaves behind, and that mergerepo_c removes, and      *)
(* successive runs of createrepo_c --retain-old-md on one repository.      *)
(*                                                                         *)
(* A name is a record of its base ("primary.xml", "comps.xml", ...), its   *)
(* suffix of compression ("" for none) and what is put in front of it.     *)
(***************************************************************************)
EXTENDS Integers, FiniteSets, FiniteSetsExt

CONSTANTS
    Runs,           \* command lines: kind, val, and what the run writes
    Others,         \* names of files that no run writes
    MaxRuns,        \* bound: how many runs there are
    MaxClock        \* bound of the clock

\* "Number of retained old metadatas must be integer number >= -1".
ASSUME RetentionAssumption ==
    /\ \A r \in Runs :
         /\ r.kind \in {"default", "classic", "age"} /\ r.val \in Int
         /\ r.kind # "age" => r.val >= -1
         /\ IsFiniteSet(r.names)
    /\ IsFiniteSet(Others)

MainBases == {"primary.xml", "primary.sqlite", "filelists.xml", "filelists.sqlite",
              "other.xml", "other.sqlite"}

\* Without its last suffix the name ends like this; an uncompressed file has
\* none to lose and is not found.
OfBase(names, b) == {n \in names : n.base = b /\ n.sfx # ""}

\* The retain newest files of every base stay; which of two of one age is the
\* order of the directory.
Mutant_Oldest(list, mtime, retain) ==
    {X \in SUBSET list :
       /\ Cardinality(X) = (IF Cardinality(list) > retain THEN Cardinality(list) - retain ELSE 0)
       /\ \A x \in X, y \in list \ X : mtime[x] >= mtime[y]}
Oldest(list, mtime, retain) ==
    {X \in SUBSET list :
       /\ Cardinality(X) = (IF Cardinality(list) > retain THEN Cardinality(list) - retain ELSE 0)
       /\ \A x \in X, y \in list \ X : mtime[x] <= mtime[y]}

\* Each of these is the set of the lists that may come out.
ExcludelistClassic(names, mtime, retain) ==
    IF retain = -1 THEN {{}}
    ELSE {X \in SUBSET UNION {OfBase(names, b) : b \in MainBases} :
            \A b \in MainBases : OfBase(X, b) \in Oldest(OfBase(names, b), mtime, retain)}
Excludelist(referred, readable, retain) ==
    {IF retain = 0 /\ readable THEN referred ELSE {}}
ExcludelistByAge(names, mtime, now, age) ==
    {IF age < 0 THEN {} ELSE {n \in names : now - mtime[n] > age}}

-----------------------------------------------------------------------------
(* Runs of createrepo_c.                                                   *)

VARIABLES
    old,            \* repodata/: from a name to the run that wrote it, and when
    listed,         \* the names in its repomd.xml
    damaged,        \* is repomd.xml unreadable?
    run, clock,
    last            \* the command line of the last run, with its exclude list

retentionVars == <<old, listed, damaged, run, clock, last>>

NoRun == [kind |-> "none", val |-> 0, names |-> {}, excluded |-> {}]

RetentionInit ==
    /\ \E S \in SUBSET Others :
         old = [n \in S |-> [run |-> 0, mtime |-> 0]]
    /\ listed = {} /\ damaged = FALSE
    /\ run = 0 /\ clock = 0
    /\ last = NoRun

Mtimes == [n \in DOMAIN old |-> old[n].mtime]
Excluded(r) ==
    CASE r.kind = "age" -> ExcludelistByAge(DOMAIN old, Mtimes, clock, r.val)
      [] r.kind = "classic" -> ExcludelistClassic(DOMAIN old, Mtimes, r.val)
      [] r.kind = "default" -> Excludelist(listed, ~damaged, r.val)

\* cr_old_metadata_retention: the rest is copied with its age, but not over a
\* new file.
Copied(names, excluded) ==
    [n \in names \union (DOMAIN old \ excluded) |->
        IF n \in names THEN [run |-> run + 1, mtime |-> clock] ELSE old[n]]

Run(r) ==
    /\ run < MaxRuns
    /\ \E X \in Excluded(r) :
         /\ old' = Copied(r.names, X)
         /\ last' = [kind |-> r.kind, val |-> r.val, names |-> r.names, excluded |-> X]
    /\ listed' = r.names /\ damaged' = FALSE
    /\ run' = run + 1
    /\ UNCHANGED clock

\* Time passes, and somebody damages repomd.xml.
Tick == clock < MaxClock /\ clock' = clock + 1
          /\ UNCHANGED <<old, listed, damaged, run, last>>
Damage == listed # {} /\ ~damaged /\ damaged' = TRUE
            /\ UNCHANGED <<old, listed, run, clock, last>>

RetentionNext == Tick \/ Damage \/ \E r \in Runs : Run(r)
RetentionSpec == RetentionInit /\ [][RetentionNext]_retentionVars

-----------------------------------------------------------------------------
Gone == DOMAIN old \ DOMAIN old'

\* What a run publishes is its own, and what it leaves behind it had a reason
\* to: by default what the last repomd.xml listed and nothing else, by age what
\* is too old, and in the classic way metadata of which as many newer or equally
\* old ones of that kind stay as asked for.
OnlyOldGoes ==
    [][run' # run =>
        /\ \A n \in listed' : old'[n].run = run'
        /\ \A n \in Gone :
             CASE last'.kind = "default" -> n \in listed /\ last'.val = 0
               [] last'.kind = "age" -> old[n].mtime + last'.val < clock
               [] last'.kind = "classic" ->
                    /\ n.base \in MainBases
                    /\ Cardinality({m \in DOMAIN old \ Gone :
                           m.base = n.base /\ old[m].mtime >= old[n].mtime}) >= last'.val]_retentionVars

\* With --compatibility and NUM the newest NUM of the older copies stay whole,
\* if their files are of one time, no two copies share one, and every copy has
\* one file of a kind: with --zck there are two, and half of the copies stay.
Copy(r) == {n \in DOMAIN old : old[n].run = r /\ n.base \in MainBases}
Apart(r, s) == \A n \in Copy(r), m \in Copy(s) : old[n].mtime < old[m].mtime
Single(r) == \A n, m \in Copy(r) : n.base = m.base => n = m
CopiesStay ==
    [][run' # run /\ last'.kind = "classic" =>
        LET copies == {r \in 0..run : Copy(r) # {}}
        IN  (\A r, s \in copies : Single(r) /\ (r < s => Apart(r, s))) =>
              \A r \in copies :
                Cardinality({s \in copies : s >= r}) <= last'.val =>
                    Copy(r) \subseteq DOMAIN old']_retentionVars

\* cr_old_metadata_retention: metadata that are too old or too many go, and as
\* many complete copies stay as were asked for.
RetentionSound == OnlyOldGoes /\ CopiesStay
=============================================================================
