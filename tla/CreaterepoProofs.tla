--------------------------- MODULE CreaterepoProofs ---------------------------
(***************************************************************************)
(* Three parts of createrepo_c, each for any values of its constants: the  *)
(* cache of checksums that threads and processes share, the publication of *)
(* the metadata by any number of processes, and what leaves an old         *)
(* repodata/ in any number of runs.                                        *)
(***************************************************************************)
EXTENDS ChecksumCache, RepoPublish, Retention, FiniteSetTheorems, TLAPS

(***************************************************************************)
(* The cache of checksums. What it promises to any number of readers,      *)
(* packages and versions. That results are right rests on what the readers *)
(* that are between two steps hold (ResultsHeld), on their packages being  *)
(* the ones whose headers they read (PackagesSame), and on the entries.       *)
(***************************************************************************)

Storing == {"test", "store", "write", "move"}

PackagesSame ==
    \A w \in Readers :
        at[w] \in {"lookup", "calculate"} /\ MyKey(w) \notin spoiled
           => content[path[w]] = version[w]

ResultsHeld ==
    \A w \in Readers :
        at[w] \in Storing /\ MyKey(w) \notin spoiled
           => result[w] = Checksum(version[w], type[w])

Blank ==
    \A w \in Readers :
        at[w] \in {"lookup", "calculate"} => result[w] = NoChecksum

Entries == \A k \in DOMAIN cache : k \notin spoiled => EntryRight(k)

CacheInv ==
    /\ TypeOK
    /\ PackagesSame /\ ResultsHeld /\ Blank /\ Entries /\ ChecksumsRight

-----------------------------------------------------------------------------
USE CacheAssumption

LEMMA KeyParts ==
    ASSUME NEW w \in Readers
    PROVE  MyKey(w).version = version[w] /\ MyKey(w).type = type[w]
BY DEF MyKey, Key

LEMMA KeyTyped ==
    ASSUME TypeOK, NEW w \in Readers
    PROVE  MyKey(w) \in Keys
BY DEF TypeOK, MyKey, Key, Keys

LEMMA ChecksumTyped ==
    ASSUME NEW v \in Versions, NEW t \in Types
    PROVE  Checksum(v, t) \in EntryContents
BY DEF Checksum, EntryContents

\* What a step of w leaves alone.
OtherReaders(w) ==
    \A v \in Readers \ {w} :
        /\ at'[v] = at[v] /\ path'[v] = path[v] /\ result'[v] = result[v]
        /\ version'[v] = version[v] /\ type'[v] = type[v]

\* A step of one reader that leaves the cache alone.
LEMMA ReaderOnly ==
    ASSUME CacheInv, NEW w \in Readers, TypeOK',
           cache' = cache, content' = content, spoiled' = spoiled,
           OtherReaders(w),
           at'[w] \in {"lookup", "calculate"} => result'[w] = NoChecksum,
           MyKey(w)' \notin spoiled =>
              /\ at'[w] \in {"lookup", "calculate"}
                    => content[path'[w]] = version'[w]
              /\ at'[w] \in Storing
                    => result'[w] = Checksum(version'[w], type'[w])
              /\ at'[w] = "done" /\ result'[w] # NoChecksum
                    => result'[w] = Checksum(version'[w], type'[w])
    PROVE  CacheInv'
<1>1. \A v \in Readers \ {w} : MyKey(v)' = MyKey(v)
    BY DEF MyKey, OtherReaders
<1>2. PackagesSame'
    BY <1>1 DEF PackagesSame, OtherReaders, CacheInv
<1>3. ResultsHeld'
    BY <1>1 DEF ResultsHeld, OtherReaders, CacheInv
<1>4. Entries'
    BY DEF Entries, EntryRight, CacheInv
<1>5. ChecksumsRight'
    BY <1>1 DEF ChecksumsRight, OtherReaders, CacheInv
<1>6. Blank'
    BY DEF Blank, OtherReaders, CacheInv
<1> QED BY <1>2, <1>3, <1>4, <1>5, <1>6 DEF CacheInv

LEMMA CacheTypeStep == TypeOK /\ [CacheNext]_cacheVars => TypeOK'
<1> SUFFICES ASSUME TypeOK, [CacheNext]_cacheVars PROVE TypeOK'
    OBVIOUS
<1>1. ASSUME NEW w \in Readers, LoadRpm(w) PROVE TypeOK'
    BY <1>1 DEF LoadRpm, Goto, TypeOK, Labels
<1>2. ASSUME NEW w \in Readers, FindEntry(w) PROVE TypeOK'
    BY <1>2 DEF FindEntry, Usable, Goto, TypeOK, Labels
<1>3. ASSUME NEW w \in Readers, Calculate(w) PROVE TypeOK'
  <2>1. Checksum(content[path[w]], type[w]) \in EntryContents
      BY ChecksumTyped DEF TypeOK
  <2> QED BY <1>3, <2>1 DEF Calculate, Goto, TypeOK, Labels
<1>4. ASSUME NEW w \in Readers,
             \/ TestEntry(w) \/ CalculateFails(w) \/ MakeTempFails(w)
             \/ MoveFails(w) \/ KillReader(w)
      PROVE  TypeOK'
    BY <1>4 DEF TestEntry, CalculateFails, MakeTempFails, MoveFails,
                KillReader, Goto, TypeOK, Labels
<1>5. ASSUME NEW w \in Readers, MakeTemp(w) \/ Write(w) \/ WriteFails(w)
      PROVE  TypeOK'
    BY <1>5 DEF MakeTemp, Write, WriteFails, Goto, TypeOK, Labels
<1>6. ASSUME NEW w \in Readers, Move(w) PROVE TypeOK'
  <2>1. [result[w] EXCEPT !.part = temp[w]] \in EntryContents
      BY <1>6 DEF Move, TypeOK, EntryContents
  <2>2. /\ DOMAIN cache' \subseteq Keys
        /\ \A k \in DOMAIN cache' : cache'[k] \in EntryContents
      BY <1>6, <2>1, KeyTyped DEF Move, Put, TypeOK
  <2> QED BY <1>6, <2>2 DEF Move, Goto, TypeOK, Labels
<1>7. ASSUME NEW p \in Paths, Replace(p) PROVE TypeOK'
    BY <1>7 DEF Replace, readerVars, TypeOK
<1>8. CASE UNCHANGED cacheVars
    BY <1>8 DEF cacheVars, readerVars, TypeOK
<1> QED BY <1>1, <1>2, <1>3, <1>4, <1>5, <1>6, <1>7, <1>8
        DEF CacheNext, ReaderStep

LEMMA LoadRpmStep ==
    ASSUME CacheInv, TypeOK', NEW w \in Readers, LoadRpm(w)
    PROVE  CacheInv'
<1>1. /\ content[path'[w]] = version'[w] /\ at'[w] = "lookup"
      /\ result'[w] = NoChecksum /\ OtherReaders(w)
    BY DEF LoadRpm, Goto, CacheInv, TypeOK, OtherReaders
<1>2. UNCHANGED <<content, cache, spoiled>>
    BY DEF LoadRpm
<1> QED BY <1>1, <1>2, ReaderOnly DEF Storing

\* A usable entry that no fault has damaged is the checksum asked for.
LEMMA FindEntryStep ==
    ASSUME CacheInv, TypeOK', NEW w \in Readers, FindEntry(w)
    PROVE  CacheInv'
<1>1. /\ MyKey(w)' = MyKey(w) /\ OtherReaders(w)
      /\ UNCHANGED <<content, cache, path, version, type, spoiled>>
    BY DEF FindEntry, Goto, MyKey, CacheInv, TypeOK, OtherReaders
<1>2. CASE Usable(MyKey(w))
  <2>1. MyKey(w) \notin spoiled
           => cache[MyKey(w)] = Checksum(version[w], type[w])
      BY <1>2, KeyParts DEF Usable, CacheInv, Entries, EntryRight
  <2>2. at'[w] = "done" /\ result'[w] = cache[MyKey(w)]
      BY <1>2 DEF FindEntry, Goto, CacheInv, TypeOK
  <2> QED BY <1>1, <2>1, <2>2, ReaderOnly DEF Storing
<1>3. CASE ~Usable(MyKey(w))
  <2>1. at'[w] = "calculate" /\ at[w] = "lookup" /\ result' = result
      BY <1>3 DEF FindEntry, Goto, CacheInv, TypeOK
  <2>2. /\ MyKey(w) \notin spoiled => content[path[w]] = version[w]
        /\ result'[w] = NoChecksum
      BY <2>1 DEF CacheInv, PackagesSame, Blank
  <2> QED BY <1>1, <2>1, <2>2, ReaderOnly DEF Storing
<1> QED BY <1>2, <1>3

LEMMA CalculateStep ==
    ASSUME CacheInv, TypeOK', NEW w \in Readers, Calculate(w)
    PROVE  CacheInv'
<1>1. /\ MyKey(w)' = MyKey(w) /\ at[w] = "calculate" /\ OtherReaders(w)
      /\ UNCHANGED <<content, cache, path, version, type, spoiled>>
    BY DEF Calculate, Goto, MyKey, CacheInv, TypeOK, OtherReaders
<1>2. at'[w] = "test" /\ result'[w] = Checksum(content[path[w]], type[w])
    BY DEF Calculate, Goto, CacheInv, TypeOK
<1>3. MyKey(w) \notin spoiled => content[path[w]] = version[w]
    BY <1>1 DEF CacheInv, PackagesSame
<1> QED BY <1>1, <1>2, <1>3, ReaderOnly DEF Storing

\* The steps of a reader that has its checksum, but for the renaming.
LEMMA StoringStep ==
    ASSUME CacheInv, TypeOK', NEW w \in Readers,
           \/ TestEntry(w) \/ MakeTemp(w) \/ MakeTempFails(w)
           \/ Write(w) \/ WriteFails(w)
    PROVE  CacheInv'
<1>1. /\ MyKey(w)' = MyKey(w) /\ at[w] \in Storing /\ result' = result
      /\ cache' = cache /\ content' = content /\ spoiled' = spoiled
      /\ path' = path /\ version' = version /\ type' = type
    BY DEF TestEntry, MakeTemp, MakeTempFails, Write, WriteFails, MyKey,
           Storing
<1>2. /\ at'[w] \in Storing \union {"done"}
      /\ \A v \in Readers \ {w} : at'[v] = at[v]
    BY DEF TestEntry, MakeTemp, MakeTempFails, Write, WriteFails, Goto,
           Storing, CacheInv, TypeOK
<1>3. MyKey(w) \notin spoiled => result[w] = Checksum(version[w], type[w])
    BY <1>1 DEF CacheInv, ResultsHeld
<1>4. OtherReaders(w)
    BY <1>1, <1>2 DEF OtherReaders
<1> QED BY <1>1, <1>2, <1>3, <1>4, ReaderOnly DEF Storing

\* The steps that leave a reader without a checksum.
LEMMA FailingStep ==
    ASSUME CacheInv, TypeOK', NEW w \in Readers,
           CalculateFails(w) \/ MoveFails(w) \/ KillReader(w)
    PROVE  CacheInv'
<1>1. /\ at'[w] \in {"idle", "done"} /\ OtherReaders(w)
      /\ UNCHANGED <<content, cache, path, version, type, spoiled>>
    BY DEF CalculateFails, MoveFails, KillReader, Goto, CacheInv, TypeOK, OtherReaders
<1>2. result'[w] = NoChecksum
  <2>1. CASE CalculateFails(w)
      BY <2>1 DEF CalculateFails, CacheInv, Blank
  <2>2. CASE MoveFails(w) \/ KillReader(w)
      BY <2>2 DEF MoveFails, KillReader, CacheInv, TypeOK
  <2> QED BY <2>1, <2>2
<1> QED BY <1>1, <1>2, ReaderOnly DEF Storing

LEMMA MoveStep ==
    ASSUME CacheInv, TypeOK', NEW w \in Readers, Move(w)
    PROVE  CacheInv'
<1>1. /\ \A v \in Readers : MyKey(v)' = MyKey(v)
      /\ spoiled \subseteq spoiled'
      /\ MyKey(w) \notin spoiled' => temp[w] = "whole"
    BY DEF Move, MyKey
<1>2. at[w] = "move" /\ at' = [at EXCEPT ![w] = "done"]
    BY DEF Move, Goto
<1>3. MyKey(w) \notin spoiled => result[w] = Checksum(version[w], type[w])
    BY <1>2 DEF CacheInv, ResultsHeld, Storing
<1>4. MyKey(w) \notin spoiled' => EntryRight(MyKey(w))'
  <2> SUFFICES ASSUME MyKey(w) \notin spoiled'
               PROVE  EntryRight(MyKey(w))'
      OBVIOUS
  <2>1. cache'[MyKey(w)]
           = [Checksum(version[w], type[w]) EXCEPT !.part = "whole"]
      BY <1>1, <1>3 DEF Move, Put
  <2>2. cache'[MyKey(w)] = Checksum(version[w], type[w])
      BY <2>1 DEF Checksum
  <2> QED BY <1>1, <2>2, KeyParts DEF EntryRight, Move, Put
<1>5. Entries'
  <2> SUFFICES ASSUME NEW k \in DOMAIN cache', k \notin spoiled'
               PROVE  EntryRight(k)'
      BY DEF Entries
  <2>1. CASE k = MyKey(w)
      BY <1>1, <1>4, <2>1
  <2>2. CASE k # MyKey(w)
      BY <1>1, <2>2 DEF Move, Put, CacheInv, Entries, EntryRight
  <2> QED BY <2>1, <2>2
<1>6. PackagesSame' /\ ResultsHeld'
    BY <1>1, <1>2 DEF PackagesSame, ResultsHeld, Storing, Move, CacheInv, TypeOK
<1>7. ChecksumsRight'
    BY <1>1, <1>2, <1>3 DEF ChecksumsRight, Move, CacheInv, TypeOK
<1>8. Blank'
    BY <1>2 DEF Blank, Move, CacheInv, TypeOK
<1> QED BY <1>5, <1>6, <1>7, <1>8 DEF CacheInv

LEMMA ReplaceStep ==
    ASSUME CacheInv, TypeOK', NEW p \in Paths, Replace(p)
    PROVE  CacheInv'
<1>1. /\ UNCHANGED readerVars /\ cache' = cache /\ spoiled \subseteq spoiled'
      /\ \A v \in Readers : MyKey(v)' = MyKey(v)
    BY DEF Replace, readerVars, MyKey
<1>2. \A q \in Paths \ {p} : content'[q] = content[q]
    BY DEF Replace, CacheInv, TypeOK
<1>3. \A w \in Readers : at[w] \in {"lookup", "calculate"} /\ path[w] = p
                            => MyKey(w) \in spoiled'
    BY DEF Replace
<1>4. PackagesSame'
    BY <1>1, <1>2, <1>3 DEF PackagesSame, readerVars, CacheInv, TypeOK
<1>5. ResultsHeld' /\ Entries' /\ ChecksumsRight' /\ Blank'
    BY <1>1 DEF ResultsHeld, Entries, EntryRight, ChecksumsRight, Blank,
                readerVars, CacheInv
<1> QED BY <1>4, <1>5 DEF CacheInv

\* The invariant behind the results about checksums.
THEOREM CacheInvariance == CacheSpec => []CacheInv
<1>1. CacheInit => CacheInv
    BY DEF CacheInit, CacheInv, TypeOK, Labels, PackagesSame, ResultsHeld, Entries, Blank,
           Storing, ChecksumsRight, Keys
<1>2. CacheInv /\ [CacheNext]_cacheVars => CacheInv'
  <2> SUFFICES ASSUME CacheInv, [CacheNext]_cacheVars PROVE CacheInv'
      OBVIOUS
  <2>1. TypeOK'
      BY CacheTypeStep DEF CacheInv
  <2>2. CASE UNCHANGED cacheVars
      BY <2>2 DEF cacheVars, readerVars, CacheInv, TypeOK, PackagesSame, ResultsHeld,
                  Entries, EntryRight, Blank, ChecksumsRight, MyKey
  <2> QED BY <2>1, <2>2, LoadRpmStep, FindEntryStep, CalculateStep,
             StoringStep, FailingStep, MoveStep, ReplaceStep
          DEF CacheNext, ReaderStep
<1> QED BY <1>1, <1>2, PTL DEF CacheSpec

\* No createrepo_c, whatever the others do to the directory of checksums,
\* gives a package the checksum of another one, or a part of one, unless a
\* write under that very name was cut short or the package replaced while it
\* was read (get_checksum).
THEOREM CachedChecksumsRight == CacheSpec => []ChecksumsRight
<1>1. CacheInv => ChecksumsRight
    BY DEF CacheInv
<1> QED BY <1>1, CacheInvariance, PTL

\* A right entry is never lost or damaged by a reader that tested for it
\* before it was there (get_checksum).
THEOREM RightEntriesStay == CacheSpec => EntriesStay
<1>1. CacheInv' /\ [CacheNext]_cacheVars
         => [\A k \in DOMAIN cache :
                EntryRight(k) /\ k \notin spoiled' => EntryRight(k)']_cacheVars
  <2> SUFFICES ASSUME CacheInv', [CacheNext]_cacheVars, NEW k \in DOMAIN cache,
                      k \notin spoiled'
               PROVE  EntryRight(k)'
      OBVIOUS
  <2>1. DOMAIN cache \subseteq DOMAIN cache'
      BY ZenonT(30) DEF CacheNext, ReaderStep, LoadRpm, FindEntry, Calculate,
             CalculateFails, TestEntry, MakeTemp, MakeTempFails, Write,
             WriteFails, Move, Put, MoveFails,
             KillReader, Replace, cacheVars
  <2> QED BY <2>1 DEF CacheInv, Entries
<1> QED BY <1>1, CacheInvariance, PTL DEF CacheSpec, EntriesStay

HIDE CacheAssumption

-----------------------------------------------------------------------------
(***************************************************************************)
(* The publication. What any number of createrepo_c processes, killed or   *)
(* not, promise about the output directory they share, as long as no       *)
(* signal arrives after the new metadata are in place (LateSignals).       *)
(***************************************************************************)

Places == {"start", "relock", "mktmp", "locked", "generate", "filled",
           "sealed", "moved", "published", "unlock", "unset", "exit", "dead"}

PublishTypeOK ==
    /\ lockDir \in Dirs /\ repodata \in Dirs
    /\ tmpDir \in [Procs -> Dirs] /\ oldDir \in [Procs -> Dirs]
    /\ ppc \in [Procs -> Places]
    /\ handler \in [Procs -> BOOLEAN] /\ ownTmp \in [Procs -> BOOLEAN]
    /\ cleanup \in [Procs -> {"no", "files", "dir", "tmp"}]
    /\ end \in [Procs -> {"none", "refused", "no handler", "exit", "killed"}]
    /\ published \in BOOLEAN /\ interrupted \in BOOLEAN

\* .repodata/ is there and p is the one that created it.
Owns(p) == lockDir # Absent /\ lockOwner = p

\* p did not create .repodata/, or it is there no more.
LockGone(p) == lockOwner = p => lockDir = Absent

\* Who has the lock: the processes that work, those that still have to remove
\* it, and those whose exit handler has yet to do so ...
HasLock(p) ==
    \/ Holds(p)
    \/ ppc[p] \in {"published", "unlock"} /\ ownTmp[p]
    \/ cleanup[p] = "files" /\ handler[p]
    \/ cleanup[p] = "dir"

\* ... and who has it no more.
HasNone(p) ==
    \/ ppc[p] \in {"start", "relock"}
    \/ ppc[p] \in {"published", "unlock"} /\ ~ownTmp[p]
    \/ At(p, "unset")
    \/ cleanup[p] = "files" /\ ~handler[p]
    \/ cleanup[p] = "tmp"
    \/ At(p, "dead") /\ end[p] \notin {"killed", "no handler"}

LockRight(p) ==
    /\ HasLock(p) => Owns(p)
    /\ HasNone(p) => LockGone(p)
    /\ ppc[p] \in {"start", "relock"} => lockOwner # p
    /\ cleanup[p] = "dir" => lockDir = "empty"

\* The exit handlers run from exit() to the end of the process, and they have
\* the paths to clean up while the metadata are made.
ExitRight(p) ==
    /\ cleanup[p] # "no" <=> At(p, "exit")
    /\ ppc[p] \in {"generate", "filled", "sealed", "moved"} => handler[p]

\* What of the metadata is in the directory they are generated in.
WorkRight(p) ==
    /\ ppc[p] \in {"start", "relock", "mktmp"} => ~ownTmp[p]
    /\ ppc[p] \in {"locked", "generate"} /\ ownTmp[p] => tmpDir[p] # Absent
    /\ At(p, "filled") => WorkDir(p) = "some"
    /\ ppc[p] \in {"sealed", "moved"} => WorkDir(p) = "all"

\* A process has no old metadata before it moves them away ...
OldRight(p) ==
    ppc[p] \in {"start", "relock", "mktmp", "locked", "generate", "filled",
                "sealed"}
        => oldDir[p] = Absent

\* ... and, while repodata/ is not complete, somebody has them who is not
\* about to remove them.
OldKept ==
    published /\ repodata # "all" =>
        \E p \in Procs : oldDir[p] = "all" /\ ~At(p, "published")

Right(p) == LockRight(p) /\ ExitRight(p) /\ WorkRight(p) /\ OldRight(p)

PublishInv ==
    PublishTypeOK /\ (\A p \in Procs : Right(p)) /\ OldKept /\ RepoKept

-----------------------------------------------------------------------------
USE RepoPublishAssumption

\* The steps of one process.
Step(p) == PublishMain(p) \/ ExitHandler(p) \/ Environment(p)

\* What a step of p leaves alone.
OtherProcs(p) ==
    \A q \in Procs \ {p} :
        /\ ppc'[q] = ppc[q] /\ handler'[q] = handler[q]
        /\ ownTmp'[q] = ownTmp[q] /\ cleanup'[q] = cleanup[q]
        /\ end'[q] = end[q]
        /\ tmpDir'[q] = tmpDir[q] /\ oldDir'[q] = oldDir[q]

\* What a step of p does to the lock: nothing, or p has it, or it takes one
\* that nobody has, or removes one that nobody uses.
LockStep(p) ==
    \/ lockDir' = lockDir /\ lockOwner' = lockOwner
    \/ Owns(p) /\ lockOwner' = lockOwner
    \/ lockDir = Absent /\ lockOwner' = p
    \/ /\ \A q \in Procs \ {p} : ppc[q] \in {"start", "dead"}
       /\ lockDir' = Absent /\ lockOwner' = lockOwner

\* The other processes keep what they have.
LEMMA OtherProcsRight ==
    ASSUME PublishInv, NEW p \in Procs, OtherProcs(p), LockStep(p),
           NEW q \in Procs \ {p}
    PROVE  Right(q)'
<1> USE DEF OtherProcs
<1>1. Right(q)
    BY DEF PublishInv
<1>2. /\ HasLock(q)' = HasLock(q) /\ HasNone(q)' = HasNone(q)
      /\ Holds(q)' = Holds(q)
    BY DEF HasLock, HasNone, Holds, At
<1>3. HasLock(q) => Owns(q)' /\ lockDir' = lockDir
    BY <1>1 DEF LockStep, Right, LockRight, ExitRight, Owns, HasLock, Holds, At
<1>4. LockRight(q)'
  <2>1. HasNone(q) => LockGone(q)'
      BY <1>1 DEF LockStep, Right, LockRight, LockGone, Owns
  <2>2. ppc[q] \in {"start", "relock"} => lockOwner' # q
      BY <1>1 DEF LockStep, Right, LockRight
  <2>3. cleanup[q] = "dir" => lockDir' = "empty"
      BY <1>1, <1>3 DEF Right, LockRight, HasLock
  <2> QED BY <1>2, <1>3, <2>1, <2>2, <2>3 DEF LockRight
<1>5. ExitRight(q)' /\ OldRight(q)'
    BY <1>1 DEF Right, ExitRight, OldRight, At
<1>6. WorkRight(q)'
  <2>1. Holds(q) => WorkDir(q)' = WorkDir(q)
      BY <1>3 DEF WorkDir, HasLock
  <2> QED BY <1>1, <2>1 DEF Right, WorkRight, Holds, At
<1> QED BY <1>4, <1>5, <1>6 DEF Right

LEMMA DirsTyped ==
    {"absent", "empty", "some", "repomd", "all"} \subseteq Dirs
BY DEF Dirs, Absent, Contents

LEMMA PublishTypeStep ==
    PublishTypeOK /\ [PublishNext]_publishVars => PublishTypeOK'
<1> SUFFICES ASSUME PublishTypeOK, [PublishNext]_publishVars PROVE PublishTypeOK'
    OBVIOUS
<1> USE DirsTyped DEF Absent, Places, Dies, GoTo, hist, dirVars, PublishTypeOK
<1>1. ASSUME NEW p \in Procs, CreateLock(p) PROVE PublishTypeOK'
    BY <1>1 DEF CreateLock
<1>2. ASSUME NEW p \in Procs, LockBusy(p) PROVE PublishTypeOK'
    BY <1>2 DEF LockBusy, Refused
<1>3. ASSUME NEW p \in Procs, RemoveLock(p) PROVE PublishTypeOK'
    BY <1>3 DEF RemoveLock
<1>4. ASSUME NEW p \in Procs, Relock(p) PROVE PublishTypeOK'
    BY <1>4 DEF Relock
<1>5. ASSUME NEW p \in Procs, MakeTmp(p) PROVE PublishTypeOK'
    BY <1>5 DEF MakeTmp
<1>6. ASSUME NEW p \in Procs, MakeTmpFails(p) PROVE PublishTypeOK'
    BY <1>6 DEF MakeTmpFails
<1>7. ASSUME NEW p \in Procs, SetHandler(p) PROVE PublishTypeOK'
    BY <1>7 DEF SetHandler
<1>8. ASSUME NEW p \in Procs, Generate(p) PROVE PublishTypeOK'
    BY <1>8 DEF Generate, SetWorkDir
<1>9. ASSUME NEW p \in Procs, GenerationFails(p) PROVE PublishTypeOK'
    BY <1>9 DEF GenerationFails, Abort, Exit
<1>10. ASSUME NEW p \in Procs, Unchanged(p) PROVE PublishTypeOK'
    BY <1>10 DEF Unchanged, SetWorkDir
<1>11. ASSUME NEW p \in Procs, WriteRepomd(p) PROVE PublishTypeOK'
    BY ZenonT(30), <1>11 DEF WriteRepomd, SetWorkDir
<1>12. ASSUME NEW p \in Procs, MoveOld(p) PROVE PublishTypeOK'
    BY <1>12 DEF MoveOld, SaveOld
<1>13. ASSUME NEW p \in Procs, MoveNew(p) PROVE PublishTypeOK'
    BY <1>13 DEF MoveNew, SetWorkDir, WorkDir
<1>14. ASSUME NEW p \in Procs, MoveNewFails(p) PROVE PublishTypeOK'
    BY <1>14 DEF MoveNewFails, Exit
<1>15. ASSUME NEW p \in Procs, RemoveOld(p) PROVE PublishTypeOK'
    BY <1>15 DEF RemoveOld
<1>16. ASSUME NEW p \in Procs, Unlock(p) PROVE PublishTypeOK'
    BY <1>16 DEF Unlock
<1>17. ASSUME NEW p \in Procs, Unset(p) PROVE PublishTypeOK'
    BY <1>17 DEF Unset, Exit
<1>18. ASSUME NEW p \in Procs, CleanupFiles(p) PROVE PublishTypeOK'
    BY <1>18 DEF CleanupFiles
<1>19. ASSUME NEW p \in Procs, CleanupDir(p) PROVE PublishTypeOK'
    BY <1>19 DEF CleanupDir
<1>20. ASSUME NEW p \in Procs, CleanupTmp(p) PROVE PublishTypeOK'
    BY <1>20 DEF CleanupTmp
<1>21. ASSUME NEW p \in Procs, Signal(p) PROVE PublishTypeOK'
    BY <1>21 DEF Signal, Exit
<1>22. ASSUME NEW p \in Procs, Kill(p) PROVE PublishTypeOK'
    BY <1>22 DEF Kill
<1>23. CASE UNCHANGED publishVars
    BY <1>23 DEF publishVars
<1> HIDE DEF PublishTypeOK
<1> QED BY <1>1, <1>2, <1>3, <1>4, <1>5, <1>6, <1>7, <1>8, <1>9,
           <1>10, <1>11, <1>12, <1>13, <1>14, <1>15, <1>16, <1>17, <1>18,
           <1>19, <1>20, <1>21, <1>22, <1>23
        DEF PublishNext, PublishMain, ExitHandler, Environment, AllDead

LEMMA OtherProcsStep ==
    ASSUME PublishTypeOK, NEW p \in Procs, Step(p)
    PROVE  OtherProcs(p)
<1> USE DEF PublishTypeOK, OtherProcs, Dies, GoTo, hist, dirVars
<1>1. CASE CreateLock(p) \/ LockBusy(p) \/ RemoveLock(p) \/ Relock(p)
    BY <1>1 DEF CreateLock, LockBusy, Refused, RemoveLock, Relock
<1>2. CASE MakeTmp(p) \/ MakeTmpFails(p) \/ SetHandler(p)
    BY <1>2 DEF MakeTmp, MakeTmpFails, SetHandler
<1>3. CASE Generate(p) \/ Unchanged(p) \/ WriteRepomd(p) \/ MoveNew(p)
    BY <1>3 DEF Generate, Unchanged, WriteRepomd, MoveNew, SetWorkDir
<1>4. CASE GenerationFails(p) \/ MoveNewFails(p) \/ Signal(p) \/ Unset(p)
    BY <1>4 DEF GenerationFails, Abort, MoveNewFails, Signal, Unset, Exit
<1>5. CASE MoveOld(p) \/ RemoveOld(p) \/ Unlock(p)
    BY <1>5 DEF MoveOld, SaveOld, RemoveOld, Unlock
<1>6. CASE CleanupFiles(p) \/ CleanupDir(p)
    BY <1>6 DEF CleanupFiles, CleanupDir
<1>7. CASE CleanupTmp(p) \/ Kill(p)
    BY ZenonT(30), <1>7 DEF CleanupTmp, Kill
<1> QED BY <1>1, <1>2, <1>3, <1>4, <1>5, <1>6, <1>7
        DEF Step, ExitHandler, PublishMain, Environment

-----------------------------------------------------------------------------
\* What each step does to the lock and to what its own process has.
LEMMA TakeStep ==
    ASSUME PublishTypeOK, NEW p \in Procs, Right(p), PublishTypeOK',
           CreateLock(p) \/ LockBusy(p) \/ RemoveLock(p) \/ Relock(p)
    PROVE  LockStep(p) /\ Right(p)'
<1> USE DEF Right, LockRight, HasLock, HasNone, Holds, Owns, LockGone, At, GoTo,
            Dies, LockStep, PublishTypeOK, Absent, hist
<1>1. CASE CreateLock(p)
    BY <1>1 DEF CreateLock, ExitRight, WorkRight, OldRight, WorkDir
<1>2. CASE LockBusy(p)
    BY <1>2 DEF LockBusy, Refused, ExitRight, WorkRight, OldRight, WorkDir
<1>3. CASE RemoveLock(p)
    BY <1>3 DEF RemoveLock, ExitRight, WorkRight, OldRight, WorkDir
<1>4. CASE Relock(p) /\ lockDir = Absent
    BY ZenonT(30), <1>4 DEF Relock, ExitRight, WorkRight, OldRight, WorkDir
<1>5. CASE Relock(p) /\ lockDir # Absent
  <2>1. /\ ppc[p] = "relock" /\ ppc'[p] = "dead" /\ lockOwner # p
        /\ UNCHANGED <<lockDir, lockOwner, handler, ownTmp, cleanup>>
      BY <1>5 DEF Relock
  <2> QED BY <2>1 DEF ExitRight, WorkRight, OldRight, WorkDir
<1> QED BY <1>1, <1>2, <1>3, <1>4, <1>5

LEMMA PrepareStep ==
    ASSUME PublishTypeOK, NEW p \in Procs, Right(p), PublishTypeOK',
           MakeTmp(p) \/ MakeTmpFails(p) \/ SetHandler(p)
    PROVE  LockStep(p) /\ Right(p)'
<1> USE DEF Right, LockRight, HasLock, HasNone, Holds, Owns, LockGone, At, GoTo,
            Dies, LockStep, PublishTypeOK, Absent, hist, dirVars
<1>1. CASE MakeTmp(p)
    BY <1>1 DEF MakeTmp, ExitRight, WorkRight, OldRight, WorkDir
<1>2. CASE MakeTmpFails(p)
    BY <1>2 DEF MakeTmpFails, ExitRight, WorkRight, OldRight, WorkDir
<1>3. CASE SetHandler(p)
    BY <1>3 DEF SetHandler, ExitRight, WorkRight, OldRight, WorkDir
<1> QED BY <1>1, <1>2, <1>3

LEMMA WorkStep ==
    ASSUME PublishTypeOK, NEW p \in Procs, Right(p), PublishTypeOK',
           Generate(p) \/ Unchanged(p) \/ WriteRepomd(p)
    PROVE  LockStep(p) /\ Right(p)'
<1> USE DEF Right, LockRight, HasLock, HasNone, Holds, Owns, LockGone, At, GoTo,
            LockStep, PublishTypeOK, Absent, hist, SetWorkDir
<1>1. CASE Generate(p)
    BY <1>1 DEF Generate, ExitRight, WorkRight, OldRight, WorkDir
<1>2. CASE Unchanged(p)
    BY <1>2 DEF Unchanged, ExitRight, WorkRight, OldRight, WorkDir
<1>3. CASE WriteRepomd(p)
    BY <1>3 DEF WriteRepomd, ExitRight, WorkRight, OldRight, WorkDir
<1> QED BY <1>1, <1>2, <1>3

LEMMA PublishStep ==
    ASSUME PublishTypeOK, NEW p \in Procs, Right(p), PublishTypeOK',
           MoveOld(p) \/ MoveNew(p) \/ RemoveOld(p) \/ Unlock(p)
    PROVE  LockStep(p) /\ Right(p)'
<1> USE DEF Right, LockRight, HasLock, HasNone, Holds, Owns, LockGone, At, GoTo,
            LockStep, PublishTypeOK, Absent, hist
<1>1. CASE MoveOld(p)
    BY <1>1 DEF MoveOld, SaveOld, ExitRight, WorkRight, OldRight, WorkDir
<1>2. CASE MoveNew(p)
    BY <1>2 DEF MoveNew, SetWorkDir, ExitRight, WorkRight, OldRight, WorkDir
<1>3. CASE RemoveOld(p)
    BY <1>3 DEF RemoveOld, ExitRight, WorkRight, OldRight, WorkDir
<1>4. CASE Unlock(p)
    BY <1>4 DEF Unlock, ExitRight, WorkRight, OldRight, WorkDir
<1> QED BY <1>1, <1>2, <1>3, <1>4

LEMMA ExitStep ==
    ASSUME ~LateSignals, PublishTypeOK, NEW p \in Procs, Right(p), PublishTypeOK',
           \/ GenerationFails(p) \/ MoveNewFails(p) \/ Signal(p) \/ Unset(p)
           \/ ExitHandler(p) \/ Kill(p)
    PROVE  LockStep(p) /\ Right(p)'
<1> USE DEF Right, LockRight, HasLock, HasNone, Holds, Owns, LockGone, At, GoTo,
            Dies, Exit, LockStep, PublishTypeOK, Absent, hist, dirVars
<1>1. CASE GenerationFails(p) \/ MoveNewFails(p) \/ Signal(p)
    BY ZenonT(30), <1>1 DEF GenerationFails, Abort, MoveNewFails, Signal, Unblocked,
                ExitRight, WorkRight, OldRight
<1>2. CASE Unset(p)
    BY <1>2 DEF Unset, ExitRight, WorkRight, OldRight
<1>3. CASE CleanupFiles(p)
    BY <1>3 DEF CleanupFiles, ExitRight, WorkRight, OldRight
<1>4. CASE CleanupDir(p)
    BY <1>4 DEF CleanupDir, ExitRight, WorkRight, OldRight
<1>5. CASE CleanupTmp(p)
    BY <1>5 DEF CleanupTmp, ExitRight, WorkRight, OldRight
<1>6. CASE Kill(p)
    BY <1>6 DEF Kill, ExitRight, WorkRight, OldRight
<1> QED BY <1>1, <1>2, <1>3, <1>4, <1>5, <1>6 DEF ExitHandler

LEMMA StepRight ==
    ASSUME ~LateSignals, PublishInv, PublishTypeOK', NEW p \in Procs, Step(p)
    PROVE  \A q \in Procs : Right(q)'
<1>1. PublishTypeOK /\ Right(p)
    BY DEF PublishInv
<1>2. LockStep(p) /\ Right(p)'
    BY <1>1, TakeStep, PrepareStep, WorkStep, PublishStep, ExitStep
    DEF Step, PublishMain, Environment
<1>3. OtherProcs(p)
    BY <1>1, OtherProcsStep
<1> QED BY <1>2, <1>3, OtherProcsRight

-----------------------------------------------------------------------------
\* The metadata that are there to be seen, and those that are kept.
LEMMA DataStep ==
    ASSUME PublishInv, PublishTypeOK', NEW p \in Procs, Step(p)
    PROVE  OldKept' /\ RepoKept'
<1> USE DEF At, GoTo, Dies, Exit, hist, dirVars, PublishTypeOK, Absent
<1>0. PublishTypeOK /\ Right(p) /\ OldKept /\ RepoKept
    BY DEF PublishInv
<1>1. CASE MoveOld(p)
  <2>1. /\ oldDir' = [oldDir EXCEPT ![p] = repodata] /\ repodata' = Absent
        /\ ppc' = [ppc EXCEPT ![p] = "moved"] /\ oldDir[p] = Absent
        /\ published' = published
      BY <1>0, <1>1 DEF MoveOld, SaveOld, Right, OldRight
  <2>2. OldKept'
      BY <1>0, <2>1 DEF OldKept
  <2>3. RepoKept'
      BY <2>1 DEF RepoKept, RepoComplete, RepoAvailable
  <2> QED BY <2>2, <2>3
<1>2. CASE MoveNew(p)
  <2>1. repodata' = "all"
      BY <1>0, <1>2 DEF MoveNew, Right, WorkRight
  <2> QED BY <2>1 DEF OldKept, RepoKept, RepoComplete, RepoAvailable
<1>3. CASE MoveNewFails(p)
  <2>1. /\ ppc' = [ppc EXCEPT ![p] = "exit"] /\ interrupted' = TRUE
        /\ UNCHANGED <<repodata, oldDir, published>>
      BY <1>3 DEF MoveNewFails
  <2> QED BY <1>0, <2>1 DEF OldKept, RepoKept, RepoComplete, RepoAvailable
<1>4. CASE RemoveOld(p)
  <2>1. /\ oldDir' = [oldDir EXCEPT ![p] = Absent] /\ ppc[p] = "published"
        /\ ppc' = [ppc EXCEPT ![p] = "unlock"]
        /\ UNCHANGED <<repodata, published, interrupted>>
      BY <1>4 DEF RemoveOld
  <2> QED BY <1>0, <2>1 DEF OldKept, RepoKept, RepoComplete, RepoAvailable
<1>5. CASE Kill(p)
  <2>1. /\ ppc' = [ppc EXCEPT ![p] = "dead"]
        /\ interrupted' = (interrupted \/ ppc[p] = "moved")
        /\ UNCHANGED <<repodata, oldDir, published>>
      BY <1>5 DEF Kill
  <2> QED BY <1>0, <2>1 DEF OldKept, RepoKept, RepoComplete, RepoAvailable
<1>6. ASSUME /\ UNCHANGED <<repodata, oldDir, published, interrupted>>
             /\ ppc[p] # "moved"
             /\ ppc'[p] # "published"
             /\ OtherProcs(p)
      PROVE  OldKept' /\ RepoKept'
    BY <1>0, <1>6 DEF OldKept, RepoKept, RepoComplete, RepoAvailable, OtherProcs
<1>7. OtherProcs(p)
    BY <1>0, OtherProcsStep
<1>8. CASE CreateLock(p) \/ LockBusy(p) \/ RemoveLock(p) \/ Relock(p)
    BY <1>6, <1>7, <1>8 DEF CreateLock, LockBusy, Refused, RemoveLock, Relock
<1>9. CASE MakeTmp(p) \/ MakeTmpFails(p) \/ SetHandler(p)
    BY <1>6, <1>7, <1>9 DEF MakeTmp, MakeTmpFails, SetHandler
<1>10. CASE Generate(p) \/ Unchanged(p) \/ WriteRepomd(p)
    BY <1>6, <1>7, <1>10 DEF Generate, Unchanged, WriteRepomd, SetWorkDir
<1>11. CASE GenerationFails(p) \/ Signal(p)
    BY <1>6, <1>7, <1>11 DEF GenerationFails, Abort, Signal, Unblocked
<1>12. CASE Unlock(p) \/ Unset(p)
    BY <1>6, <1>7, <1>12 DEF Unlock, Unset
<1>13. CASE CleanupFiles(p) \/ CleanupDir(p) \/ CleanupTmp(p)
  <2>1. ppc[p] = "exit"
      BY <1>0, <1>13 DEF CleanupFiles, CleanupDir, CleanupTmp, Right, ExitRight
  <2> QED BY <2>1, <1>6, <1>7, <1>13 DEF CleanupFiles, CleanupDir, CleanupTmp
<1> QED BY <1>1, <1>2, <1>3, <1>4, <1>5, <1>8, <1>9, <1>10, <1>11, <1>12,
           <1>13
        DEF Step, PublishMain, ExitHandler, Environment

-----------------------------------------------------------------------------
\* The invariant holds whatever the processes do, as long as no signal arrives
\* after the new metadata are in place.
THEOREM PublishInvariance ==
    ASSUME ~LateSignals
    PROVE  PublishSpec => []PublishInv
<1>1. PublishInit => PublishInv
  <2> SUFFICES ASSUME PublishInit PROVE PublishInv
      OBVIOUS
  <2>1. PublishTypeOK
      BY DirsTyped DEF PublishInit, PublishTypeOK, Places, Absent
  <2>2. \A p \in Procs : Right(p)
      BY DEF PublishInit, Right, LockRight, HasLock, HasNone, Holds, LockGone, At,
             ExitRight, WorkRight, OldRight, Absent
  <2>3. published => repodata = "all"
      BY Zenon DEF PublishInit
  <2>4. OldKept /\ RepoKept
      BY <2>3 DEF PublishInit, OldKept, RepoKept, RepoComplete, RepoAvailable,
                  Absent
  <2> QED BY <2>1, <2>2, <2>4 DEF PublishInv
<1>2. PublishInv /\ [PublishNext]_publishVars => PublishInv'
  <2> SUFFICES ASSUME PublishInv, [PublishNext]_publishVars PROVE PublishInv'
      OBVIOUS
  <2>1. PublishTypeOK'
      BY PublishTypeStep DEF PublishInv
  <2>2. ASSUME NEW p \in Procs, Step(p) PROVE PublishInv'
      BY <2>1, <2>2, StepRight, DataStep DEF PublishInv
  <2>3. CASE UNCHANGED publishVars
    <3>1. \A p \in Procs : Right(p)'
        BY <2>3 DEF PublishInv, publishVars, dirVars, hist, Right, LockRight, HasLock,
                    HasNone, Holds, LockGone, Owns, At, ExitRight, WorkRight,
                    WorkDir, OldRight
    <3>2. OldKept' /\ RepoKept'
        BY <2>3 DEF PublishInv, publishVars, dirVars, hist, OldKept, RepoKept,
                    RepoComplete, RepoAvailable, At
    <3> QED BY <2>1, <3>1, <3>2 DEF PublishInv
  <2> QED BY <2>2, <2>3 DEF PublishNext, AllDead, Step
<1> QED BY <1>1, <1>2, PTL DEF PublishSpec

\* .repodata/ is a lock: a process that works in it, or under its protection,
\* is the one that created it, so no two generate metadata at the same time.
THEOREM PublishExclusion ==
    ASSUME ~LateSignals
    PROVE  PublishSpec => []LockExclusion
<1>1. PublishInv => LockExclusion
    BY DEF PublishInv, Right, LockRight, HasLock, Owns, LockExclusion
<1> QED BY <1>1, PublishInvariance, PTL

\* A client never finds half-written metadata, and none at all only while the
\* two renames are under way or after one of them was not to be.
THEOREM PublishKeepsRepo ==
    ASSUME ~LateSignals
    PROVE  PublishSpec => []RepoKept
<1>1. PublishInv => RepoKept
    BY DEF PublishInv
<1> QED BY <1>1, PublishInvariance, PTL

\* Whoever is killed and whatever fails, complete metadata stay on the disk.
THEOREM PublishKeepsData ==
    ASSUME ~LateSignals
    PROVE  PublishSpec => []DataKept
<1>1. PublishInv => DataKept
    BY DEF PublishInv, OldKept, DataKept
<1> QED BY <1>1, PublishInvariance, PTL

\* A process that ends in any other way than by being killed, or by failing
\* before its exit handler is set, leaves no lock of its own behind.
THEOREM PublishUnlocks ==
    ASSUME ~LateSignals
    PROVE  PublishSpec => []NoStaleLock
<1>1. PublishInv => NoStaleLock
    BY DEF PublishInv, Right, LockRight, HasNone, LockGone, NoStaleLock, PublishTypeOK
<1> QED BY <1>1, PublishInvariance, PTL

HIDE RepoPublishAssumption

-----------------------------------------------------------------------------
(***************************************************************************)
(* The retention. What leaves an old repodata/, for any command lines, any *)
(* number of runs and any files.                                           *)
(***************************************************************************)

\* Every file is of a run that there was, or of none.
FilesTyped ==
    /\ run \in Nat /\ clock \in Nat
    /\ IsFiniteSet(DOMAIN old)
    /\ \A n \in DOMAIN old : old[n].run \in 0 .. run /\ old[n].mtime \in Nat

\* As many files of its kind stay as were asked for when one goes, and none of
\* them is older.
LEMMA ClassicLeaves ==
    ASSUME NEW D, IsFiniteSet(D), NEW mtime, \A n \in D : mtime[n] \in Nat,
           NEW val \in Int, val >= -1,
           NEW X \in ExcludelistClassic(D, mtime, val), NEW n \in X
    PROVE  /\ n \in D /\ n.base \in MainBases /\ n.sfx # "" /\ val \in Nat
           /\ IsFiniteSet(OfBase(D \ X, n.base))
           /\ Cardinality(OfBase(D \ X, n.base)) = val
           /\ \A m \in OfBase(D \ X, n.base) : mtime[m] >= mtime[n]
<1> DEFINE b == n.base
           List == OfBase(D, b)
           Out == OfBase(X, b)
<1>1. val # -1
  BY DEF ExcludelistClassic
<1>2. /\ X \in SUBSET UNION {OfBase(D, c) : c \in MainBases}
      /\ \A c \in MainBases : OfBase(X, c) \in Oldest(OfBase(D, c), mtime, val)
  BY <1>1 DEF ExcludelistClassic
<1>3. n \in D /\ b \in MainBases /\ n.sfx # "" /\ X \subseteq D
  BY <1>2 DEF OfBase
<1>4. n \in Out
  BY <1>3 DEF OfBase
<1>5. IsFiniteSet(List) /\ IsFiniteSet(Out) /\ Out \subseteq List
  <2>1. List \in SUBSET D /\ Out \in SUBSET D /\ Out \subseteq List
    BY <1>3 DEF OfBase
  <2> QED BY <2>1, FS_Subset
<1>6. /\ Cardinality(Out) = (IF Cardinality(List) > val THEN Cardinality(List) - val ELSE 0)
      /\ \A x \in Out, y \in List \ Out : mtime[x] <= mtime[y]
  BY <1>2, <1>3 DEF Oldest
<1>7. Cardinality(Out) \in Nat /\ Cardinality(List) \in Nat /\ Cardinality(Out) # 0
  BY <1>4, <1>5, FS_CardinalityType, FS_EmptySet
<1>8. OfBase(D \ X, b) = List \ Out /\ List \cap Out = Out
  BY <1>5 DEF OfBase
<1>9. /\ IsFiniteSet(List \ Out)
      /\ Cardinality(List \ Out) = Cardinality(List) - Cardinality(Out)
  <2> HIDE DEF List, Out
  <2>1. /\ IsFiniteSet(List \ Out)
        /\ Cardinality(List \ Out) = Cardinality(List) - Cardinality(List \cap Out)
    BY <1>5, FS_Difference
  <2> QED BY <1>8, <2>1
<1>10. Cardinality(List \ Out) = val
  BY <1>6, <1>7, <1>9
<1>11. \A m \in List \ Out : mtime[m] >= mtime[n]
  <2> TAKE m \in List \ Out
  <2>1. mtime[n] <= mtime[m]
    BY <1>4, <1>6
  <2>2. mtime[n] \in Nat /\ mtime[m] \in Nat
    BY <1>3 DEF OfBase
  <2> QED BY <2>1, <2>2
<1>12. val \in Nat
  BY <1>1
<1> HIDE DEF List, Out
<1> QED
  BY <1>3, <1>8, <1>9, <1>10, <1>11, <1>12

\* What a run does to the files.
LEMMA RunIs ==
    ASSUME FilesTyped, NEW r \in Runs, Run(r)
    PROVE  /\ \E X \in Excluded(r) :
                /\ old' = Copied(r.names, X)
                /\ last' = [kind |-> r.kind, val |-> r.val, names |-> r.names, excluded |-> X]
           /\ r.kind \in {"default", "classic", "age"} /\ r.val \in Int
           /\ r.kind # "age" => r.val >= -1
           /\ IsFiniteSet(r.names)
           /\ listed' = r.names /\ run' = run + 1
<1>1. \E X \in Excluded(r) :
        /\ old' = Copied(r.names, X)
        /\ last' = [kind |-> r.kind, val |-> r.val, names |-> r.names, excluded |-> X]
  BY DEF Run
<1>2. listed' = r.names /\ run' = run + 1
  BY DEF Run
<1>3. /\ r.kind \in {"default", "classic", "age"} /\ r.val \in Int
      /\ r.kind # "age" => r.val >= -1
      /\ IsFiniteSet(r.names)
  BY RetentionAssumption
<1> QED BY <1>1, <1>2, <1>3

LEMMA CopiedIs ==
    ASSUME NEW names, NEW X, old' = Copied(names, X)
    PROVE  /\ DOMAIN old' = names \union (DOMAIN old \ X)
           /\ \A n \in names : old'[n] = [run |-> run + 1, mtime |-> clock]
           /\ \A n \in DOMAIN old \ X : n \notin names => old'[n] = old[n]
           /\ Gone \subseteq X
BY DEF Copied, Gone

\* The types, and that the table of ages is right.
LEMMA FilesTypedStep == FilesTyped /\ [RetentionNext]_retentionVars => FilesTyped'
<1> SUFFICES ASSUME FilesTyped, [RetentionNext]_retentionVars PROVE FilesTyped'
  OBVIOUS
<1>1. CASE Tick
  BY <1>1 DEF FilesTyped, Tick
<1>2. CASE Damage
  BY <1>2 DEF FilesTyped, Damage
<1>3. ASSUME NEW r \in Runs, Run(r) PROVE FilesTyped'
  <2>1. PICK X \in Excluded(r) : old' = Copied(r.names, X)
    BY <1>3, RunIs
  <2>2. run' = run + 1 /\ clock' = clock /\ IsFiniteSet(r.names)
    BY <1>3, RunIs DEF Run
  <2>3. IsFiniteSet(DOMAIN old')
    <3>1. IsFiniteSet(DOMAIN old \ X)
      BY FS_Difference DEF FilesTyped
    <3>2. DOMAIN old' = r.names \cup (DOMAIN old \ X)
      BY <2>1, CopiedIs
    <3> QED BY <2>2, <3>1, <3>2, FS_Union
  <2>4. \A n \in DOMAIN old' : old'[n].run \in 0 .. run' /\ old'[n].mtime \in Nat
    <3> SUFFICES ASSUME NEW n \in DOMAIN old' PROVE old'[n].run \in 0 .. run' /\ old'[n].mtime \in Nat
      OBVIOUS
    <3>0. /\ DOMAIN old' = r.names \union (DOMAIN old \ X)
          /\ \A m \in r.names : old'[m] = [run |-> run + 1, mtime |-> clock]
          /\ \A m \in DOMAIN old \ X : m \notin r.names => old'[m] = old[m]
      BY <2>1, CopiedIs
    <3>1. CASE n \in r.names
      BY <2>2, <3>0, <3>1 DEF FilesTyped
    <3>2. CASE n \notin r.names
      <4>1. n \in DOMAIN old /\ old'[n] = old[n]
        BY <3>0, <3>2
      <4> QED BY <2>2, <4>1 DEF FilesTyped
    <3> QED BY <3>1, <3>2
  <2> QED BY <2>2, <2>3, <2>4 DEF FilesTyped
<1>4. CASE UNCHANGED retentionVars
  BY <1>4 DEF FilesTyped, retentionVars
<1> QED BY <1>1, <1>2, <1>3, <1>4 DEF RetentionNext

LEMMA MtimesTyped == FilesTyped => \A n \in DOMAIN old : Mtimes[n] \in Nat /\ Mtimes[n] = old[n].mtime
BY DEF FilesTyped, Mtimes

\* The files of a kind that stay when one of them goes.
Staying(n) == OfBase(DOMAIN old \ last'.excluded, n.base)

LEMMA ClassicRun ==
    ASSUME FilesTyped, NEW r \in Runs, Run(r), r.kind = "classic", NEW n \in Gone
    PROVE  /\ n \in DOMAIN old /\ n.base \in MainBases /\ n.sfx # ""
           /\ last'.kind = "classic" /\ last'.val \in Nat
           /\ IsFiniteSet(Staying(n)) /\ Cardinality(Staying(n)) = last'.val
           /\ \A m \in Staying(n) : /\ m \in DOMAIN old \ Gone /\ m.base = n.base
                                    /\ m # n /\ old[m].mtime >= old[n].mtime
<1>1. PICK X \in Excluded(r) :
         /\ old' = Copied(r.names, X)
         /\ last' = [kind |-> r.kind, val |-> r.val, names |-> r.names, excluded |-> X]
  BY RunIs
<1>2. last'.kind = "classic" /\ last'.val = r.val /\ last'.excluded = X
  BY <1>1
<1>3. X \in ExcludelistClassic(DOMAIN old, Mtimes, r.val)
  BY <1>1 DEF Excluded
<1>4. n \in X /\ Gone \subseteq X
  BY <1>1, CopiedIs
<1>5. r.val \in Int /\ r.val >= -1
  BY RunIs
<1>6. IsFiniteSet(DOMAIN old) /\ \A m \in DOMAIN old : Mtimes[m] \in Nat
  BY MtimesTyped DEF FilesTyped
<1>7. /\ n \in DOMAIN old /\ n.base \in MainBases /\ n.sfx # "" /\ r.val \in Nat
      /\ IsFiniteSet(OfBase(DOMAIN old \ X, n.base))
      /\ Cardinality(OfBase(DOMAIN old \ X, n.base)) = r.val
      /\ \A m \in OfBase(DOMAIN old \ X, n.base) : Mtimes[m] >= Mtimes[n]
  BY <1>3, <1>4, <1>5, <1>6, ClassicLeaves
<1>8. Staying(n) = OfBase(DOMAIN old \ X, n.base)
  BY <1>2 DEF Staying
<1>9. ASSUME NEW m \in Staying(n)
      PROVE  /\ m \in DOMAIN old \ Gone /\ m.base = n.base
             /\ m # n /\ old[m].mtime >= old[n].mtime
  <2>1. m \in DOMAIN old /\ m \notin X /\ m.base = n.base
    BY <1>8, <1>9 DEF OfBase
  <2>2. Mtimes[m] >= Mtimes[n]
    BY <1>7, <1>8, <1>9
  <2> QED BY <1>4, <1>7, <2>1, <2>2, MtimesTyped
<1> QED BY <1>2, <1>7, <1>8, <1>9

-----------------------------------------------------------------------------
(* Only what is old goes, and as many copies stay as were asked for.       *)

\* The body of OnlyOldGoes.
OldGoes ==
    /\ \A n \in listed' : old'[n].run = run'
    /\ \A n \in Gone :
         CASE last'.kind = "default" -> n \in listed /\ last'.val = 0
           [] last'.kind = "age" -> old[n].mtime + last'.val < clock
           [] last'.kind = "classic" ->
                /\ n.base \in MainBases
                /\ Cardinality({m \in DOMAIN old \ Gone :
                       m.base = n.base /\ old[m].mtime >= old[n].mtime}) >= last'.val

LEMMA GoingStep ==
    ASSUME FilesTyped, NEW r \in Runs, Run(r)
    PROVE  OldGoes
<1>1. PICK X \in Excluded(r) :
         /\ old' = Copied(r.names, X)
         /\ last' = [kind |-> r.kind, val |-> r.val, names |-> r.names, excluded |-> X]
  BY RunIs
<1>2. last'.kind = r.kind /\ last'.val = r.val /\ r.kind \in {"default", "classic", "age"}
  BY <1>1, RunIs
<1>3. Gone \subseteq X /\ Gone \subseteq DOMAIN old
  BY <1>1, CopiedIs DEF Gone
<1>4. \A n \in listed' : old'[n].run = run'
  <2>1. \A n \in r.names : old'[n] = [run |-> run + 1, mtime |-> clock]
    BY <1>1, CopiedIs
  <2> QED BY <2>1, RunIs
<1>5. ASSUME NEW n \in Gone, r.kind = "default" PROVE n \in listed /\ r.val = 0
  <2>1. n \in X /\ X \in Excludelist(listed, ~damaged, r.val)
    BY <1>1, <1>3, <1>5 DEF Excluded
  <2> QED BY <2>1 DEF Excludelist
<1>6. ASSUME NEW n \in Gone, r.kind = "age" PROVE old[n].mtime + r.val < clock
  <2>1. n \in DOMAIN old /\ n \in X /\ X \in ExcludelistByAge(DOMAIN old, Mtimes, clock, r.val)
    BY <1>1, <1>3, <1>6 DEF Excluded
  <2>2. clock - Mtimes[n] > r.val
    BY <2>1 DEF ExcludelistByAge
  <2> QED BY <2>1, <2>2, MtimesTyped, RunIs DEF FilesTyped
<1>7. ASSUME NEW n \in Gone, r.kind = "classic"
      PROVE  /\ n.base \in MainBases
             /\ Cardinality({m \in DOMAIN old \ Gone :
                       m.base = n.base /\ old[m].mtime >= old[n].mtime}) >= r.val
  <2> DEFINE Newer == {m \in DOMAIN old \ Gone : m.base = n.base /\ old[m].mtime >= old[n].mtime}
  <2>1. /\ n.base \in MainBases /\ r.val \in Nat
        /\ Cardinality(Staying(n)) = r.val /\ Staying(n) \in SUBSET Newer
    BY <1>2, <1>7, ClassicRun
  <2>2. Newer \in SUBSET DOMAIN old /\ IsFiniteSet(DOMAIN old)
    BY DEF FilesTyped
  <2>3. IsFiniteSet(Newer)
    BY <2>2, FS_Subset
  <2>4. Cardinality(Staying(n)) <= Cardinality(Newer) /\ Cardinality(Newer) \in Nat
    BY <2>1, <2>3, FS_Subset, FS_CardinalityType
  <2> HIDE DEF Newer
  <2>5. Cardinality(Newer) >= r.val
    BY <2>1, <2>4
  <2> QED BY <2>1, <2>5 DEF Newer
<1>8. CASE r.kind = "default"
  BY <1>2, <1>4, <1>5, <1>8 DEF OldGoes
<1>9. CASE r.kind = "age"
  BY <1>2, <1>4, <1>6, <1>9 DEF OldGoes
<1>10. CASE r.kind = "classic"
  BY <1>2, <1>4, <1>7, <1>10 DEF OldGoes
<1> QED BY <1>2, <1>8, <1>9, <1>10

Copies == {r \in 0..run : Copy(r) # {}}

\* A file that goes is of a copy that as many newer ones follow as were asked
\* for: those of the files of its kind that stay.
LEMMA CopiesBehind ==
    ASSUME FilesTyped, NEW c \in Runs, Run(c), c.kind = "classic",
           \A r, s \in Copies : Single(r) /\ (r < s => Apart(r, s)),
           NEW r \in Copies, NEW n \in Copy(r), n \in Gone
    PROVE  Cardinality({s \in Copies : s >= r}) > last'.val
<1> DEFINE After == {s \in Copies : s > r}
           From == {s \in Copies : s >= r}
           of == [m \in Staying(n) |-> old[m].run]
<1>1. /\ n \in DOMAIN old /\ n.base \in MainBases /\ last'.val \in Nat
      /\ IsFiniteSet(Staying(n)) /\ Cardinality(Staying(n)) = last'.val
      /\ \A m \in Staying(n) : /\ m \in DOMAIN old \ Gone /\ m.base = n.base
                               /\ m # n /\ old[m].mtime >= old[n].mtime
  BY ClassicRun
<1>2. ASSUME NEW m \in Staying(n) PROVE m \in Copy(of[m]) /\ of[m] \in After
  <2>1. m \in DOMAIN old /\ m.base \in MainBases /\ m # n /\ m.base = n.base
    BY <1>1
  <2>2. of[m] = old[m].run /\ of[m] \in 0 .. run
    BY <2>1 DEF FilesTyped
  <2>3. m \in Copy(of[m]) /\ of[m] \in Copies
    BY <2>1, <2>2 DEF Copy, Copies
  <2>4. of[m] # r
    BY <2>1, <2>3 DEF Single
  <2>5. ~(of[m] < r)
    <3> SUFFICES ASSUME of[m] < r PROVE FALSE
      OBVIOUS
    <3>1. old[m].mtime < old[n].mtime
      BY <2>3 DEF Apart
    <3> QED BY <1>1, <2>1, <3>1 DEF FilesTyped
  <2>6. r \in Nat /\ of[m] \in Nat
    BY <2>2 DEF Copies, FilesTyped
  <2> QED BY <2>3, <2>4, <2>5, <2>6
<1>3. of \in Injection(Staying(n), After)
  <2>1. of \in [Staying(n) -> After]
    BY <1>2
  <2>2. ASSUME NEW m \in Staying(n), NEW l \in Staying(n), of[m] = of[l] PROVE m = l
    <3>1. m \in Copy(of[m]) /\ l \in Copy(of[m]) /\ of[m] \in Copies /\ m.base = l.base
      BY <1>1, <1>2, <2>2
    <3> QED BY <3>1 DEF Single
  <2> HIDE DEF of, After
  <2> QED BY <2>1, <2>2 DEF Injection, IsInjective
<1>4. IsFiniteSet(Copies)
  <2>1. IsFiniteSet(0 .. run) /\ Copies \in SUBSET (0 .. run)
    BY FS_Interval DEF Copies, FilesTyped
  <2> QED BY <2>1, FS_Subset
<1>5. IsFiniteSet(After)
  BY <1>4, FS_Subset
<1>6. From = After \cup {r} /\ r \notin After
  BY DEF Copies, FilesTyped
<1> HIDE DEF From, After, of
<1>7. Cardinality(Staying(n)) <= Cardinality(After) /\ Cardinality(After) \in Nat
  BY <1>3, <1>5, FS_Injection, FS_CardinalityType
<1>8. Cardinality(From) = Cardinality(After) + 1
  BY <1>5, <1>6, FS_AddElement
<1>9. Cardinality(From) > last'.val
  BY <1>1, <1>7, <1>8
<1> QED BY <1>9 DEF From

\* The body of CopiesStay.
Staying_ ==
    last'.kind = "classic" /\ (\A r, s \in Copies : Single(r) /\ (r < s => Apart(r, s)))
      => \A r \in Copies : Cardinality({s \in Copies : s >= r}) <= last'.val
                             => Copy(r) \subseteq DOMAIN old'

LEMMA StayingStep ==
    ASSUME FilesTyped, NEW c \in Runs, Run(c)
    PROVE  Staying_
<1> SUFFICES ASSUME last'.kind = "classic",
                    \A r, s \in Copies : Single(r) /\ (r < s => Apart(r, s)),
                    NEW r \in Copies, Cardinality({s \in Copies : s >= r}) <= last'.val,
                    NEW n \in Copy(r), n \notin DOMAIN old'
             PROVE  FALSE
  BY DEF Staying_
<1>1. c.kind = "classic"
  BY RunIs
<1>2. n \in Gone
  BY DEF Gone, Copy
<1>3. Cardinality({s \in Copies : s >= r}) > last'.val
  BY <1>1, <1>2, CopiesBehind
<1>4. last'.val \in Nat
  BY <1>1, <1>2, ClassicRun
<1>5. Cardinality({s \in Copies : s >= r}) \in Nat
  <2>1. IsFiniteSet(0 .. run) /\ {s \in Copies : s >= r} \in SUBSET (0 .. run)
    BY FS_Interval DEF Copies, FilesTyped
  <2> QED BY <2>1, FS_Subset, FS_CardinalityType
<1> QED BY <1>3, <1>4, <1>5

LEMMA OnlyRuns ==
    ASSUME FilesTyped, [RetentionNext]_retentionVars, run' # run
    PROVE  \E r \in Runs : Run(r)
BY DEF RetentionNext, retentionVars, Tick, Damage

\* The files of a repository are those of runs that there were, or older.
THEOREM RetentionTyped == RetentionSpec => []FilesTyped
<1>1. RetentionInit => FilesTyped
  <2> SUFFICES ASSUME RetentionInit PROVE FilesTyped
    OBVIOUS
  <2>1. PICK S \in SUBSET Others : old = [n \in S |-> [run |-> 0, mtime |-> 0]]
    BY DEF RetentionInit
  <2>2. IsFiniteSet(S)
    BY RetentionAssumption, FS_Subset
  <2> QED BY <2>1, <2>2 DEF RetentionInit, FilesTyped
<1> QED BY <1>1, FilesTypedStep, PTL DEF RetentionSpec

\* RetentionSound, for any command lines, files and times: a file goes only for
\* the reason the command line gives, and the newest copies stay whole.
THEOREM RetainsAsAsked == RetentionSpec => RetentionSound
<1>1. FilesTyped /\ [RetentionNext]_retentionVars => [run' # run => OldGoes]_retentionVars
  BY OnlyRuns, GoingStep
<1>2. FilesTyped /\ [RetentionNext]_retentionVars
        => [run' # run => Staying_]_retentionVars
  BY OnlyRuns, StayingStep
<1>3. RetentionSpec => [][run' # run => OldGoes]_retentionVars
  BY <1>1, RetentionTyped, PTL DEF RetentionSpec
<1>4. RetentionSpec => [][run' # run => Staying_]_retentionVars
  BY <1>2, RetentionTyped, PTL DEF RetentionSpec
<1>5. [run' # run => Staying_]_retentionVars
        => [run' # run /\ last'.kind = "classic" =>
              LET copies == {r \in 0..run : Copy(r) # {}}
              IN  (\A r, s \in copies : Single(r) /\ (r < s => Apart(r, s))) =>
                    \A r \in copies :
                      Cardinality({s \in copies : s >= r}) <= last'.val =>
                          Copy(r) \subseteq DOMAIN old']_retentionVars
  BY DEF Staying_, Copies
<1>6. RetentionSpec => CopiesStay
  BY <1>4, <1>5, PTL DEF CopiesStay
<1>7. RetentionSpec => OnlyOldGoes
  BY <1>3, PTL DEF OnlyOldGoes, OldGoes
<1> QED BY <1>6, <1>7 DEF RetentionSound
=============================================================================
