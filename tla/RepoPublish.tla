----------------------------- MODULE RepoPublish -----------------------------
(***************************************************************************)
(* How createrepo_c processes share an output directory: the directory     *)
(* .repodata/ is the lock and the place where the new metadata grow        *)
(* (cr_lock_repo), it replaces repodata/ by two renames (main), and an     *)
(* exit handler removes what an interrupted process leaves behind          *)
(* (cr_set_cleanup_handler, exit_cleanup).  Processes are killed, receive  *)
(* terminating signals and run into errors.                                *)
(***************************************************************************)
EXTENDS Naturals, FiniteSets

CONSTANTS
    Procs,          \* createrepo_c processes on the same output directory
    IgnoreLock,     \* those started with --ignore-lock
    Kills,          \* bound: how many processes are killed by SIGKILL
    LateSignals     \* may a signal arrive after the new metadata are in place,
                    \* before the exit handler is disabled?

Nobody == "nobody"

ASSUME RepoPublishAssumption ==
    /\ IsFiniteSet(Procs) /\ Nobody \notin Procs
    /\ IgnoreLock \subseteq Procs
    /\ LateSignals \in BOOLEAN
    /\ Kills \in Nat

\* A directory: absent, or what of the metadata is in it.  "all": repomd.xml
\* and the files it lists; "repomd": repomd.xml without (some of) them.
Absent   == "absent"
Contents == {"empty", "some", "repomd", "all"}
Dirs     == {Absent} \union Contents

VARIABLES
    lockDir,        \* .repodata/
    lockOwner,      \* the process that created it (of no effect)
    repodata,       \* repodata/
    tmpDir,         \* per process: .repodata.<pid>.<date>/
    oldDir,         \* per process: repodata.old.<pid>.<date>/
    ppc,             \* per process: where main() is
    handler,        \* per process: are the global paths of exit_cleanup set?
    ownTmp,         \* per process: is tmp_out_repo different from lock_dir?
    cleanup,        \* per process: where exit_cleanup is, "no" if nobody exits
    end,            \* per process: how it ended
    published,      \* has there ever been a complete repodata/?
    interrupted     \* was a process killed between the two renames, or did
                    \* the second one fail?

dirVars == <<lockDir, lockOwner, repodata, tmpDir, oldDir>>
hist    == <<end, published, interrupted>>
publishVars == <<dirVars, ppc, handler, ownTmp, cleanup, hist>>

PublishInit ==
    /\ lockDir \in {Absent, "some"}     \* left by a process that was killed
    /\ lockOwner = Nobody
    /\ repodata \in {Absent, "all"}
    /\ tmpDir = [p \in Procs |-> Absent]
    /\ oldDir = [p \in Procs |-> Absent]
    /\ ppc = [p \in Procs |-> "start"]
    /\ handler = [p \in Procs |-> FALSE]
    /\ ownTmp = [p \in Procs |-> FALSE]
    /\ cleanup = [p \in Procs |-> "no"]
    /\ end = [p \in Procs |-> "none"]
    /\ published = (repodata = "all")
    /\ interrupted = FALSE

-----------------------------------------------------------------------------
At(p, place)   == ppc[p] = place
GoTo(p, place) == ppc' = [ppc EXCEPT ![p] = place]
Dies(p, how)   == GoTo(p, "dead") /\ end' = [end EXCEPT ![p] = how]

\* exit() in the main thread: main() is over, the exit handlers run.
Exit(p) == GoTo(p, "exit") /\ cleanup' = [cleanup EXCEPT ![p] = "files"]

\* The directory the metadata are generated in (tmp_out_repo).
WorkDir(p) == IF ownTmp[p] THEN tmpDir[p] ELSE lockDir

SetWorkDir(p, d) ==
    IF ownTmp[p] THEN tmpDir' = [tmpDir EXCEPT ![p] = d] /\ UNCHANGED lockDir
                 ELSE lockDir' = d /\ UNCHANGED tmpDir

-----------------------------------------------------------------------------
(* cr_lock_repo, with the terminating signals blocked.                     *)

CreateLock(p) ==
    /\ At(p, "start")
    /\ lockDir = Absent
    /\ lockDir' = "empty" /\ lockOwner' = p
    /\ GoTo(p, "locked")
    /\ UNCHANGED <<repodata, tmpDir, oldDir, handler, ownTmp, cleanup, hist>>

\* The exit handler is there before the lock is tried.
Mutant_Refused(p) == lockDir' = Absent /\ Dies(p, "refused")
Refused(p) == UNCHANGED lockDir /\ Dies(p, "refused")

Forces(p) == p \in IgnoreLock

LockBusy(p) ==
    /\ At(p, "start")
    /\ lockDir # Absent
    /\ ~Forces(p)
    /\ Refused(p)
    /\ UNCHANGED <<lockOwner, repodata, tmpDir, oldDir, handler, ownTmp,
                   cleanup, published, interrupted>>

\* --ignore-lock removes the directory; the user is assumed to know that
\* nobody works in it ("it's his fault if something gets broken").
RemoveLock(p) ==
    /\ At(p, "start")
    /\ lockDir # Absent
    /\ Forces(p)
    /\ \A q \in Procs \ {p} : ppc[q] \in {"start", "dead"}
    /\ lockDir' = Absent
    /\ GoTo(p, "relock")
    /\ UNCHANGED <<lockOwner, repodata, tmpDir, oldDir, handler, ownTmp,
                   cleanup, hist>>

\* Another process may have created it in the meantime.
Relock(p) ==
    /\ At(p, "relock")
    /\ IF lockDir = Absent
         THEN /\ lockDir' = "empty" /\ lockOwner' = p
              /\ GoTo(p, "mktmp")
              /\ UNCHANGED end
         ELSE Dies(p, "refused") /\ UNCHANGED <<lockDir, lockOwner>>
    /\ UNCHANGED <<repodata, tmpDir, oldDir, handler, ownTmp, cleanup,
                   published, interrupted>>

MakeTmp(p) ==
    /\ At(p, "mktmp")
    /\ tmpDir' = [tmpDir EXCEPT ![p] = "empty"]
    /\ ownTmp' = [ownTmp EXCEPT ![p] = TRUE]
    /\ GoTo(p, "locked")
    /\ UNCHANGED <<lockDir, lockOwner, repodata, oldDir, handler, cleanup, hist>>

\* The second directory cannot be created: the exit handler is not set yet.
MakeTmpFails(p) ==
    /\ At(p, "mktmp")
    /\ Dies(p, "no handler")
    /\ UNCHANGED <<dirVars, handler, ownTmp, cleanup, published, interrupted>>

\* cr_set_cleanup_handler; then the signals are unblocked.
SetHandler(p) ==
    /\ At(p, "locked")
    /\ handler' = [handler EXCEPT ![p] = TRUE]
    /\ GoTo(p, "generate")
    /\ UNCHANGED <<dirVars, ownTmp, cleanup, hist>>

-----------------------------------------------------------------------------
(* main(): generation.                                                     *)

\* All the metadata files but repomd.xml.
Generate(p) ==
    /\ At(p, "generate")
    /\ WorkDir(p) # Absent
    /\ SetWorkDir(p, "some")
    /\ GoTo(p, "filled")
    /\ UNCHANGED <<lockOwner, repodata, oldDir, handler, ownTmp, cleanup, hist>>

\* An error is logged and the process goes on.
Mutant_Abort(p) == GoTo(p, "sealed") /\ UNCHANGED cleanup
\* The errors of main() end the process by exit(EXIT_FAILURE).
Abort(p) == Exit(p)

\* An I/O error; one is certain when the directory is gone.
GenerationFails(p) ==
    /\ ppc[p] \in {"generate", "filled", "sealed"}
    /\ Abort(p)
    /\ UNCHANGED <<dirVars, handler, ownTmp, hist>>

\* "New and old repodata match, not updating": the new ones are removed.
Unchanged(p) ==
    /\ At(p, "filled")
    /\ repodata = "all"
    /\ SetWorkDir(p, Absent)
    /\ GoTo(p, "unlock")
    /\ UNCHANGED <<lockOwner, repodata, oldDir, handler, ownTmp, cleanup, hist>>

\* repomd.xml is written by its path; old metadata are copied beside it.
WriteRepomd(p) ==
    /\ At(p, "filled")
    /\ WorkDir(p) # Absent
    /\ SetWorkDir(p, IF WorkDir(p) = "some" THEN "all" ELSE "repomd")
    /\ GoTo(p, "sealed")
    /\ UNCHANGED <<lockOwner, repodata, oldDir, handler, ownTmp, cleanup, hist>>

-----------------------------------------------------------------------------
(* main(): "This section should be maximally atomic".                      *)

\* The old metadata are removed rather than moved away.
Mutant_SaveOld(p) == UNCHANGED oldDir
SaveOld(p) == oldDir' = [oldDir EXCEPT ![p] = repodata]

MoveOld(p) ==
    /\ At(p, "sealed")
    /\ SaveOld(p)
    /\ repodata' = Absent
    /\ GoTo(p, "moved")
    /\ UNCHANGED <<lockDir, lockOwner, tmpDir, handler, ownTmp, cleanup, hist>>

MoveNew(p) ==
    /\ At(p, "moved")
    /\ WorkDir(p) # Absent
    /\ repodata' = WorkDir(p)
    /\ SetWorkDir(p, Absent)
    /\ published' = TRUE
    /\ GoTo(p, "published")
    /\ UNCHANGED <<lockOwner, oldDir, handler, ownTmp, cleanup, end, interrupted>>

\* The second rename fails: the first one is not undone.
MoveNewFails(p) ==
    /\ At(p, "moved")
    /\ Exit(p)
    /\ interrupted' = TRUE
    /\ UNCHANGED <<dirVars, handler, ownTmp, end, published>>

RemoveOld(p) ==
    /\ At(p, "published")
    /\ oldDir' = [oldDir EXCEPT ![p] = Absent]
    /\ GoTo(p, "unlock")
    /\ UNCHANGED <<lockDir, lockOwner, repodata, tmpDir, handler, ownTmp,
                   cleanup, hist>>

\* The rename has released the lock already, but with --ignore-lock.
Unlock(p) ==
    /\ At(p, "unlock")
    /\ lockDir' = IF ownTmp[p] THEN Absent ELSE lockDir
    /\ GoTo(p, "unset")
    /\ UNCHANGED <<lockOwner, repodata, tmpDir, oldDir, handler, ownTmp,
                   cleanup, hist>>

\* cr_unset_cleanup_handler, and exit(exit_val).
Unset(p) ==
    /\ At(p, "unset")
    /\ handler' = [handler EXCEPT ![p] = FALSE]
    /\ Exit(p)
    /\ UNCHANGED <<dirVars, ownTmp, hist>>

-----------------------------------------------------------------------------
(* Signals, the exit handler and SIGKILL.                                  *)

\* The signals are unblocked before the handler is set.
Mutant_Early_Unblocked(p) ==
    ppc[p] \in {"locked", "generate", "filled", "sealed"}
\* Where the main thread has the terminating signals unblocked.
Unblocked(p) ==
    \/ ppc[p] \in {"generate", "filled", "sealed"}
    \/ LateSignals /\ ppc[p] \in {"published", "unlock", "unset"}

\* The main thread handles a signal: sigint_catcher calls exit(1).
Signal(p) ==
    /\ Unblocked(p)
    /\ cleanup[p] = "no"
    /\ Exit(p)
    /\ UNCHANGED <<dirVars, handler, ownTmp, hist>>

\* An idle thread of a pool handles it, whatever main() blocks: sigprocmask is
\* about the calling thread.  main() goes on until the handlers have run.
SignalInPool(p) ==
    /\ handler[p] /\ ppc[p] \notin {"exit", "dead"}
    /\ cleanup[p] = "no"
    /\ cleanup' = [cleanup EXCEPT ![p] = "files"]
    /\ UNCHANGED <<dirVars, ppc, handler, ownTmp, hist>>

\* exit_cleanup, if the global paths are set: the files of .repodata/ ...
CleanupFiles(p) ==
    /\ cleanup[p] = "files"
    /\ LET found == handler[p] /\ lockDir # Absent
       IN  /\ lockDir' = IF found THEN "empty" ELSE lockDir
           /\ cleanup' = [cleanup EXCEPT ![p] = IF found THEN "dir" ELSE "tmp"]
    /\ UNCHANGED <<lockOwner, repodata, tmpDir, oldDir, ppc, handler, ownTmp, hist>>

\* ... the directory, unless it has got files again in the meantime ...
CleanupDir(p) ==
    /\ cleanup[p] = "dir"
    /\ lockDir' = IF lockDir = "empty" THEN Absent ELSE lockDir
    /\ cleanup' = [cleanup EXCEPT ![p] = "tmp"]
    /\ UNCHANGED <<lockOwner, repodata, tmpDir, oldDir, ppc, handler, ownTmp, hist>>

\* ... and the own temporary directory; the process ends.
CleanupTmp(p) ==
    /\ cleanup[p] = "tmp"
    /\ tmpDir' = IF handler[p] THEN [tmpDir EXCEPT ![p] = Absent] ELSE tmpDir
    /\ cleanup' = [cleanup EXCEPT ![p] = "no"]
    /\ Dies(p, "exit")
    /\ UNCHANGED <<lockDir, lockOwner, repodata, oldDir, handler, ownTmp,
                   published, interrupted>>

Kill(p) ==
    /\ ppc[p] \notin {"start", "dead"}
    /\ Cardinality({q \in Procs : end[q] = "killed"}) < Kills
    /\ interrupted' = (interrupted \/ At(p, "moved"))
    /\ cleanup' = [cleanup EXCEPT ![p] = "no"]
    /\ Dies(p, "killed")
    /\ UNCHANGED <<dirVars, handler, ownTmp, published>>

AllDead == (\A p \in Procs : At(p, "dead")) /\ UNCHANGED publishVars

-----------------------------------------------------------------------------
PublishMain(p) ==
    \/ CreateLock(p) \/ LockBusy(p) \/ RemoveLock(p) \/ Relock(p)
    \/ MakeTmp(p) \/ MakeTmpFails(p) \/ SetHandler(p)
    \/ Generate(p) \/ GenerationFails(p) \/ Unchanged(p) \/ WriteRepomd(p)
    \/ MoveOld(p) \/ MoveNew(p) \/ MoveNewFails(p)
    \/ RemoveOld(p) \/ Unlock(p) \/ Unset(p)

ExitHandler(p) == CleanupFiles(p) \/ CleanupDir(p) \/ CleanupTmp(p)

Environment(p) == Signal(p) \/ Kill(p)

PublishNext ==
    \/ \E p \in Procs : PublishMain(p) \/ ExitHandler(p) \/ Environment(p)
    \/ AllDead

PublishSpec == PublishInit /\ [][PublishNext]_publishVars

\* The same when signals are delivered to any thread of the process.
PoolNext == PublishNext \/ \E p \in Procs : SignalInPool(p)
PoolSpec == PublishInit /\ [][PoolNext]_publishVars

-----------------------------------------------------------------------------
(* Properties.                                                             *)

\* main() of p works, or is about to work, under the protection of the lock.
Holds(p) == ppc[p] \in {"mktmp", "locked", "generate", "filled", "sealed", "moved"}

\* .repodata/ "serves as a lock for other createrepo[_c] processes": while a
\* process works it is there and nobody else has created it, so two processes
\* never generate metadata for the same directory at the same time.
LockExclusion ==
    \A p \in Procs : Holds(p) => lockDir # Absent /\ lockOwner = p

\* Whatever is in repodata/ is complete: a client never finds a repomd.xml
\* that lists missing files, or metadata without repomd.xml.
RepoComplete == repodata \in {Absent, "all"}

\* Once there have been metadata they are only ever missing in the middle of
\* the section that has to be maximally atomic, or after an end in it that no
\* handler sees: SIGKILL, or an error of the second rename.
RepoAvailable ==
    published /\ repodata = Absent =>
        interrupted \/ \E p \in Procs : At(p, "moved")

\* Complete metadata, once there are some, are always on the disk, in
\* repodata/ or under the name the old ones are moved to.
DataKept ==
    published => \/ repodata = "all"
                 \/ \E p \in Procs : oldDir[p] = "all"

\* Only a process that is killed, or that fails before the exit handler is
\* set, leaves the lock behind.
NoStaleLock ==
    \A p \in Procs :
        lockDir # Absent /\ lockOwner = p /\ At(p, "dead")
            => end[p] \in {"killed", "no handler"}

\* Once there is a repodata/, main() never leaves it missing or half written but
\* by being killed between the two renames.
RepoKept == RepoComplete /\ RepoAvailable
=============================================================================
