----------------------------- MODULE PrestoDelta -----------------------------
(***************************************************************************)
(* The whole stage of createrepo_c --deltas: the delta rpms are generated  *)
(* (module DeltaRpms), then the directory of the drpms is read by a second *)
(* pool that builds prestodelta.xml                                        *)
(* (cr_deltarpms_generate_prestodelta_file in src/deltarpms.c), and main() *)
(* lists the file in repomd.xml.  The threads of the second pool share a   *)
(* hash table: per new package, the list of the chunks of its deltas.      *)
(*                                                                         *)
(* A drpm is identified with the file it is in, and its chunk with it.  It *)
(* is assumed that the directory of the drpms has no subdirectories, and   *)
(* that two targets differ in the part of their NEVRA a file name holds.   *)
(***************************************************************************)
EXTENDS DeltaRpms

CONSTANTS
    OldDrpms,       \* drpms left in the directory by an earlier run
    DrpmOf,         \* the file of the delta between an old package and a target
    NewNevra,       \* per drpm: the NEVRA of the package it leads to
    NoDrpm,         \* no drpm
    Zck             \* prestodelta.xml.zck is written too

Drpms == OldDrpms \union {DrpmOf[p] : p \in OldRpms \X Targets}
Keys == {NewNevra[f] : f \in Drpms}

ASSUME PrestoDeltaAssumption ==
    /\ NoDrpm \notin Drpms
    /\ DOMAIN DrpmOf = OldRpms \X Targets
    /\ DOMAIN NewNevra = Drpms
    /\ \A p, q \in OldRpms \X Targets : DrpmOf[p] = DrpmOf[q] => p[2] = q[2]
    /\ Zck \in BOOLEAN

VARIABLES
    stage,          \* "deltas", "open", "pool", "write", "listed", "given_up"
    candidates,     \* the drpms found and not taken by a thread yet
    drpm,           \* per thread: the drpm it works on, or NoDrpm
    inside,         \* the threads between g_mutex_lock and g_mutex_unlock
    list,           \* per thread: the list it has found in the table
    ht,             \* the hash table; an absent key has the empty list
    unread,         \* the drpms given up with a warning
    written,        \* the newpackage elements written: pairs <<key, chunks>>
    lost            \* the keys whose element could not be written

prestoVars == <<stage, candidates, drpm, inside, list, ht, unread, written, lost>>
vars == <<deltaVars, prestoVars>>

Init ==
    /\ InitDelta
    /\ stage = "deltas"
    /\ candidates = {}
    /\ drpm = [w \in Workers |-> NoDrpm]
    /\ inside = {}
    /\ list = [w \in Workers |-> <<>>]
    /\ ht = [k \in Keys |-> <<>>]
    /\ unread = {}
    /\ written = <<>>
    /\ lost = {}

-----------------------------------------------------------------------------
(* The calling thread.                                                     *)

\* What lies in the directory: two deltas with the same file name are one file.
OnDisk == OldDrpms \union {DrpmOf[p] : p \in made}

\* A step of this stage that fails leaves the repository without prestodelta;
\* createrepo_c only logs it.
GiveUp ==
    /\ stage' = "given_up"
    /\ UNCHANGED <<deltaVars, candidates, drpm, inside, list, ht, unread,
                   written, lost>>

\* The output files are opened once the deltas are made.
OpenFiles ==
    /\ stage = "deltas" /\ mainPc = "deltas_done"
    /\ stage' = "open"
    /\ UNCHANGED <<deltaVars, candidates, drpm, inside, list, ht, unread,
                   written, lost>>

OpenFails == stage = "deltas" /\ mainPc = "deltas_done" /\ GiveUp

\* The directory for the drpms cannot be made, or the old packages not scanned.
PrepareFails == stage = "deltas" /\ mainPc = "scan_old" /\ GiveUp

\* walk_drpmsdir, and the tasks are pushed.
Walk ==
    /\ stage = "open"
    /\ candidates' = OnDisk
    /\ stage' = "pool"
    /\ UNCHANGED <<deltaVars, drpm, inside, list, ht, unread, written, lost>>

\* The directory cannot be opened: walk_drpmsdir still returns TRUE, and the
\* error it has set is taken for one of g_thread_pool_new.
WalkFails == stage = "open" /\ GiveUp

JoinPool ==
    /\ stage = "pool"
    /\ candidates = {} /\ \A w \in Workers : drpm[w] = NoDrpm
    /\ stage' = "write"
    /\ UNCHANGED <<deltaVars, candidates, drpm, inside, list, ht, unread,
                   written, lost>>

Pending == {k \in Keys : ht[k] # <<>>}
             \ ({written[i][1] : i \in DOMAIN written} \union lost)

\* gen_newpackage_xml_chunk and cr_xmlfile_add_chunk, for one key of the table.
WriteNewPackage(k) ==
    /\ stage = "write"
    /\ k \in Pending
    /\ written' = Append(written, <<k, ht[k]>>)
    /\ UNCHANGED <<deltaVars, stage, candidates, drpm, inside, list, ht, unread,
                   lost>>

\* The error of cr_xmlfile_add_chunk is discarded.
WriteFails(k) ==
    /\ stage = "write"
    /\ k \in Pending
    /\ lost' = lost \union {k}
    /\ UNCHANGED <<deltaVars, stage, candidates, drpm, inside, list, ht, unread,
                   written>>

\* The chunk of the zck file cannot be ended: the rest is not written.
EndChunkFails ==
    /\ stage = "write" /\ Zck
    /\ written # <<>> \/ lost # {}
    /\ GiveUp

\* main() closes the file and makes the records of repomd.xml.
ListFile ==
    /\ stage = "write"
    /\ Pending = {}
    /\ stage' = "listed"
    /\ UNCHANGED <<deltaVars, candidates, drpm, inside, list, ht, unread,
                   written, lost>>

-----------------------------------------------------------------------------
(* cr_prestodelta_thread, in a thread of the pool.                         *)

TakeDrpm(w, f) ==
    /\ stage = "pool"
    /\ drpm[w] = NoDrpm
    /\ f \in candidates
    /\ drpm' = [drpm EXCEPT ![w] = f]
    /\ candidates' = candidates \ {f}
    /\ UNCHANGED <<deltaVars, stage, inside, list, ht, unread, written, lost>>

\* The drpm cannot be read, stat'ed, summed or turned into XML.
ReadFails(w) ==
    /\ drpm[w] # NoDrpm /\ w \notin inside
    /\ unread' = unread \union {drpm[w]}
    /\ drpm' = [drpm EXCEPT ![w] = NoDrpm]
    /\ UNCHANGED <<deltaVars, stage, candidates, inside, list, ht, written, lost>>

\* The table is read without its mutex.
Mutant_MutexFree == TRUE
MutexFree == inside = {}

\* g_mutex_lock and g_hash_table_lookup_extended.
LookUp(w) ==
    /\ drpm[w] # NoDrpm /\ w \notin inside
    /\ MutexFree
    /\ inside' = inside \union {w}
    /\ list' = [list EXCEPT ![w] = ht[NewNevra[drpm[w]]]]
    /\ UNCHANGED <<deltaVars, stage, candidates, drpm, ht, unread, written, lost>>

\* g_slist_append, g_hash_table_insert and g_mutex_unlock.
Store(w) ==
    /\ w \in inside
    /\ ht' = [ht EXCEPT ![NewNevra[drpm[w]]] = Append(list[w], drpm[w])]
    /\ list' = [list EXCEPT ![w] = <<>>]
    /\ drpm' = [drpm EXCEPT ![w] = NoDrpm]
    /\ inside' = inside \ {w}
    /\ UNCHANGED <<deltaVars, stage, candidates, unread, written, lost>>

-----------------------------------------------------------------------------
PrestoMain ==
    \/ PrepareFails
    \/ OpenFiles
    \/ OpenFails
    \/ Walk
    \/ WalkFails
    \/ JoinPool
    \/ \E k \in Keys : WriteNewPackage(k)
    \/ \E k \in Keys : WriteFails(k)
    \/ EndChunkFails
    \/ ListFile

PrestoWorker(w) ==
    \/ \E f \in Drpms : TakeDrpm(w, f)
    \/ ReadFails(w)
    \/ LookUp(w)
    \/ Store(w)

Next ==
    \/ stage = "deltas" /\ NextDelta /\ UNCHANGED prestoVars
    \/ PrestoMain
    \/ \E w \in Workers : PrestoWorker(w)

\* The threads are scheduled, and librpm and the file system answer.
Fairness ==
    /\ WF_vars(stage = "deltas" /\ Main /\ UNCHANGED prestoVars)
    /\ WF_vars(PrestoMain)
    /\ \A w \in Workers :
         /\ WF_vars(stage = "deltas" /\ Worker(w) /\ UNCHANGED prestoVars)
         /\ WF_vars(PrestoWorker(w))

Spec == Init /\ [][Next]_vars /\ Fairness

-----------------------------------------------------------------------------
(* Properties.                                                             *)

\* The variables of both halves have their types.
PrestoTypeOK ==
    /\ TypeOK
    /\ stage \in {"deltas", "open", "pool", "write", "listed", "given_up"}
    /\ candidates \subseteq Drpms
    /\ drpm \in [Workers -> Drpms \union {NoDrpm}]
    /\ inside \subseteq {w \in Workers : drpm[w] # NoDrpm}
    /\ list \in [Workers -> Seq(Drpms)]
    /\ ht \in [Keys -> Seq(Drpms)]
    /\ unread \subseteq Drpms
    /\ written \in Seq(Keys \X Seq(Drpms))
    /\ lost \subseteq Keys

\* A prestodelta.xml that repomd.xml lists has one newpackage element for each
\* package a readable drpm leads to, unless its writing failed, and the element
\* holds each of those drpms exactly once, whichever threads have added them.
PrestoComplete ==
    stage = "listed" =>
      LET read(k) == {f \in OnDisk \ unread : NewNevra[f] = k}
      IN  /\ {written[i][1] : i \in DOMAIN written}
               = {k \in Keys : read(k) # {}} \ lost
          /\ \A i, j \in DOMAIN written :
               written[i][1] = written[j][1] => i = j
          /\ \A i \in DOMAIN written :
               LET chunks == written[i][2]
               IN  /\ {chunks[j] : j \in DOMAIN chunks} = read(written[i][1])
                   /\ \A j, l \in DOMAIN chunks : chunks[j] = chunks[l] => j = l

\* The stage ends: the main thread is woken whenever it can go on, and no
\* target that is left waits for a task that never comes.
Termination == <>(stage \in {"listed", "given_up"})
=============================================================================
