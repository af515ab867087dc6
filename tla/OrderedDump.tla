---------------------------- MODULE OrderedDump ----------------------------
(***************************************************************************)
(* What the dumping of packages promises, with the threads, the locks, the *)
(* condition variables and the buffer left out: every metadata file        *)
(* receives the packages in the order of their task ids, each at most      *)
(* once, and all the files agree on which packages are dumped and which    *)
(* are skipped.                                                            *)
(***************************************************************************)
EXTENDS Naturals, Sequences

CONSTANTS TaskCount,    \* number of tasks pushed to the pool
          NStreams,     \* number of metadata files (primary, filelists, ...)
          MayLose       \* may the writing of a chunk fail?

Tasks   == 0 .. TaskCount - 1
Streams == 1 .. NStreams

VARIABLES fate,     \* what became of a task: "pending", "dump" or "skip"
          pos,      \* per file: the next task the file has to account for
          written   \* per file: the ids whose chunk is in the file, in order

vars == <<fate, pos, written>>

Init ==
    /\ fate = [t \in Tasks |-> "pending"]
    /\ pos = [s \in Streams |-> 0]
    /\ written = [s \in Streams |-> <<>>]

\* A worker finds out whether the package of a task can be dumped.
Decide(t) ==
    /\ fate[t] = "pending"
    /\ \E f \in {"dump", "skip"} : fate' = [fate EXCEPT ![t] = f]
    /\ UNCHANGED <<pos, written>>

\* A file accounts for the next task: by its chunk, or by passing over it.
\* A chunk that cannot be written is lost, and the file goes on without it.
Account(s) ==
    /\ pos[s] < TaskCount
    /\ \/ /\ fate[pos[s]] = "dump"
          /\ written' = [written EXCEPT ![s] = Append(@, pos[s])]
       \/ /\ fate[pos[s]] = "skip" \/ (MayLose /\ fate[pos[s]] = "dump")
          /\ UNCHANGED written
    /\ pos' = [pos EXCEPT ![s] = @ + 1]
    /\ UNCHANGED fate

Next ==
    \/ \E t \in Tasks : Decide(t)
    \/ \E s \in Streams : Account(s)

Spec == Init /\ [][Next]_vars
=============================================================================
