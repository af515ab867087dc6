--------------------------- MODULE MCDumperThread ---------------------------
(* Instances of DumperThread for TLC.                                      *)
EXTENDS DumperThread, TLC

CONSTANTS w1, w2, w3

MCWorkers == {w1, w2, w3}

\* Two packages of a source rpm, one of another, and back to the first.
MCSrpm == 0 :> "a" @@ 1 :> "a" @@ 2 :> "b" @@ 3 :> "a"

\* Bound: of the writes, those of the second package may fail, in the first and
\* in the last file.  A fair behaviour of MCSpec is one of FairSpec.
MCFragile == {Pri, Oth} \X {1}
MCSpec == Init /\ [][Next /\ lost' \subseteq MCFragile]_vars /\ Fairness
=============================================================================
