---------------------------- MODULE MCDelayedDump ----------------------------
(* Instances of DelayedDump for TLC.                                       *)
EXTENDS DelayedDump, TLC

CONSTANTS w1, w2, w3, foo, bar

MCWorkers == {w1, w2, w3}
\* The threads of the pool are interchangeable.
Symmetry == Permutations(Workers)

\* Three builds of foo: task 1 is an older one, with the last location, and
\* tasks 0 and 2 have the same build time.  Tasks 0, 3 and 4 lie on three media
\* of a split repository and have the same location; 3 and 4 are duplicates.
MCNevra     == 0 :> foo @@ 1 :> foo @@ 2 :> foo @@ 3 :> bar @@ 4 :> bar
MCBuildTime == 0 :> 2 @@ 1 :> 1 @@ 2 :> 2 @@ 3 :> 3 @@ 4 :> 3
MCHref      == 0 :> 1 @@ 1 :> 3 @@ 2 :> 2 @@ 3 :> 1 @@ 4 :> 1
MCOldHrefs  == {1, 2}
MCFresh     == {0, 2, 3}
MCXmlFails  == {1}
MCLastXmlFails == {4}
=============================================================================
