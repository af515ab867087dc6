---------------------------- MODULE MCPrestoDelta ----------------------------
(* An instance of PrestoDelta for TLC.                                     *)
EXTENDS PrestoDelta, TLC

CONSTANTS w1, w2, w3, foo, bar, baz, qux, nil, big, foo1, foo2, foo9, fooX, bar1, foo1b,
          d1, d2, stale

MCWorkers == {w1, w2, w3}

\* With max_work_size 5, bar does not fit beside foo, but baz and qux do, and
\* then all threads are busy though nil would fit.  big is not below max_delta_rpm_size.
MCTargets == {foo, bar, baz, qux, nil, big}
MCSize == foo :> 3 @@ bar :> 3 @@ baz :> 1 @@ qux :> 1 @@ nil :> 0
            @@ big :> 5

\* foo2 is newer than foo1, foo9 newer than the target; fooX is too large; the
\* second directory holds the same build as foo1.
MCOldRpms == {foo1, foo2, foo9, fooX, bar1, foo1b}
MCDir == foo1b :> d2 @@ [o \in MCOldRpms \ {foo1b} |-> d1]
MCFileSize == fooX :> 6 @@ [o \in MCOldRpms \ {fooX} |-> 1]
MCNameArch == [o \in MCOldRpms \ {bar1} |-> foo] @@ bar1 :> bar
                @@ [t \in MCTargets |-> t]
MCEvr == foo1 :> 1 @@ foo2 :> 2 @@ foo9 :> 9 @@ fooX :> 1 @@ bar1 :> 1
           @@ foo1b :> 1 @@ [t \in MCTargets |-> 5]

MCBuild(o) == <<MCNameArch[o], MCEvr[o]>>
MCDrpmOf == [p \in MCOldRpms \X MCTargets |-> <<MCBuild(p[1]), p[2]>>]
MCDrpms == {MCDrpmOf[p] : p \in MCOldRpms \X MCTargets}
\* A drpm of an earlier run leads to the same foo.
MCNewNevra == stale :> foo @@ [f \in MCDrpms |-> f[2]]
=============================================================================
