--------------------------- MODULE MCLoadMetadata ---------------------------
(* An instance of LoadMetadata for TLC; packages are indexed by location,  *)
(* as createrepo_c --update does.                                          *)
EXTENDS LoadMetadata, TLC

CONSTANTS x, y, foo, bar, foo1, foo2, foo3, foo4, bar1

\* foo2 is foo1 in another place; foo3 is another build with its checksum and
\* its location; foo4 has its location only; bar1 has its checksum, time and
\* size, and is not in every pkglist.
MCElems == {foo1, foo2, foo3, foo4, bar1}
MCPkgId == [e \in MCElems |-> IF e = foo4 THEN y ELSE x]
MCBasename == [e \in MCElems |-> IF e = bar1 THEN bar ELSE foo]
MCStat == [e \in MCElems |-> IF e = foo3 THEN 2 ELSE 1]
MCKey == foo1 :> "a/foo" @@ foo2 :> "b/foo" @@ foo3 :> "a/foo"
           @@ foo4 :> "a/foo" @@ bar1 :> "a/bar"

SeqsUpTo(S, n) == UNION {[1 .. m -> S] : m \in 0 .. n}

MCRepo(p, parts) == [primary |-> p, filelists |-> parts, other |-> <<y, x>>]

MCInputs ==
    {[repos |-> <<MCRepo(p, <<y, x, x>>), MCRepo(q, <<x, y>>)>>,
      dupaction |-> d, listed |-> l] :
        p \in SeqsUpTo(MCElems, 3),
        q \in SeqsUpTo(MCElems, 1) \union {<<foo1, foo4>>},
        d \in {"keepfirst", "removeall"}, l \in {{foo}, {foo, bar}}}
=============================================================================
