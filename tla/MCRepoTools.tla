------------------------------ MODULE MCRepoTools ------------------------------
(* Small repositories and the tasks on them. *)
EXTENDS RepoTools

MCTypes == {"primary", "filelists", "updateinfo", "updateinfo_zck",
            "primary_db", "filelists_db"}
MCData  == {"a", "b", "nothing"}
MCXmlOf == [t \in {"primary_db", "filelists_db"} |->
               IF t = "primary_db" THEN "primary" ELSE "filelists"]

Of(t) == [about |-> t, data |-> "a", sfx |-> ".gz"]
Named_(t, unique) ==
    [base |-> t, sfx |-> ".gz", sum |-> IF unique THEN Of(t) ELSE NoSum]
Repository(ts, unique) ==
    [files  |-> [n \in {Named_(t, unique) : t \in ts} |-> Of(n.base)],
     repomd |-> [whole |-> TRUE, revision |-> "1",
                 records |-> [t \in ts |-> [href |-> Named_(t, unique), sum |-> Of(t)]]]]

MCInitialDirs ==
    {Repository(ts, unique) : unique \in BOOLEAN,
        ts \in {{"primary", "filelists"},
                {"primary", "updateinfo"},
                {"primary", "updateinfo_zck"},
                {"primary", "filelists", "updateinfo", "updateinfo_zck"},
                {"primary", "filelists", "primary_db", "filelists_db"}}}

Take(t) ==
    [remove |-> TRUE, type |-> t, base |-> t, path |-> NoSum, content |-> NoSum,
     renamed |-> FALSE, compress |-> TRUE, unique |-> TRUE, zck |-> FALSE]
Add(t, d) ==
    [remove |-> FALSE, type |-> t, base |-> t, path |-> NoSum,
     content |-> [about |-> t, data |-> d, sfx |-> ""],
     renamed |-> FALSE, compress |-> TRUE, unique |-> TRUE, zck |-> FALSE]
Simple(k) == [k EXCEPT !.unique = FALSE]
Zchunk(k) == [k EXCEPT !.zck = TRUE]
Plain(k)  == [k EXCEPT !.compress = FALSE]
\* A file that is in repodata/ already.
From(k, n) == [k EXCEPT !.path = n, !.base = n.base, !.content = NoSum]

\* The updates as metadata of another type, under another name.
Aside == [From(Add("filelists", "a"), Named_("updateinfo", FALSE)) EXCEPT
             !.base = "filelists", !.renamed = TRUE]

Singles ==
    {Take("updateinfo"), Take("primary_db"), Zchunk(Take("updateinfo")),
     Add("updateinfo", "a"), Add("updateinfo", "b"), Simple(Add("updateinfo", "b")),
     Zchunk(Add("updateinfo", "b")), Plain(Add("updateinfo", "b")),
     Plain(Simple(Add("updateinfo", "b"))),
     Add("filelists", "b"), Simple(Add("primary", "b")),
     From(Add("updateinfo", "a"), Named_("updateinfo", FALSE)),
     From(Add("updateinfo", "a"), Named_("updateinfo", TRUE)),
     From(Add("updateinfo", "a"), Named_("filelists", FALSE))}
MCTaskLists == {<<k>> : k \in Singles}
    \union {<<Take("updateinfo"), k>> : k \in {Add("updateinfo", "b"), Take("filelists"),
               Zchunk(Add("updateinfo", "b")), Zchunk(Take("updateinfo"))}}
    \union {<<Add("updateinfo", "b"), k>> :
               k \in {Take("updateinfo"), Add("updateinfo", "a"), Simple(Add("updateinfo", "a")),
                      Plain(Add("updateinfo", "a")), Zchunk(Add("filelists", "b")) }}
    \union {<<Simple(Add("updateinfo", "b")), Aside>>, <<Aside, Simple(Add("updateinfo", "b"))>>,
            <<Aside, Add("filelists", "b")>>,
            <<From(Add("updateinfo", "a"), Named_("updateinfo", TRUE)), Aside>>,
            <<From(Add("updateinfo", "b"), Named_("updateinfo", TRUE)),
              [Add("filelists", "a") EXCEPT !.base = "updateinfo"]>>}

MCSqliteOptions == [force : BOOLEAN, keepOld : BOOLEAN]
=============================================================================
