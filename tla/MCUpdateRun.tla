------------------------------ MODULE MCUpdateRun ------------------------------
(* Command lines with --update and without, and three repositories: none, one *)
(* with update information beside it, and one made with --groupfile.          *)
EXTENDS UpdateRun

Asked(yes, tags) ==
    [update |-> "update" \in yes, keep |-> "keep" \in yes, group |-> "group" \in yes,
     zck |-> "zck" \in yes, deltas |-> "deltas" \in yes, unique |-> "unique" \in yes,
     retain |-> "retain" \in yes, tags |-> tags]
Usual == {"update", "keep", "unique"}
MCOptions ==
    {Asked({"unique"}, <<>>), Asked(Usual, <<>>), Asked(Usual, <<"tag">>),
     Asked(Usual \union {"group", "zck"}, <<>>), Asked({"update", "keep", "zck"}, <<>>),
     Asked({"update", "unique"}, <<>>), Asked({"update", "keep", "retain"}, <<>>),
     Asked(Usual \union {"deltas"}, <<>>), Asked({"update", "keep", "deltas", "zck"}, <<>>)}

Repo(ts) ==
    LET rec == [t \in ts |-> Record([Plain(t, ".gz") EXCEPT !.sum = File(t, "A", ".gz")],
                                    File(t, "A", ".gz"), "content")]
    IN [files |-> [n \in {rec[t].href : t \in ts} |-> n.sum],
        repomd |-> [whole |-> TRUE, records |-> rec, tags |-> <<>>]]
MCRepos == {[files |-> <<>>, repomd |-> NoOld], Repo({"primary", "updateinfo"}),
            Repo({"primary", "group"})}
MCUpdateTypes == {"primary", "primary_zck", "group", "group_zck", "updateinfo", "updateinfo_zck",
                  "prestodelta", "prestodelta_zck"}
=============================================================================
