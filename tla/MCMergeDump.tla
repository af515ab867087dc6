------------------------------ MODULE MCMergeDump ------------------------------
(* An output directory without a repository, with one, and with one of unique *)
(* names whose databases and group file are old as well.                      *)
EXTENDS MergeDump

Dumps(yes) == [o \in {"ext", "database", "zck", "groupfile", "unique"} |-> o \in yes]
MCDumpOptions == {Dumps({}), Dumps({"unique", "groupfile"}), Dumps({"database", "unique"}),
                  Dumps({"zck", "groupfile"}), Dumps({"ext", "unique"})}
MCDumpTypes == ToSet(RecordOrder)
MCVersion == [n \in 0..2 |-> <<"old", "1st", "2nd">>[n + 1]]
MCDumpData == {"old", "1st", "2nd"}

OldOf(t) == Made(0, t, TRUE)
OldName(t, unique) == [FileFor(t) EXCEPT !.sum = IF unique THEN OldOf(t) ELSE NoSum]
OldRepo(ts, unique) ==
    [there |-> TRUE,
     files |-> [n \in {OldName(t, unique) : t \in ts} |->
                   OldOf(CHOOSE t \in ts : OldName(t, unique) = n)],
     repomd |-> [whole |-> TRUE, revision |-> "",
                 records |-> [t \in ts |-> [href |-> OldName(t, unique), sum |-> OldOf(t)]]]]
MCInitialOutputs ==
    {[there |-> FALSE, files |-> <<>>, repomd |-> NoRepomd],
     OldRepo({"primary", "filelists", "updateinfo"}, FALSE),
     OldRepo({"primary", "filelists_db", "primary_zck", "group"}, TRUE)}
=============================================================================
