------------------------------ MODULE MCRetention ------------------------------
EXTENDS Retention

Name(b, s, sum) == [base |-> b, sfx |-> s, sum |-> sum]
MCOthers == {Name("comps.xml", "", "0"), Name("primary.xml", ".gz", "0")}

Files(sfxs, sum) == {Name(b, s, sum) : b \in {"primary.xml", "primary.sqlite"}, s \in sfxs}
                      \union {Name("comps.xml", "", sum)}
Written == {Files({".gz"}, "1"), Files({".gz"}, "2"), Files({".gz"}, ""), Files({".gz", ".zck"}, "1")}
MCRuns == {[kind |-> k[1], val |-> k[2], names |-> w] :
             k \in {<<"default", 0>>, <<"default", 2>>, <<"classic", 0>>, <<"classic", 1>>,
                    <<"classic", 2>>, <<"classic", -1>>, <<"age", 1>>}, w \in Written}
=============================================================================
