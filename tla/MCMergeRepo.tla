------------------------------ MODULE MCMergeRepo ------------------------------
(* Command lines of mergerepo_c for TLC.                                   *)
EXTENDS MergeRepo

Pkg(id, arch, evr, time, loc, srpm) ==
    [id |-> id, name |-> "foo", arch |-> arch, evr |-> evr, time |-> time,
     href |-> arch, base |-> loc, srpm |-> srpm]
Src(vr) == [name |-> "foo", vr |-> vr]
NoSrc == [name |-> "none", vr |-> 0]
BadSrc == [name |-> "bad", vr |-> 0]

\* Two versions and a rebuild with another epoch, of which the oldest file is
\* the newest package; packages of another arch and without arch; a package
\* without a source rpm, one with a bad one, one of another name, and one of a
\* build that no repository has, which takes the place of N1 and N3.
F1 == Pkg("f1", "i686", <<0, 1, 1>>, 3, "none", Src(1))
F2 == Pkg("f2", "i686", <<0, 1, 2>>, 2, "none", Src(2))
F3 == Pkg("f3", "i686", <<1, 1, 1>>, 1, "own", Src(1))
F4 == Pkg("f4", "x86_64", <<0, 1, 2>>, 2, "none", Src(2))
N1 == Pkg("n1", "noarch", <<0, 1, 1>>, 1, "none", Src(1))
N2 == [Pkg("n2", "noarch", <<0, 1, 2>>, 2, "none", Src(2)) EXCEPT !.href = "n2"]
N3 == Pkg("n3", "noarch", <<0, 1, 1>>, 1, "none", NoSrc)
N4 == [N1 EXCEPT !.id = "n4", !.srpm.name = "baz"]
B1 == [Pkg("b1", "i686", <<0, 1, 1>>, 1, "none", BadSrc) EXCEPT !.name = "bar"]

Pool == {F1, F2, F3, F4, N1, N2, N3, B1}
SubsetsUpTo(n) == UNION {kSubset(k, Pool) : k \in 0..n}
RepoLists == {<<a, b>> : a, b \in SubsetsUpTo(2)}
               \union {<<{a}, {b}, {c}>> : a, b, c \in {F1, F2, F3, N1, N2}}

Plain == [archs |-> <<>>, expand |-> FALSE, koji |-> FALSE, simple |-> FALSE,
          all |-> FALSE, method |-> "repo", blocked |-> {}, pkgorigins |-> FALSE,
          omitBaseurl |-> FALSE, noarch |-> {}]
Koji == [Plain EXCEPT !.koji = TRUE, !.archs = <<"i386">>]

Options ==
    {[Plain EXCEPT !.method = m] : m \in {"ts", "nvr"}}
      \union {[Plain EXCEPT !.all = TRUE, !.pkgorigins = TRUE],
              [Plain EXCEPT !.noarch = {N1}],
              [Plain EXCEPT !.noarch = {N1}, !.method = "nvr", !.omitBaseurl = TRUE],
              [Plain EXCEPT !.archs = <<"noarch", "x86_64">>, !.expand = TRUE],
              Koji, [Koji EXCEPT !.simple = TRUE, !.archs = <<"x86_64">>],
              [Koji EXCEPT !.blocked = {"foo"}], [Koji EXCEPT !.noarch = {N4}]}

Call(o, rs, d) == [f \in DOMAIN o \union {"repos", "damaged"} |->
                      CASE f = "repos" -> rs [] f = "damaged" -> d [] OTHER -> o[f]]
MCCalls == {Call(o, rs, {}) : o \in Options, rs \in RepoLists}
             \union {Call(o, <<{F1, N1}, {F4}>>, {2}) : o \in Options}
=============================================================================
