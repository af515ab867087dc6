------------------------------ MODULE MCXmlParser ------------------------------
(* Packages that differ in what is missing, empty or unusual, and documents   *)
(* with an element too many, without some attributes, or cut short.           *)
EXTENDS XmlParser

Dep(n, f, v, pre) == [name |-> n, flags |-> f, epoch |-> <<"0">>, ver |-> v, rel |-> Null, pre |-> pre]
FileRec(p, n, t, d) == [path |-> p, name |-> n, type |-> t, digest |-> d]
Entry(a, d, t) == [author |-> a, date |-> d, text |-> t]

Usual ==
    [pkgId |-> <<"id1">>, sumType |-> <<"sha256">>, name |-> <<"n1">>, arch |-> <<"a">>,
     epoch |-> <<"0">>, ver |-> <<"1">>, rel |-> <<"1">>, summary |-> <<"s", "&", "t">>,
     time |-> <<"5">>, base |-> Null, href |-> <<"p", "&", "q">>, license |-> <<"l">>,
     filesSum |-> <<"sha256">>,
     provides |-> <<Dep(<<"x">>, <<"EQ">>, <<"1">>, FALSE), Dep(<<"y">>, Null, <<"2">>, TRUE)>>,
     requires |-> <<Dep(<<"z">>, <<"GE">>, Null, TRUE), Dep(<<"w">>, <<>>, <<"1">>, FALSE)>>,
     files |-> <<FileRec(<<"/bin/">>, <<"f">>, Null, <<"h1">>),
                 FileRec(<<"/doc/">>, <<"d">>, <<"dir">>, Null),
                 FileRec(<<"/etc/">>, <<"g">>, <<"ghost">>, <<"h2">>)>>,
     log |-> <<Entry(<<"me">>, <<"1">>, <<"one">>), Entry(<<"you">>, <<"2">>, <<"two">>)>>]
Bare ==
    [pkgId |-> <<"id2">>, sumType |-> Null, name |-> <<"n2">>, arch |-> Null, epoch |-> Null,
     ver |-> Null, rel |-> <<>>, summary |-> <<>>, time |-> <<"0">>, base |-> <<"/srv">>,
     href |-> Null, license |-> Null, filesSum |-> Null,
     provides |-> <<Dep(Null, <<"EQ">>, <<"1">>, FALSE)>>, requires |-> <<>>,
     files |-> <<FileRec(Null, <<"f">>, Null, Null), FileRec(<<"/">>, <<>>, <<"dir">>, Null),
                 FileRec(<<"/bin/">>, <<"e">>, <<"file">>, Null)>>,
     log |-> <<Entry(Null, <<"0">>, Null)>>]
Control == [Bare EXCEPT !.pkgId = <<"id3">>, !.license = <<"control">>]
Literal == [Bare EXCEPT !.pkgId = <<"id4">>, !.href = <<"#38;">>, !.base = <<"&", "#38;">>]

LoadJob(pkgs, filelists, ext) ==
    [kind |-> "packages", data |-> pkgs, filelists |-> filelists, ext |-> ext, edits |-> 0, whole |-> TRUE, refused |-> {},
     strict |-> FALSE, interrupt |-> 0]

PackageLists == {<<Usual>>, <<Bare, Usual>>, <<Control, Bare, Literal>>, <<>>}
Plainly == {LoadJob(ps, f, e) : ps \in PackageLists, f \in BOOLEAN, e \in BOOLEAN}
Both == LoadJob(<<Bare, Usual>>, TRUE, FALSE)
Refusing == {[Both EXCEPT !.refused = r] : r \in {{1}, {2}, {1, 2}}}
Interrupted == {[Both EXCEPT !.interrupt = n] : n \in {1, 2}}
Changed == {[j EXCEPT !.edits = 2, !.strict = s] : j \in {Both, [Both EXCEPT !.ext = TRUE]}, s \in BOOLEAN}

Primary == [NewRecord(<<"primary">>) EXCEPT !.sum = <<"s">>, !.sumType = <<"sha256">>, !.openSum = <<"o">>,
              !.openType = <<"sha256">>, !.href = <<"p", "&">>, !.timestamp = <<"7">>, !.size = <<"3">>,
              !.openSize = <<"9">>, !.dbVer = <<"4">>]
PrimaryDb == [NewRecord(<<"primary_db">>) EXCEPT !.base = <<"&">>, !.dbVer = <<"10">>]
PrimaryZck == [Primary EXCEPT !.type = <<"zck">>, !.headerSum = <<"h">>, !.headerType = <<"sha256">>,
                 !.headerSize = <<"2">>]
Repomds ==
    {[NewRepomd EXCEPT !.records = rs] : rs \in {<<>>, <<Primary, PrimaryDb>>}}
    \union {[revision |-> <<"r">>, repoid |-> id, repoidType |-> <<"t">>, repo |-> <<<<"a">>, <<>>>>,
             distro |-> <<[cpeid |-> <<"c">>, val |-> <<"d">>], [cpeid |-> Null, val |-> <<>>]>>,
             records |-> <<PrimaryZck, Primary, PrimaryDb>>] : id \in {Null, <<"i">>}}

UpdatePkg1 == [name |-> <<"n", "&">>, filename |-> <<"f">>, sum |-> <<"s">>, sumType |-> <<"sha256">>, reboot |-> TRUE]
UpdatePkg2 == [NewUpdatePkg EXCEPT !.filename = <<>>, !.sum = <<"u">>]
Updates ==
    <<[from |-> <<"f">>, issued |-> <<"1">>, id |-> <<"i">>, reboot |-> TRUE, refs |-> <<<<"r">>, Null>>,
       cols |-> <<[short |-> <<"s">>, name |-> <<"n">>, pkgs |-> <<UpdatePkg1, UpdatePkg2>>,
                   module |-> <<[name |-> <<"m">>, version |-> <<"3">>]>>], NewCollection>>],
      NewUpdate>>

CatalogJobs ==
    {[LoadJob(d, FALSE, FALSE) EXCEPT !.kind = "repomd", !.edits = 1, !.strict = s] : d \in Repomds, s \in BOOLEAN}
    \union {[LoadJob(us, FALSE, FALSE) EXCEPT !.kind = "updateinfo", !.edits = 2] : us \in {<<>>, Updates}}
MCJobs == Plainly \union Refusing \union Interrupted \union Changed \union CatalogJobs

MCUnknown == {Elem("new", NoAttrs, <<>>), Elem("new", Ident(Usual), Elem("name", NoAttrs, <<>>)),
              Elem("package", Ident(Bare), <<>>), <<Chars(<<"t">>)>>,
              Elem("new", NoAttrs, <<Chars(<<"t">>)>>)}
=============================================================================
