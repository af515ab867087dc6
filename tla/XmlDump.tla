-------------------------------- MODULE XmlDump --------------------------------
(***************************************************************************)
(* The XML of a package: what xml_dump.c, xml_dump_primary.c,              *)
(* xml_dump_filelists.c and xml_dump_other.c make of it, as the events     *)
(* that a SAX parser gets from it.                                         *)
(*                                                                         *)
(* A text is a sequence of tokens, of which "&", "#38;", "/srv" and        *)
(* "control" mean what they say.  One field stands for those that are      *)
(* handled in the same way: summary for description, packager and url;     *)
(* license for vendor, group, buildhost and sourcerpm; time for sizes and  *)
(* header range; provides for conflicts, obsoletes and the weak ones.      *)
(***************************************************************************)
EXTENDS Integers, Sequences, SequencesExt, FiniteSets, TLC

Null == <<"NULL">>
Str(t) == IF t = Null THEN <<>> ELSE t
Empty(t) == Str(t) = <<>>

Start(n, a) == [ev |-> "start", name |-> n, attrs |-> a, text |-> <<>>]
Chars(t)    == [ev |-> "chars", name |-> "", attrs |-> <<>>, text |-> t]
End(n)      == [ev |-> "end", name |-> n, attrs |-> <<>>, text |-> <<>>]

NoAttrs == <<>>
Elem(n, a, inner) == <<Start(n, a)>> \o inner \o <<End(n)>>
Leaf(n, a, t) == Elem(n, a, IF Empty(t) THEN <<>> ELSE <<Chars(t)>>)
Concat(S) == FlattenSeq(S)
Each(F(_), s) == Concat([i \in DOMAIN s |-> F(s[i])])

\* cr_xmlNewProp: no value is an empty one; and an attribute that is there only
\* on a condition.
Prop(k, t) == k :> Str(t)
PropIf(c, k, t) == IF c THEN Prop(k, t) ELSE NoAttrs

-----------------------------------------------------------------------------
\* cr_Package_contains_forbidden_control_chars: a package with such a text is
\* not dumped at all.
TextsOf(p) ==
    {p.name, p.arch, p.epoch, p.ver, p.rel, p.summary, p.base, p.href, p.license}
    \union UNION {{d.name, d.epoch, d.ver, d.rel} : d \in ToSet(p.provides) \union ToSet(p.requires)}
    \union UNION {{f.name, f.path} : f \in ToSet(p.files)}
    \union UNION {{c.author, c.text} : c \in ToSet(p.log)}
Mutant_Forbidden(p) == \E t \in {p.name, p.summary} : "control" \in ToSet(t)
Forbidden(p) == \E t \in TextsOf(p) : "control" \in ToSet(t)

Version(p) == Elem("version", Prop("epoch", p.epoch) @@ Prop("ver", p.ver) @@ Prop("rel", p.rel), <<>>)

\* A file without path or name is left out, and from primary one that is no
\* "primary file"; the type "file" is not written.
IsPrimary(f) == f.path \in {<<"/etc/">>, <<"/bin/">>}
Files(p, primary, ext) ==
    LET shown == SelectSeq(p.files, LAMBDA f : f.path # Null /\ f.name # Null
                                                 /\ (primary => IsPrimary(f)))
        File(f) == Leaf("file",
                        PropIf(~Empty(f.type) /\ f.type # <<"file">>, "type", f.type)
                          @@ PropIf(ext /\ ~Empty(f.digest), "hash", f.digest),
                        f.path \o f.name)
    IN Each(File, shown)

\* Without flags the version of a dependency is not written; nor is one without
\* a name.  Only requires say pre.
Dependencies(n, deps, required) ==
    LET Entry(d) ==
            Elem("rpm:entry",
                 Prop("name", d.name)
                   @@ PropIf(~Empty(d.flags), "flags", d.flags)
                   @@ PropIf(~Empty(d.flags) /\ ~Empty(d.epoch), "epoch", d.epoch)
                   @@ PropIf(~Empty(d.flags) /\ ~Empty(d.ver), "ver", d.ver)
                   @@ PropIf(~Empty(d.flags) /\ ~Empty(d.rel), "rel", d.rel)
                   @@ PropIf(required /\ d.pre, "pre", <<"1">>), <<>>)
    IN IF deps = <<>> THEN <<>>
       ELSE Elem(n, NoAttrs, Each(Entry, SelectSeq(deps, LAMBDA d : ~Empty(d.name))))

PrependProtocol(t) == IF Head(t) = "/srv" THEN <<"file://">> \o t ELSE t
Location(p) ==
    Elem("location",
         (IF Empty(p.base) THEN NoAttrs ELSE Prop("xml:base", PrependProtocol(p.base)))
           @@ Prop("href", p.href), <<>>)

DumpPrimary(p) ==
    Elem("package", Prop("type", <<"rpm">>),
         Leaf("name", NoAttrs, p.name) \o Leaf("arch", NoAttrs, p.arch) \o Version(p)
         \o Leaf("checksum", Prop("type", p.sumType) @@ Prop("pkgid", <<"YES">>), p.pkgId)
         \o Leaf("summary", NoAttrs, p.summary)
         \o Elem("time", Prop("build", p.time), <<>>)
         \o Location(p)
         \o Elem("format", NoAttrs,
                 Leaf("rpm:license", NoAttrs, p.license)
                 \o Dependencies("rpm:provides", p.provides, FALSE)
                 \o Dependencies("rpm:requires", p.requires, TRUE)
                 \o Files(p, TRUE, FALSE)))

Ident(p) == Prop("pkgid", p.pkgId) @@ Prop("name", p.name) @@ Prop("arch", p.arch)
DumpFilelists(p, ext) ==
    Elem("package", Ident(p),
         Version(p)
         \o (IF ext THEN Elem("checksum", Prop("type", p.filesSum), <<>>) ELSE <<>>)
         \o Files(p, FALSE, ext))
DumpOther(p) ==
    LET Changelog(c) == Leaf("changelog", Prop("author", c.author) @@ Prop("date", c.date), c.text)
    IN Elem("package", Ident(p), Version(p) \o Each(Changelog, p.log))

\* cr_xml_dump_int, for every package of a repository.
Dump(kind, pkgs, ext) ==
    LET shown == SelectSeq(pkgs, LAMBDA p : ~Forbidden(p))
    IN CASE kind = "primary"   -> Elem("metadata", NoAttrs, Each(DumpPrimary, shown))
         [] kind = "filelists" -> Elem(IF ext THEN "filelists-ext" ELSE "filelists", NoAttrs,
                                       Each(LAMBDA p : DumpFilelists(p, ext), shown))
         [] kind = "other"     -> Elem("otherdata", NoAttrs, Each(DumpOther, shown))
=============================================================================
