------------------------------ MODULE XmlCatalogs ------------------------------
(***************************************************************************)
(* repomd.xml and updateinfo.xml: how they are written (xml_dump_repomd.c, *)
(* xml_dump_updateinfo.c), copied (repomd.c, updateinfo.c) and what their  *)
(* parsers do with an element (xml_parser_repomd.c,                        *)
(* xml_parser_updateinfo.c).                                               *)
(*                                                                         *)
(* Of the fields that are handled alike one stands for all: repoid for     *)
(* contenthash, repo tags for content tags; from for status, type and      *)
(* version, issued for updated, id for the other texts of an update, the   *)
(* id of a reference for its attributes, name for the attributes of a      *)
(* package or a module, reboot for restart and relogin.                    *)
(***************************************************************************)
EXTENDS XmlDump

PropC(k, t) == PropIf(t # Null, k, t)
LeafC(n, a, t) == IF t = Null THEN <<>> ELSE Leaf(n, a, t)
Flag(n, b) == IF b THEN Leaf(n, NoAttrs, <<"True">>) ELSE <<>>
LastOf(s, f) == [s EXCEPT ![Len(s)] = f]

-----------------------------------------------------------------------------
(* repomd.xml.                                                             *)

Unknown_ == <<"-1">>        \* a size that is not known
IsDb(type) == type = <<"primary_db">>

NewRecord(type) ==
    [type |-> type, sum |-> Null, sumType |-> Null, openSum |-> Null, openType |-> Null,
     headerSum |-> Null, headerType |-> Null, href |-> Null, base |-> Null,
     timestamp |-> <<"0">>, size |-> <<"0">>, openSize |-> Unknown_, headerSize |-> Unknown_,
     dbVer |-> <<"0">>]
NewRepomd ==
    [revision |-> Null, repoid |-> Null, repoidType |-> Null,
     repo |-> <<>>, distro |-> <<>>, records |-> <<>>]

DumpRecord(r) ==
    Elem("data", Prop("type", r.type),
         Leaf("checksum", Prop("type", r.sumType), r.sum)
         \o LeafC("open-checksum", Prop("type", r.openType), r.openSum)
         \o LeafC("header-checksum", Prop("type", r.headerType), r.headerSum)
         \o Elem("location", Prop("href", r.href) @@ PropC("xml:base", r.base), <<>>)
         \o Leaf("timestamp", NoAttrs, r.timestamp) \o Leaf("size", NoAttrs, r.size)
         \o (IF r.openSize = Unknown_ THEN <<>> ELSE Leaf("open-size", NoAttrs, r.openSize))
         \o (IF r.headerSum = Null \/ r.headerSize = Unknown_ THEN <<>>
             ELSE Leaf("header-size", NoAttrs, r.headerSize))
         \o (IF IsDb(r.type) THEN Leaf("database_version", NoAttrs, r.dbVer) ELSE <<>>))
\* Without a revision the time is one.
DumpRepomd(d) ==
    LET Distro(t) == Leaf("distro", PropC("cpeid", t.cpeid), t.val)
        Repo(t) == Leaf("repo", NoAttrs, t)
    IN Elem("repomd", NoAttrs,
            Leaf("revision", NoAttrs, IF d.revision = Null THEN <<"now">> ELSE d.revision)
            \o LeafC("repoid", PropC("type", d.repoidType), d.repoid)
            \o (IF d.repo = <<>> /\ d.distro = <<>> THEN <<>>
                ELSE Elem("tags", NoAttrs, Each(Repo, d.repo) \o Each(Distro, d.distro)))
            \o Each(DumpRecord, d.records))

\* cr_repomd_set_record: a later record of a type takes the place of the former.
SetRecord(d, r) == [d EXCEPT !.records = Append(SelectSeq(@, LAMBDA o : o.type # r.type), r)]
\* cr_repomd_copy: the tags are appended and then reversed, the records too; the
\* other texts are only put into the storage of the copy.
CopyRepomd(d) ==
    [NewRepomd EXCEPT !.repo = Reverse(d.repo), !.distro = Reverse(d.distro),
                      !.records = Reverse(d.records)]

RepomdTable ==
    <<<<"START", "repomd", "REPOMD", FALSE>>, <<"REPOMD", "revision", "REVISION", TRUE>>,
      <<"REPOMD", "repoid", "REPOID", TRUE>>, <<"REPOMD", "tags", "TAGS", FALSE>>,
      <<"REPOMD", "data", "DATA", FALSE>>, <<"TAGS", "repo", "REPO", TRUE>>,
      <<"TAGS", "distro", "DISTRO", TRUE>>, <<"DATA", "location", "LOCATION", FALSE>>,
      <<"DATA", "checksum", "CHECKSUM", TRUE>>, <<"DATA", "open-checksum", "OPENCHECKSUM", TRUE>>,
      <<"DATA", "header-checksum", "HEADERCHECKSUM", TRUE>>,
      <<"DATA", "timestamp", "TIMESTAMP", TRUE>>, <<"DATA", "size", "SIZE", TRUE>>,
      <<"DATA", "open-size", "OPENSIZE", TRUE>>, <<"DATA", "header-size", "HEADERSIZE", TRUE>>,
      <<"DATA", "database_version", "DBVERSION", TRUE>> >>

\* attr[k] is the value of an attribute or Null, cpeid that of the distro tag.
Attributes == {"type", "href", "xml:base", "from", "date", "id", "short", "name", "version"}
SetLast(d, f, v) == [d EXCEPT !.records[Len(d.records)][f] = v]
Set(old, new) == IF new = Null THEN old ELSE new
RepomdStart(d, state, attr) ==
    LET r == Last(d.records)
    IN CASE state = "REPOID" -> [d EXCEPT !.repoidType = Set(@, attr["type"])]
         [] state = "DATA" -> SetRecord(d, NewRecord(Set(<<"unknown">>, attr["type"])))
         [] state = "LOCATION" -> SetLast(SetLast(d, "href", Set(r.href, attr["href"])),
                                          "base", Set(r.base, attr["xml:base"]))
         [] state = "CHECKSUM" -> SetLast(d, "sumType", Set(r.sumType, attr["type"]))
         [] state = "OPENCHECKSUM" -> SetLast(d, "openType", Set(r.openType, attr["type"]))
         [] state = "HEADERCHECKSUM" -> SetLast(d, "headerType", Set(r.headerType, attr["type"]))
         [] OTHER -> d
RepomdNeeds(state) ==
    CASE state \in {"DATA", "CHECKSUM", "OPENCHECKSUM", "HEADERCHECKSUM"} -> {"type"}
      [] state = "LOCATION" -> {"href"}
      [] OTHER -> {}
\* A number that is not there is 0.
Number(t) == IF t = <<>> THEN <<"0">> ELSE t
RepomdEnd(d, state, text, cpeid) ==
    CASE state = "REVISION" -> IF text = <<>> THEN d ELSE [d EXCEPT !.revision = text]
      [] state = "REPOID" -> [d EXCEPT !.repoid = text]
      [] state = "REPO" -> [d EXCEPT !.repo = Append(@, text)]
      [] state = "DISTRO" -> [d EXCEPT !.distro = Append(@, [cpeid |-> cpeid, val |-> text])]
      [] state = "CHECKSUM" -> SetLast(d, "sum", text)
      [] state = "OPENCHECKSUM" -> SetLast(d, "openSum", text)
      [] state = "HEADERCHECKSUM" -> SetLast(d, "headerSum", text)
      [] state = "TIMESTAMP" -> SetLast(d, "timestamp", Number(text))
      [] state = "SIZE" -> SetLast(d, "size", Number(text))
      [] state = "OPENSIZE" -> SetLast(d, "openSize", Number(text))
      [] state = "HEADERSIZE" -> SetLast(d, "headerSize", Number(text))
      [] state = "DBVERSION" -> SetLast(d, "dbVer", Number(text))
      [] OTHER -> d

-----------------------------------------------------------------------------
(* updateinfo.xml: a sequence of updates.                                  *)

NewUpdate == [from |-> Null, issued |-> Null, id |-> Null, reboot |-> FALSE,
              refs |-> <<>>, cols |-> <<>>]
NewCollection == [short |-> Null, name |-> Null, module |-> <<>>, pkgs |-> <<>>]
NewUpdatePkg == [name |-> Null, filename |-> Null, sum |-> Null,
                 sumType |-> <<"Unknown checksum">>, reboot |-> FALSE]

DumpUpdatePkg(p) ==
    Elem("package", PropC("name", p.name),
         LeafC("filename", NoAttrs, p.filename) \o LeafC("sum", Prop("type", p.sumType), p.sum)
         \o Flag("reboot_suggested", p.reboot))
DumpCollection(c) ==
    LET Module(m) == Elem("module", PropC("name", m.name) @@ Prop("version", m.version), <<>>)
    IN Elem("collection", PropC("short", c.short),
            LeafC("name", NoAttrs, c.name) \o Each(Module, c.module) \o Each(DumpUpdatePkg, c.pkgs))
DumpUpdate(u) ==
    LET Reference(id) == Elem("reference", PropC("id", id), <<>>)
    IN Elem("update", PropC("from", u.from),
            LeafC("id", NoAttrs, u.id)
            \o (IF u.issued = Null THEN <<>> ELSE Elem("issued", Prop("date", u.issued), <<>>))
            \o Flag("reboot_suggested", u.reboot)
            \o Elem("references", NoAttrs, Each(Reference, u.refs))
            \o Elem("pkglist", NoAttrs, Each(DumpCollection, u.cols)))
DumpUpdateinfo(us) == Elem("updates", NoAttrs, Each(DumpUpdate, us))

\* cr_updaterecord_copy and what it calls: lists are prepended to and reversed.
CopyList(s) == Reverse(FoldLeft(LAMBDA new, x : <<x>> \o new, <<>>, s))
CopyUpdate(u) ==
    [u EXCEPT !.refs = CopyList(@),
              !.cols = CopyList([i \in DOMAIN @ |-> [@[i] EXCEPT !.pkgs = CopyList(@)]])]

UpdateinfoTable ==
    <<<<"START", "updates", "UPDATES", FALSE>>, <<"UPDATES", "update", "UPDATE", FALSE>>,
      <<"UPDATE", "id", "ID", TRUE>>, <<"UPDATE", "issued", "ISSUED", FALSE>>,
      <<"UPDATE", "message", "MESSAGE", TRUE>>,
      <<"UPDATE", "references", "REFERENCES", FALSE>>, <<"UPDATE", "pkglist", "PKGLIST", FALSE>>,
      <<"UPDATE", "reboot_suggested", "UPDATERECORD_REBOOTSUGGESTED", FALSE>>,
      <<"REFERENCES", "reference", "REFERENCE", FALSE>>,
      <<"PKGLIST", "collection", "COLLECTION", FALSE>>,
      <<"COLLECTION", "package", "PACKAGE", FALSE>>, <<"COLLECTION", "name", "NAME", TRUE>>,
      <<"COLLECTION", "module", "MODULE", FALSE>>, <<"PACKAGE", "filename", "FILENAME", TRUE>>,
      <<"PACKAGE", "sum", "SUM", TRUE>>,
      <<"PACKAGE", "reboot_suggested", "REBOOTSUGGESTED", FALSE>> >>

SumType(t) == IF t = <<"sha256">> THEN t ELSE <<"Unknown checksum">>
\* What the pointers of the parser lead to is the last of each list.
SetUpdate(us, u) == LastOf(us, u)
SetCollection(us, c) == LastOf(us, [Last(us) EXCEPT !.cols = LastOf(@, c)])
SetPkg(us, p) ==
    SetCollection(us, [Last(Last(us).cols) EXCEPT !.pkgs = LastOf(@, p)])
UpdateinfoStart(us, state, attr) ==
    LET u == Last(us)
        c == Last(u.cols)
        p == Last(c.pkgs)
    IN CASE state = "UPDATE" -> Append(us, [NewUpdate EXCEPT !.from = attr["from"]])
         [] state = "ISSUED" -> SetUpdate(us, [u EXCEPT !.issued = Set(@, attr["date"])])
         [] state = "REFERENCE" -> SetUpdate(us, [u EXCEPT !.refs = Append(@, attr["id"])])
         [] state = "UPDATERECORD_REBOOTSUGGESTED" -> SetUpdate(us, [u EXCEPT !.reboot = TRUE])
         [] state = "COLLECTION" ->
              SetUpdate(us, [u EXCEPT !.cols = Append(@, [NewCollection EXCEPT !.short = attr["short"]])])
         [] state = "MODULE" ->
              SetCollection(us, [c EXCEPT !.module =
                  <<[name |-> attr["name"], version |-> Number(Str(attr["version"]))]>>])
         [] state = "PACKAGE" ->
              SetCollection(us, [c EXCEPT !.pkgs = Append(@, [NewUpdatePkg EXCEPT !.name = attr["name"]])])
         [] state = "SUM" ->
              SetPkg(us, [p EXCEPT !.sumType = IF attr["type"] = Null THEN @ ELSE SumType(attr["type"])])
         [] state = "REBOOTSUGGESTED" -> SetPkg(us, [p EXCEPT !.reboot = TRUE])
         [] OTHER -> us
UpdateinfoEnd(us, state, t) ==
    CASE state = "ID" -> SetUpdate(us, [Last(us) EXCEPT !.id = t])
      [] state = "NAME" -> SetCollection(us, [Last(Last(us).cols) EXCEPT !.name = t])
      [] state = "FILENAME" -> SetPkg(us, [Last(Last(Last(us).cols).pkgs) EXCEPT !.filename = t])
      [] state = "SUM" -> SetPkg(us, [Last(Last(Last(us).cols).pkgs) EXCEPT !.sum = t])
      [] OTHER -> us
=============================================================================
