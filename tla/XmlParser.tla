------------------------------- MODULE XmlParser -------------------------------
(***************************************************************************)
(* The XML parsers: one state machine over SAX events with a table for     *)
(* each kind of file (xml_parser.c, xml_parser_primary.c,                  *)
(* xml_parser_filelists.c, xml_parser_other.c, xml_parser_repomd.c,        *)
(* xml_parser_updateinfo.c).  Those of packages are used one after the     *)
(* other to load a repository.  What was loaded is written (or copied and  *)
(* then written) and loaded again.                                         *)
(***************************************************************************)
EXTENDS XmlCatalogs

CONSTANTS
    Jobs,           \* packages and flags: see LoadJob
    Unknown         \* what may stand in a document besides what was written

VARIABLES
    job,            \* what is loaded, and what the callbacks answer
    doc,            \* what is left of the document that is parsed
    openElems,      \* the elements of it that are open
    phase,          \* its kind
    gen,            \* 1st: written from the packages, 2nd: from what was loaded
    ppc,            \* "parse", "loaded", "failed"
    pd,             \* cr_ParserData
    got             \* the packages so far; the repomd or the updates

parserVars == <<job, doc, openElems, phase, gen, ppc, pd, got>>

-----------------------------------------------------------------------------
(* The tables: from a state, by an element, to a state, and whether the    *)
(* text of the element is kept.                                            *)

Stateswitches ==
    [primary |->
        <<<<"START", "metadata", "METADATA", FALSE>>, <<"METADATA", "package", "PACKAGE", FALSE>>,
          <<"PACKAGE", "name", "NAME", TRUE>>, <<"PACKAGE", "arch", "ARCH", TRUE>>,
          <<"PACKAGE", "version", "VERSION", FALSE>>, <<"PACKAGE", "checksum", "CHECKSUM", TRUE>>,
          <<"PACKAGE", "summary", "SUMMARY", TRUE>>, <<"PACKAGE", "time", "TIME", FALSE>>,
          <<"PACKAGE", "location", "LOCATION", FALSE>>, <<"PACKAGE", "format", "FORMAT", FALSE>>,
          <<"FORMAT", "file", "FILE", TRUE>>, <<"FORMAT", "rpm:license", "LICENSE", TRUE>>,
          <<"FORMAT", "rpm:provides", "PROVIDES", FALSE>>,
          <<"FORMAT", "rpm:requires", "REQUIRES", FALSE>>,
          <<"PROVIDES", "rpm:entry", "ENTRY_PROVIDES", FALSE>>,
          <<"REQUIRES", "rpm:entry", "ENTRY_REQUIRES", FALSE>> >>,
     filelists |->
        <<<<"START", "filelists", "FILELISTS", FALSE>>,
          <<"START", "filelists-ext", "FILELISTS_EXT", FALSE>>,
          <<"FILELISTS", "package", "PACKAGE", FALSE>>,
          <<"FILELISTS_EXT", "package", "PACKAGE", FALSE>>,
          <<"PACKAGE", "file", "FILE", TRUE>>, <<"PACKAGE", "version", "VERSION", FALSE>>,
          <<"PACKAGE", "checksum", "CHECKSUM", FALSE>> >>,
     other |->
        <<<<"START", "otherdata", "OTHERDATA", FALSE>>, <<"OTHERDATA", "package", "PACKAGE", FALSE>>,
          <<"PACKAGE", "changelog", "CHANGELOG", TRUE>>, <<"PACKAGE", "version", "VERSION", FALSE>> >>,
     repomd |-> RepomdTable,
     updateinfo |-> UpdateinfoTable]

Table_ == ToSet(Stateswitches[phase])
From(s) == {row \in Table_ : row[1] = s}
\* sbtab: where an element was entered from; a later row overwrites.
Back(s) ==
    LET t == Stateswitches[phase]
        i == CHOOSE j \in DOMAIN t : t[j][3] = s /\ \A k \in DOMAIN t : t[k][3] = s => k <= j
    IN t[i][1]
\* The states in which there is no package yet.
Outer == {"START", "METADATA", "FILELISTS", "FILELISTS_EXT", "OTHERDATA"}
Catalog == phase \in {"repomd", "updateinfo"}

-----------------------------------------------------------------------------
(* Packages.                                                               *)

NewPackage ==
    [pkgId |-> Null, sumType |-> Null, name |-> Null, arch |-> Null, epoch |-> Null, ver |-> Null,
     rel |-> Null, summary |-> Null, time |-> <<"0">>, base |-> Null, href |-> Null,
     license |-> Null, filesSum |-> Null, provides |-> <<>>, requires |-> <<>>, files |-> <<>>,
     log |-> <<>>]
NoPackage == <<>>
Has == pd.pkg # <<>>

NewParser == [depth |-> 0, statedepth |-> 0, state |-> "START", docontent |-> FALSE,
              content |-> <<>>, pkg |-> NoPackage, type |-> Null, digest |-> Null,
              seen |-> 0, err |-> FALSE]

\* SAX1 shows an ampersand in an attribute as "&#38;", which
\* unescape_ampersand_from_values takes out again, wherever it came from.
Sax(t) == Concat([i \in DOMAIN t |-> IF t[i] = "&" THEN <<"&", "#38;">> ELSE <<t[i]>>])
Unescape(t) == IF "&" \in ToSet(t) THEN SelectSeq(t, LAMBDA c : c # "#38;") ELSE t
Find(a, k) == IF k \in DOMAIN a THEN Unescape(Sax(a[k])) ELSE Null

\* A field that another parser has filled stays; one that is inserted with
\* cr_safe_string_chunk_insert_null is not there if it is empty.
Keep(old, new) == IF old = Null THEN new ELSE old
OrNull(t) == IF Empty(t) THEN Null ELSE t
OrOld(old, new) == IF new = Null THEN old ELSE new
Prepend(s, x) == <<x>> \o s

SetVersion(p, a) == [p EXCEPT !.epoch = Keep(@, Find(a, "epoch")),
                              !.ver = Keep(@, Find(a, "ver")), !.rel = Keep(@, Find(a, "rel"))]

Dependency(a) ==
    [name |-> Find(a, "name"), flags |-> Find(a, "flags"), epoch |-> Find(a, "epoch"),
     ver |-> Find(a, "ver"), rel |-> Find(a, "rel"),
     pre |-> Find(a, "pre") \notin {Null, <<"0">>, <<"false">>}]

\* newpkgcb: primary makes a package; the others look it up by its pkgid, once.
\* A callback may refuse a package, which is then passed over.
Refused(n) == n \in job.refused
Lookup(id) == {i \in DOMAIN got : got[i].pkgId = id}
Opened(a) ==
    IF phase = "primary" THEN IF Refused(pd.seen + 1) THEN NoPackage ELSE NewPackage
    ELSE IF Lookup(Find(a, "pkgid")) = {} THEN NoPackage
    ELSE LET p == got[CHOOSE i \in Lookup(Find(a, "pkgid")) : TRUE]
         IN [p EXCEPT !.name = Keep(@, Find(a, "name")), !.arch = Keep(@, Find(a, "arch"))]

-----------------------------------------------------------------------------
(* cr_start_handler.                                                       *)

\* A warning that the callback answers with an interrupt.
Warned(q, c) == [q EXCEPT !.err = @ \/ (c /\ job.strict)]
Missing(q, a, ks) == Warned(q, \E k \in ks : Find(a, k) = Null)

FileType(a) == IF Find(a, "type") \in {<<"dir">>, <<"ghost">>} THEN Find(a, "type") ELSE Null

\* What the state that is entered does with the attributes.
Entered(q, a) ==
    IF phase = "updateinfo" THEN q
    ELSE IF phase = "repomd"
      THEN IF q.state = "DISTRO" THEN [q EXCEPT !.digest = OrOld(@, Find(a, "cpeid"))]
           ELSE Missing(q, a, RepomdNeeds(q.state))
    ELSE
    CASE q.state = "PACKAGE" /\ phase = "primary" ->
           Missing([q EXCEPT !.pkg = Opened(a), !.seen = @ + 1], a, {"type"})
      [] q.state = "PACKAGE" /\ phase # "primary" ->
           IF Find(a, "pkgid") = Null THEN [q EXCEPT !.err = TRUE]
           ELSE Missing([q EXCEPT !.pkg = Opened(a), !.seen = @ + 1], a, {"name", "arch"})
      [] q.state = "VERSION" -> [q EXCEPT !.pkg = SetVersion(@, a)]
      [] q.state = "CHECKSUM" /\ phase = "primary" ->
           Missing([q EXCEPT !.pkg.sumType = OrOld(@, Find(a, "type"))], a, {"type"})
      [] q.state = "CHECKSUM" /\ phase # "primary" ->
           [q EXCEPT !.pkg.filesSum = Keep(@, Find(a, "type"))]
      [] q.state = "TIME" -> Missing([q EXCEPT !.pkg.time = OrOld(@, Find(a, "build"))], a, {"build"})
      [] q.state = "LOCATION" ->
           Missing([q EXCEPT !.pkg.href = OrOld(@, Find(a, "href")),
                             !.pkg.base = OrOld(@, Find(a, "xml:base"))], a, {"href"})
      [] q.state = "ENTRY_PROVIDES" ->
           Missing([q EXCEPT !.pkg.provides = Prepend(@, Dependency(a))], a, {"name"})
      [] q.state = "ENTRY_REQUIRES" ->
           Missing([q EXCEPT !.pkg.requires = Prepend(@, Dependency(a))], a, {"name"})
      [] q.state = "FILE" ->
           Warned([q EXCEPT !.type = FileType(a), !.digest = OrOld(@, Find(a, "cpeid"))],
                  Find(a, "type") \notin {Null, <<"dir">>, <<"ghost">>})
      [] q.state = "CHANGELOG" ->
           Missing([q EXCEPT !.pkg.log = Prepend(@, [author |-> Find(a, "author"), text |-> Null,
                                date |-> IF Find(a, "date") = Null THEN <<"0">> ELSE Find(a, "date")])],
                   a, {"author", "date"})
      [] OTHER -> q

Deeper == [pd EXCEPT !.depth = @ + 1]
\* In an unknown element, in one that has no elements, or in a package that is
\* passed over.
Mutant_PassedOver == From(pd.state) = {} \/ (~Has /\ pd.state \notin Outer /\ ~Catalog)
PassedOver == pd.depth # pd.statedepth \/ From(pd.state) = {} \/ (~Has /\ pd.state \notin Outer /\ ~Catalog)

Started(n, a) ==
    LET rows == {row \in From(pd.state) : row[2] = n}
        row == CHOOSE r \in rows : TRUE
    IN IF PassedOver THEN Deeper
       ELSE IF rows = {} THEN Warned(Deeper, TRUE)
       ELSE Entered([Deeper EXCEPT !.state = row[3], !.docontent = row[4],
                                   !.statedepth = pd.depth + 1, !.content = <<>>], a)

-----------------------------------------------------------------------------
(* cr_char_handler and cr_end_handler.                                     *)

Kept_(t) == IF pd.docontent THEN [pd EXCEPT !.content = @ \o t] ELSE pd

\* The name is what follows the last slash, the path is the rest.
IsDir(c) == c \in {"/", "/etc/", "/bin/", "/doc/"}
FileOf ==
    [path |-> SelectSeq(pd.content, IsDir),
     name |-> SelectSeq(pd.content, LAMBDA c : ~IsDir(c)),
     type |-> pd.type, digest |-> pd.digest]

DoFiles == phase = "filelists" \/ ~job.filelists

Stored(p) == IF phase = "primary" THEN Append(got, p)
             ELSE [got EXCEPT ![CHOOSE i \in Lookup(p.pkgId) : TRUE] = p]
Complete(p) ==
    [p EXCEPT !.files = IF phase # "other" /\ DoFiles THEN Reverse(@) ELSE @,
              !.log = IF phase = "other" THEN Reverse(@) ELSE @]
NoPkgId == phase = "primary" /\ pd.pkg.pkgId = Null

Left == [pd EXCEPT !.depth = @ - 1, !.statedepth = @ - 1, !.state = Back(@), !.docontent = FALSE]

\* What the state that is left does with the text; there is no package in the
\* outer states or when it is passed over.
Ended ==
    LET t == OrNull(pd.content)
    IN IF Catalog THEN [Left EXCEPT !.digest = IF pd.state = "DISTRO" THEN Null ELSE @]
       ELSE
       CASE pd.state = "PACKAGE" /\ Has ->
              [Left EXCEPT !.pkg = IF NoPkgId THEN @ ELSE NoPackage,
                           !.err = NoPkgId \/ pd.seen = job.interrupt]
         [] pd.state = "NAME" -> [Left EXCEPT !.pkg.name = Keep(@, t)]
         [] pd.state = "ARCH" -> [Left EXCEPT !.pkg.arch = Keep(@, t)]
         [] pd.state = "CHECKSUM" /\ phase = "primary" -> [Left EXCEPT !.pkg.pkgId = Keep(@, t)]
         [] pd.state = "SUMMARY" -> [Left EXCEPT !.pkg.summary = t]
         [] pd.state = "LICENSE" -> [Left EXCEPT !.pkg.license = t]
         [] pd.state = "PROVIDES" -> [Left EXCEPT !.pkg.provides = Reverse(@)]
         [] pd.state = "REQUIRES" -> [Left EXCEPT !.pkg.requires = Reverse(@)]
         [] pd.state = "FILE" /\ DoFiles ->
              [Left EXCEPT !.pkg.files = Prepend(@, FileOf), !.digest = Null]
         [] pd.state = "CHANGELOG" -> [Left EXCEPT !.pkg.log[1].text = pd.content]
         [] OTHER -> Left
\* What the catalogs become is not built in the parser, but at once.
Begun(q, a) ==
    LET attr == [k \in Attributes |-> Find(a, k)]
    IN IF q.state = pd.state \/ ~Catalog THEN got
       ELSE IF phase = "repomd" THEN RepomdStart(got, q.state, attr)
       ELSE UpdateinfoStart(got, q.state, attr)
Finished ==
    IF phase = "repomd" THEN RepomdEnd(got, pd.state, pd.content, pd.digest)
    ELSE UpdateinfoEnd(got, pd.state, OrNull(pd.content))
Delivers == pd.depth = pd.statedepth /\ pd.state = "PACKAGE" /\ Has /\ ~NoPkgId

-----------------------------------------------------------------------------
(* Loading.                                                                *)

\* cr_load_xml_files: without filelists the files come from primary.
Following(ph) ==
    CASE ph = "primary" -> IF job.filelists THEN "filelists" ELSE "other"
      [] ph = "filelists" -> "other"
      [] OTHER -> "end"
First == IF job.kind = "packages" THEN "primary" ELSE job.kind
Nothing == IF job.kind = "repomd" THEN NewRepomd ELSE <<>>
Document(ph, data) ==
    CASE ph = "repomd" -> DumpRepomd(data)
      [] ph = "updateinfo" -> DumpUpdateinfo(data)
      [] OTHER -> Dump(ph, data, job.ext)

Begin(ph, data) ==
    /\ phase' = ph /\ doc' = Document(ph, data)
    /\ openElems' = <<>> /\ pd' = NewParser

ParserInit ==
    /\ job \in Jobs
    /\ phase = First /\ gen = 1 /\ doc = Document(First, job.data)
    /\ openElems = <<>> /\ pd = NewParser /\ ppc = "parse" /\ got = Nothing

Parsing == ppc = "parse" /\ ~pd.err
Event == Head(doc)
OneEvent(ev) ==
    /\ Parsing /\ doc # <<>> /\ Event.ev = ev
    /\ doc' = Tail(doc)
    /\ UNCHANGED <<job, phase, gen, ppc>>

StartElement ==
    /\ OneEvent("start")
    /\ openElems' = Append(openElems, Event.name)
    /\ pd' = Started(Event.name, Event.attrs)
    /\ got' = Begun(pd', Event.attrs)
\* A character that XML does not know ends the parser.
Characters ==
    /\ OneEvent("chars")
    /\ pd' = [Kept_(Event.text) EXCEPT !.err = "control" \in ToSet(Event.text)]
    /\ UNCHANGED <<openElems, got>>
EndElement ==
    /\ OneEvent("end")
    /\ openElems' = Front(openElems)
    /\ IF pd.depth # pd.statedepth THEN pd' = [pd EXCEPT !.depth = @ - 1] /\ UNCHANGED got
       ELSE /\ pd' = Ended
            /\ got' = IF Catalog THEN Finished
                      ELSE IF Delivers THEN Stored(Complete(pd.pkg)) ELSE got

\* The document is not quite what was written: it holds what the parser does not
\* know (an element that is not known there, or text that is not next to another), it
\* ends early, or a package is without attributes.
Edit(d, harm) ==
    /\ Parsing /\ doc # <<>> /\ openElems # <<>> /\ job.edits > 0
    /\ doc' = d
    /\ job' = [job EXCEPT !.edits = @ - 1, !.whole = @ /\ ~harm]
    /\ UNCHANGED <<openElems, phase, gen, ppc, pd, got>>
HasText(w) == \E i \in DOMAIN w : w[i].ev = "chars"
MoreInDocument ==
    \E w \in Unknown : /\ HasText(w) => ~pd.docontent
                       /\ \A row \in From(pd.state) :
                            pd.depth = pd.statedepth => row[2] # w[1].name
                       /\ Edit(w \o doc, FALSE)
CutShort == Edit(<<>>, TRUE)
WithoutAttributes ==
    /\ doc # <<>> /\ Event.ev = "start" /\ Event.name = "package"
    /\ Edit(<<[Event EXCEPT !.attrs = NoAttrs]>> \o Tail(doc), TRUE)

\* An error of a callback or in the document, or a document that ends early,
\* ends the load.
ParseFails ==
    /\ ppc = "parse"
    /\ pd.err \/ (doc = <<>> /\ openElems # <<>>)
    /\ ppc' = "failed"
    /\ UNCHANGED <<job, doc, openElems, phase, gen, pd, got>>

AtEnd == Parsing /\ doc = <<>> /\ openElems = <<>>
NextFile ==
    /\ AtEnd /\ Following(phase) # "end"
    /\ Begin(Following(phase), job.data)
    /\ UNCHANGED <<job, gen, ppc, got>>
\* What was loaded is written and loaded.
FirstLoaded == AtEnd /\ Following(phase) = "end" /\ gen = 1
NextGeneration ==
    /\ FirstLoaded
    /\ gen' = 2
    /\ job' = [job EXCEPT !.data = got, !.refused = {}, !.edits = 0]
    /\ Begin(First, got)
    /\ got' = Nothing
    /\ UNCHANGED ppc
Loaded ==
    /\ AtEnd /\ Following(phase) = "end" /\ gen = 2
    /\ ppc' = "loaded"
    /\ UNCHANGED <<job, doc, openElems, phase, gen, pd, got>>

ParserNext == StartElement \/ Characters \/ EndElement \/ MoreInDocument \/ CutShort
                \/ WithoutAttributes \/ ParseFails \/ NextFile \/ NextGeneration \/ Loaded
ParserSpec == ParserInit /\ [][ParserNext]_parserVars
-----------------------------------------------------------------------------
(* What is left of a package: empty and missing texts of elements are the  *)
(* same, those of attributes are empty; dependencies without name, files   *)
(* without name or path, versions without flags and pre where it means     *)
(* nothing are gone; and so are the digests of files.                      *)

Plain(t) == Unescape(Sax(Str(t)))
NormalDep(d, required) ==
    LET Versioned(t) == IF Empty(d.flags) \/ Empty(t) THEN Null ELSE Plain(t)
    IN [name |-> Plain(d.name), flags |-> IF Empty(d.flags) THEN Null ELSE d.flags,
        epoch |-> Versioned(d.epoch), ver |-> Versioned(d.ver), rel |-> Versioned(d.rel),
        pre |-> required /\ d.pre]
NormalDeps(deps, required) ==
    LET named == SelectSeq(deps, LAMBDA d : ~Empty(d.name))
    IN [i \in DOMAIN named |-> NormalDep(named[i], required)]
NormalFiles(p) ==
    LET shown == SelectSeq(p.files, LAMBDA f : f.path # Null /\ f.name # Null
                                                 /\ (~job.filelists => IsPrimary(f)))
    IN [i \in DOMAIN shown |->
          [shown[i] EXCEPT !.type = IF @ = <<"file">> THEN Null ELSE OrNull(@),
                           !.digest = Null]]
Normal(p) ==
    [p EXCEPT !.epoch = Plain(@), !.ver = Plain(@), !.rel = Plain(@), !.sumType = Plain(@),
              !.name = Str(@), !.arch = Str(@), !.summary = OrNull(@), !.license = OrNull(@),
              !.href = Plain(@), !.base = IF Empty(@) THEN Null ELSE Plain(PrependProtocol(@)),
              !.filesSum = IF job.ext /\ job.filelists THEN Plain(@) ELSE Null,
              !.provides = NormalDeps(@, FALSE), !.requires = NormalDeps(@, TRUE),
              !.files = NormalFiles(p),
              !.log = [i \in DOMAIN @ |-> [@[i] EXCEPT !.author = Plain(@), !.text = Str(@)]]]

NormalRecord(r) ==
    LET TypeOf(sum, type) == IF sum = Null THEN Null ELSE Plain(type)
    IN [r EXCEPT !.type = Plain(@), !.sum = Str(@), !.sumType = Plain(@), !.href = Plain(@),
                 !.openType = TypeOf(r.openSum, @), !.headerType = TypeOf(r.headerSum, @),
                 !.headerSize = IF r.headerSum = Null THEN Unknown_ ELSE @,
                 !.dbVer = IF IsDb(r.type) THEN @ ELSE <<"0">>]
NormalRepomd(d) ==
    [d EXCEPT !.revision = IF @ = Null THEN <<"now">> ELSE @,
              !.repoidType = IF d.repoid = Null THEN Null ELSE @,
              !.records = [i \in DOMAIN @ |-> NormalRecord(@[i])]]
NormalUpdate(u) ==
    LET Pkg(p) == [p EXCEPT !.filename = OrNull(@), !.sum = OrNull(@),
                            !.sumType = IF p.sum = Null THEN <<"Unknown checksum">> ELSE @]
        Col(c) == [c EXCEPT !.name = OrNull(@), !.pkgs = [i \in DOMAIN @ |-> Pkg(@[i])]]
    IN [u EXCEPT !.id = OrNull(@), !.cols = [i \in DOMAIN @ |-> Col(@[i])]]

PromisedPackages ==
    LET wanted == SelectSeq([i \in DOMAIN job.data |-> <<i, job.data[i]>>],
                            LAMBDA x : ~Forbidden(x[2]))
        kept == SelectSeq([i \in DOMAIN wanted |-> <<i, wanted[i][2]>>],
                          LAMBDA x : x[1] \notin job.refused)
    IN [i \in DOMAIN kept |-> Normal(kept[i][2])]

Promised ==
    CASE job.kind = "repomd" -> NormalRepomd(job.data)
      [] job.kind = "updateinfo" -> [i \in DOMAIN job.data |-> NormalUpdate(job.data[i])]
      [] OTHER -> PromisedPackages

\* Updates and repomds are handed out and taken as copies.
CopyOf(data) == IF job.kind = "repomd" THEN CopyRepomd(data)
                ELSE [i \in DOMAIN data |-> CopyUpdate(data[i])]

\* Every package that was written and that the callback wants comes back, in
\* order and as it was, whatever unknown elements stand around, and writing and
\* loading it once more, or copying it, changes nothing; but a copy of a repomd
\* has no revision and no id, and its tags and records in the opposite order.
RoundTrip ==
    /\ FirstLoaded /\ (job.kind = "updateinfo" => job.whole) => got = Promised
    /\ ppc = "failed" => ~job.whole \/ job.strict \/ job.interrupt > 0
SecondStable ==
    /\ ppc = "loaded" => got = job.data
    /\ FirstLoaded /\ job.kind = "updateinfo" => CopyOf(got) = got
    /\ FirstLoaded /\ job.kind = "repomd" =>
         CopyOf(CopyOf(got)) = [got EXCEPT !.revision = Null, !.repoid = Null, !.repoidType = Null]

\* The parser is where the document is: its depth is that of the document, and
\* its state is that of the innermost open element that it knows.
InStep ==
    Parsing =>
      /\ pd.depth = Len(openElems)
      /\ pd.statedepth <= pd.depth
      /\ pd.statedepth = 0 <=> pd.state = "START"
      /\ pd.statedepth > 0 =>
           \E row \in Table_ : row[2] = openElems[pd.statedepth]
                               /\ row[3] = IF pd.state = "FILELISTS_EXT" /\ row[2] = "filelists"
                                             THEN "FILELISTS" ELSE pd.state

\* What cr_xml_dump and its siblings write is parsed as it was, and what has
\* been parsed once is written and parsed again without a further change.
Preserved == RoundTrip /\ SecondStable
=============================================================================
