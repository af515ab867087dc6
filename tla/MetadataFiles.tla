----------------------------- MODULE MetadataFiles -----------------------------
(***************************************************************************)
(* How createrepo_c makes the files that repomd.xml names, and the records *)
(* about them, for three kinds of metadata:                                *)
(*   - XML with a chunk for every package, closed, with a corrected header *)
(*     when packages were left out;                                        *)
(*   - a database, compressed after it was closed;                         *)
(*   - additional metadata (a group file, updateinfo), compressed already  *)
(*     or not, that get a record and, with --zck, a zchunk copy.           *)
(* The disk may fill up at every write.                                    *)
(***************************************************************************)
EXTENDS XmlFile

CONSTANTS
    NPackages,      \* packages 1..NPackages are tasks
    MaxRoom         \* blocks that fit on the disk, at most

ASSUME MetadataFilesAssumption ==
    /\ NPackages \in Nat /\ MaxRoom \in Nat
    /\ "primary.xml" \o ".tmp" # "primary.xml"

Packages == 1..NPackages

VARIABLES
    flow,           \* "xml", "database" or "additional"
    codec,          \* the compression asked for
    pc, left,       \* where main() is; the tasks still to come
    broken,         \* the packages that cannot be read
    hadErrors,      \* what has set exit_val to 2: a package, a write, a rewrite
    mdStat,         \* the cr_ContentStat of the XML file
    records,        \* the records of repomd.xml
    exit            \* exit_val; "running" before

metaVars == <<xmlVars, flow, codec, pc, left, broken, hadErrors,
              mdStat, records, exit>>

None == <<<<"none", 0>>>>       \* a checksum that was not computed

\* The checksum of a file: of an uncompressed one, that of its content.
FileSum(f) ==
    IF f.codec = "none" THEN f.content
    ELSE <<<<f.codec, 0>>>> \o f.content \o (IF f.whole THEN <<<<"end", 0>>>> ELSE <<>>)

\* What cr_repomd_record_fill finds out about the content of a compressed file.
OpenSum(name) == IF ReadableToEnd(name) THEN disk[name].content ELSE None

Status == IF hadErrors # {} THEN "2" ELSE "0"

XmlName == <<"primary.xml", codec>>
DbName  == <<"primary.sqlite", "none">>
DbFile  == <<"primary.sqlite", codec>>
MdName  == <<"comps.xml", codec>>
MdZck   == <<"comps.xml", "zck">>

Saved(c, bs) == [codec |-> c, content |-> bs, cuts |-> <<>>, whole |-> TRUE]
Data == <<Package(1), Package(2)>>

MetaInit ==
    /\ XmlInit
    /\ flow \in {"xml", "database", "additional"}
    /\ codec \in Codecs
    /\ flow = "database" => codec # "none"
    /\ broken \in SUBSET Packages
    /\ flow # "xml" => broken = {}
    /\ room \in 0..MaxRoom
    /\ left = [p \in Packages |-> p]
    /\ disk = CASE flow = "xml" -> <<>>
                [] flow = "database" -> [n \in {DbName} |-> Saved("none", Data)]
                [] flow = "additional" -> [n \in {MdName} |-> Saved(codec, Data)]
    /\ pc = CASE flow = "xml" -> "open" [] flow = "database" -> "compress"
              [] flow = "additional" -> "fill"
    /\ hadErrors = {} /\ mdStat = <<>> /\ records = <<>> /\ exit = "running"

To(p) == pc' = p
Same == UNCHANGED <<flow, codec, broken>>
Quiet == UNCHANGED <<left, hadErrors, records, exit>>
Exits(code) == exit' = code /\ To("end")

-----------------------------------------------------------------------------
(* XML: main() and the threads of the pool.                                *)

XmlStart ==
    /\ pc = "open"
    /\ XmlOpen(XmlName)
    /\ IF err' THEN Exits("1") ELSE To("number") /\ UNCHANGED exit
    /\ UNCHANGED <<rw, left, hadErrors, mdStat, records>> /\ Same
SetNumber ==
    /\ pc = "number"
    /\ SetNumOfPkgs(NPackages) /\ To("pool")
    /\ UNCHANGED <<fileVars, rw, mdStat>> /\ Same /\ Quiet

\* cr_dumper_thread: a package that cannot be read is left out; what cannot be
\* written is an error, and the next package is tried.
DumpHeader ==
    /\ pc = "pool" /\ left # <<>> /\ Head(left) \notin broken
    /\ WriteHeader
    /\ IF err' THEN left' = Tail(left) /\ hadErrors' = hadErrors \union {"write"}
               ELSE UNCHANGED <<left, hadErrors>>
    /\ UNCHANGED <<rw, pc, mdStat, records, exit>> /\ Same
DumpPackage ==
    /\ pc = "pool" /\ left # <<>> /\ Head(left) \notin broken
    /\ AddChunk(Package(Head(left)), codec = "zck")
    /\ left' = Tail(left)
    /\ hadErrors' = hadErrors \union (IF err' THEN {"write"} ELSE {})
    /\ UNCHANGED <<rw, pc, mdStat, records, exit>> /\ Same
DumpSkips ==
    /\ pc = "pool" /\ left # <<>> /\ Head(left) \in broken
    /\ left' = Tail(left) /\ hadErrors' = hadErrors \union {"package"}
    /\ UNCHANGED <<xmlVars, pc, mdStat, records, exit>> /\ Same

\* cr_xmlfile_close, and the exit if it fails.
OrExit(p) == IF err' THEN Exits("1") ELSE To(p) /\ UNCHANGED exit
CloseXml ==
    /\ pc = "pool" /\ left = <<>>
    /\ \/ WriteHeader /\ OrExit("pool")
       \/ WriteFooter /\ OrExit("pool")
       \/ XmlCloseFile /\ OrExit("count")
    /\ mdStat' = stat'
    /\ UNCHANGED <<rw, left, hadErrors, records>> /\ Same

\* The pool counts what it has read; with another number in the header the file
\* is rewritten.
Counted == NPackages - Cardinality(broken)
CheckCount ==
    /\ pc = "count"
    /\ IF Counted # NPackages
       THEN RewriteStarts(XmlName, NPackages, Counted) /\ To("rewrite")
       ELSE UNCHANGED rw /\ To("record")
    /\ UNCHANGED <<fileVars, xml, mdStat>> /\ Same /\ Quiet
RewriteStep == pc = "rewrite" /\ Rewrite /\ UNCHANGED <<pc, mdStat>> /\ Same /\ Quiet

Mutant_CheckRewrite ==
    /\ pc = "rewrite" /\ rw.pc \in {"done", "failed"}
    /\ hadErrors' = hadErrors \union (IF rw.pc = "failed" THEN {"rewrite"} ELSE {})
    /\ To("record")
    /\ UNCHANGED <<xmlVars, mdStat, left, records, exit>> /\ Same
\* error_check_and_set_content_stat: the statistics of the new file, or those
\* of the old one and exit status 2.
CheckRewrite ==
    /\ pc = "rewrite" /\ rw.pc \in {"done", "failed"}
    /\ mdStat' = IF rw.pc = "done" THEN stat ELSE mdStat
    /\ hadErrors' = hadErrors \union (IF rw.pc = "failed" THEN {"rewrite"} ELSE {})
    /\ To("record")
    /\ UNCHANGED <<xmlVars, left, records, exit>> /\ Same

\* cr_repomd_record_load_contentstat or its zchunk variant, then the fill task,
\* whose error nobody reads.
RecordXml ==
    /\ pc = "record"
    /\ records' = <<[name |-> XmlName, sum |-> FileSum(disk[XmlName]),
                     open |-> IF codec = "zck" THEN OpenSum(XmlName) ELSE mdStat,
                     hdr  |-> IF codec = "zck" THEN mdStat ELSE None]>>
    /\ Exits(Status)
    /\ UNCHANGED <<xmlVars, left, hadErrors, mdStat>> /\ Same

-----------------------------------------------------------------------------
(* Copying a file into a compressed one: cr_compress_file_with_stat for a  *)
(* database, cr_repomd_record_compress_and_fill for additional metadata.   *)

Source == IF flow = "database" THEN DbName ELSE MdName
Target == IF flow = "database" THEN DbFile ELSE MdZck

CompressOpens ==
    /\ pc = "compress" /\ open["in"] = Closed
    /\ OpenRead("in", Source, Detect(Source))
    /\ UNCHANGED <<xml, rw, pc, mdStat>> /\ Same /\ Quiet
CompressCreates ==
    /\ pc = "compress" /\ open["in"] # Closed
    /\ OpenWrite("out", Target, Suffix(Target))
    /\ To("read") /\ UNCHANGED <<xml, rw, mdStat>> /\ Same /\ Quiet
CompressReads ==
    /\ pc = "read"
    /\ Read("in", 1)
    /\ To(IF block' = <<>> THEN "closeold" ELSE "write")
    /\ UNCHANGED <<xml, rw, mdStat>> /\ Same /\ Quiet
\* A failed write ends the copy; with zchunk's own chunking the chunks are not
\* those of the XML.
CompressWrites ==
    /\ pc = "write"
    /\ Write("out", block, FALSE)
    /\ To(IF err' THEN "closeold" ELSE "read")
    /\ UNCHANGED <<xml, rw, mdStat>> /\ Same /\ Quiet
\* Both are closed without asking for an error.
CompressClosesOld ==
    /\ pc = "closeold"
    /\ open' = [open EXCEPT !["in"] = Closed]
    /\ To("closenew")
    /\ UNCHANGED <<disk, room, block, err, stat, xml, rw, mdStat>> /\ Same /\ Quiet

\* The task's error, if any, is never read: the record is made of whatever
\* there is, and the exit status does not tell.
RecordDatabase ==
    /\ pc = "closenew" /\ flow = "database"
    /\ \E seen \in BOOLEAN : CloseWritten("out", seen)
    /\ records' = <<[name |-> DbFile, sum |-> FileSum(disk'[DbFile]),
                     open |-> stat', hdr |-> None]>>
    /\ Exits(Status)
    /\ UNCHANGED <<err, xml, rw, left, hadErrors, mdStat>> /\ Same

\* cr_create_repomd_records_for_additional_metadata
RecordAdditional ==
    /\ pc = "fill"
    /\ records' = <<[name |-> MdName, sum |-> FileSum(disk[MdName]),
                     open |-> IF codec = "none" THEN None ELSE OpenSum(MdName),
                     hdr  |-> IF codec = "zck" THEN disk[MdName].content ELSE None]>>
    /\ \/ codec # "zck" /\ To("compress") /\ UNCHANGED exit
       \/ Exits(Status)
    /\ UNCHANGED <<xmlVars, left, hadErrors, mdStat>> /\ Same

\* The results of compress_and_fill: the checksum of the file that was copied
\* is the open checksum of the new one, and the first record loses its own.
RecordZchunk ==
    /\ pc = "closenew" /\ flow = "additional"
    /\ \E seen \in BOOLEAN :
        /\ CloseWritten("out", seen)
        /\ IF err \/ seen THEN Exits("1") /\ UNCHANGED records
           ELSE /\ records' =
                    <<[name |-> MdName, sum |-> FileSum(disk[MdName]),
                       open |-> None, hdr |-> None],
                      [name |-> MdZck, sum |-> FileSum(disk'[MdZck]),
                       open |-> FileSum(disk[MdName]), hdr |-> stat']>>
                /\ Exits(Status)
    /\ UNCHANGED <<err, xml, rw, left, hadErrors, mdStat>> /\ Same

MetaNext ==
    \/ XmlStart \/ SetNumber \/ DumpHeader \/ DumpPackage \/ DumpSkips \/ CloseXml
    \/ CheckCount \/ RewriteStep \/ CheckRewrite \/ RecordXml
    \/ CompressOpens \/ CompressCreates \/ CompressReads \/ CompressWrites
    \/ CompressClosesOld
    \/ RecordDatabase \/ RecordAdditional \/ RecordZchunk

MetaSpec == MetaInit /\ [][MetaNext]_metaVars

-----------------------------------------------------------------------------
WrittenTo[n \in 0..NPackages] ==
    IF n = 0 THEN <<>>
    ELSE IF n \in broken THEN WrittenTo[n - 1] ELSE Append(WrittenTo[n - 1], Package(n))
Written == WrittenTo[NPackages]
WholeXml == <<Header(Counted)>> \o Written \o <<Footer>>

Published == flow = "xml" /\ exit \in {"0", "2"} /\ hadErrors \subseteq {"package"}

\* When the XML is published and no error but of broken packages was reported,
\* the file is whole: the corrected header, the readable packages in order and
\* the footer, once each - unless the codec is one whose last fclose nobody
\* looks at.
StatusTells ==
    Published /\ codec \notin Blind
        => disk[XmlName].whole /\ disk[XmlName].content = WholeXml

\* A record of a whole file says what is in it: its own checksum, and those of
\* the content and of the zchunk header where it gives them.  Not among them
\* is the zchunk copy of metadata that were compressed already.
Describes(r) ==
    disk[r.name].whole =>
        /\ r.sum = FileSum(disk[r.name])
        /\ r.open \in {None, disk[r.name].content}
        /\ r.hdr  \in {None, disk[r.name].content}
RecordsDescribe ==
    ~(flow = "additional" /\ codec # "none") => \A i \in DOMAIN records : Describes(records[i])

\* The file that is rewritten stays whole until a whole one replaces it.
OldUntilNew ==
    [][(pc = "rewrite" /\ disk[XmlName].whole /\ codec \notin Blind)
         => disk'[XmlName].whole]_metaVars

\* In the zchunk file every package has a chunk of its own, the header having
\* one as well until it is rewritten into the chunk that follows it.
ChunkEnds(k) == [i \in 1..Len(WholeXml) - k |-> i + k]
ChunksApart ==
    Published /\ codec = "zck"
        => disk[XmlName].cuts = ChunkEnds(IF Counted = NPackages THEN 0 ELSE 1)

\* A record made by cr_repomd_record_fill has the checksums and sizes of its
\* file, also after the header has been rewritten, and a zchunk file is cut at
\* each package.
FilesDescribed == RecordsDescribe /\ ChunksApart
=============================================================================
