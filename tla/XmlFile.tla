-------------------------------- MODULE XmlFile --------------------------------
(***************************************************************************)
(* cr_XmlFile: a file of metadata with a header that declares the number   *)
(* of packages, chunks of XML and a footer, each of which is written once  *)
(* and in this order; and cr_rewrite_header_package_count, which copies    *)
(* such a file to correct the number in its header.                        *)
(***************************************************************************)
EXTENDS CompressedFile

VARIABLES
    xml,            \* the cr_XmlFile that is being written
    rw              \* the call of cr_rewrite_header_package_count

xmlVars == <<fileVars, xml, rw>>

Header(n)  == <<"header", n>>
Package(p) == <<"package", p>>
Footer     == <<"footer", 0>>

NoXml == [header |-> FALSE, footer |-> FALSE, pkgs |-> 0]
Idle  == [pc |-> "idle", name |-> <<"", "none">>, declared |-> 0, actual |-> 0]
XmlInit == FileInit /\ xml = NoXml /\ rw = Idle

-----------------------------------------------------------------------------
(* Writing a file of metadata.                                             *)

\* cr_xmlfile_sopen never writes over a file.
XmlOpen(name) ==
    /\ IF Exists(name) THEN OpenFails ELSE OpenWrite("out", name, Suffix(name))
    /\ xml' = NoXml

SetNumOfPkgs(n) == xml' = [xml EXCEPT !.pkgs = IF xml.header THEN @ ELSE n]

\* The number is printed when the header is written, and the chunk ends there.
WriteHeader ==
    /\ ~xml.header
    /\ Printf("out", Header(xml.pkgs), TRUE)
    /\ xml' = [xml EXCEPT !.header = ~err']

AddChunk(b, ends) ==
    /\ xml.header /\ ~xml.footer
    /\ Puts("out", b, ends)
    /\ UNCHANGED xml

WriteFooter ==
    /\ xml.header /\ ~xml.footer
    /\ Puts("out", Footer, FALSE)
    /\ xml' = [xml EXCEPT !.footer = ~err']

\* cr_xmlfile_close gives up, and leaves the CR_FILE as it is, when header or
\* footer cannot be written.
XmlCloseFile ==
    /\ xml.header /\ xml.footer
    /\ \E seen \in BOOLEAN : CloseWritten("out", seen) /\ err' = seen
    /\ UNCHANGED xml

-----------------------------------------------------------------------------
(* Rewriting the header.                                                   *)

Tmp(name) == <<name[1] \o ".tmp", name[2]>>
IsZck == Suffix(rw.name) = "zck"

Goto(pc) == rw' = [rw EXCEPT !.pc = pc]

Mutant_OrFail(pc) == Goto(pc)
\* Every failure leaves the original where it is; both files are closed on the
\* way out, which changes nothing but what is in the new one.
OrFail(pc) == IF err' THEN Goto("failed") ELSE Goto(pc)

RewriteStarts(name, declared, actual) ==
    /\ rw' = [pc |-> "open", name |-> name, declared |-> declared, actual |-> actual]

RewriteOpenOld ==
    /\ rw.pc = "open"
    /\ OpenRead("in", rw.name, Detect(rw.name))
    /\ UNCHANGED xml /\ OrFail("create")

RewriteOpenNew ==
    /\ rw.pc = "create"
    /\ XmlOpen(Tmp(rw.name)) /\ OrFail("header")

\* The first block that is read: XML_MAX_HEADER_SIZE bytes hold the header
\* and the beginning of what follows it, the first chunk the header alone.
RewriteReadHeader ==
    /\ rw.pc = "header"
    /\ IF IsZck THEN ReadZchunk("in") ELSE \E n \in 1..2 : Read("in", n)
    /\ UNCHANGED xml /\ OrFail("modify")

Mutant_Modified(bs) ==
    IF Header(rw.declared) \in ToSet(bs) THEN <<Header(rw.actual)>> ELSE <<>>
\* write_modified_header: nothing is written when the number is not found.
\* The chunk does not end here.
Modified(bs) ==
    IF Header(rw.declared) \in ToSet(bs)
    THEN [i \in DOMAIN bs |-> IF bs[i] = Header(rw.declared)
                              THEN Header(rw.actual) ELSE bs[i]]
    ELSE <<>>
RewriteHeader ==
    /\ rw.pc = "modify"
    /\ Write("out", Modified(block), FALSE)
    /\ UNCHANGED xml
    /\ OrFail(IF block = <<>> THEN "closenew" ELSE "read")

RewriteRead ==
    /\ rw.pc = "read"
    /\ IF IsZck THEN ReadZchunk("in") ELSE \E n \in 1..2 : Read("in", n)
    /\ UNCHANGED xml /\ OrFail("write")

\* Chunk by chunk, or block by block; the loop ends after an empty one.
RewriteWrite ==
    /\ rw.pc = "write"
    /\ Write("out", block, IsZck)
    /\ UNCHANGED xml
    /\ OrFail(IF block = <<>> THEN "closenew" ELSE "read")

\* Header and footer were copied: cr_xmlfile_close must not add another one.
RewriteCloseNew ==
    /\ rw.pc = "closenew"
    /\ xml' = [xml EXCEPT !.header = TRUE, !.footer = TRUE]
    /\ \E seen \in BOOLEAN : CloseWritten("out", seen) /\ err' = seen
    /\ OrFail("closeold")

RewriteCloseOld ==
    /\ rw.pc = "closeold"
    /\ CloseRead("in")
    /\ UNCHANGED xml /\ OrFail("move")

\* cr_move_recursive within one directory is a rename.
RewriteMove ==
    /\ rw.pc = "move"
    /\ disk' = [n \in DOMAIN disk \ {Tmp(rw.name)} |->
                   IF n = rw.name THEN disk[Tmp(rw.name)] ELSE disk[n]]
    /\ room' = room + Len(disk[rw.name].content)
    /\ Goto("done")
    /\ UNCHANGED <<open, block, err, stat, xml>>

Rewrite ==
    \/ RewriteOpenOld \/ RewriteOpenNew \/ RewriteReadHeader \/ RewriteHeader
    \/ RewriteRead \/ RewriteWrite \/ RewriteCloseNew \/ RewriteCloseOld
    \/ RewriteMove
=============================================================================
