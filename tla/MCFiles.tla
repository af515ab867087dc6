--------------------------------- MODULE MCFiles ---------------------------------
(* Metadata files written (MetadataFiles), parsed (XmlParser) and loaded       *)
(* (LoadMetadata): one run checks each of the three, the others rest.          *)
EXTENDS MetadataFiles, MCLoadMetadata, MCXmlParser

VARIABLE which

FirstJob   == CHOOSE j \in Jobs : TRUE
FirstInput == CHOOSE i \in Inputs : TRUE
WriteFirst == flow = "xml" /\ codec = "none" /\ broken = {} /\ room = 0

FilesInit ==
    /\ which \in {"write", "parse", "load"}
    /\ which # "write" => WriteFirst
    /\ IF which = "parse" THEN ParserInit ELSE job = FirstJob /\ ParserInit
    /\ IF which = "load" THEN Init ELSE input = FirstInput /\ Init
    /\ MetaInit
FilesNext ==
    /\ UNCHANGED which
    /\ \/ which = "write" /\ MetaNext /\ UNCHANGED <<parserVars, vars>>
       \/ which = "parse" /\ ParserNext /\ UNCHANGED <<metaVars, vars>>
       \/ which = "load" /\ Next /\ UNCHANGED <<metaVars, parserVars>>
FilesSpec == FilesInit /\ [][FilesNext]_<<which, metaVars, parserVars, vars>>
=============================================================================
