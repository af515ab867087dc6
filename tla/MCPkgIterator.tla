---------------------------- MODULE MCPkgIterator ----------------------------
(* An instance of PkgIterator for TLC.                                     *)
EXTENDS PkgIterator

CONSTANTS a, b, c

\* Equal, permuted, shortened, repeated.
MCPrimaries == {<<>>, <<a>>, <<a, a>>, <<a, b, c>>}
MCOthers == {<<>>, <<a>>, <<b>>, <<a, a>>, <<b, a>>, <<a, b, c>>, <<a, c, b>>}

MCContents ==
    {[f \in Files |-> CASE f = "primary" -> x [] f = "filelists" -> y [] OTHER -> z] :
       x \in MCPrimaries, y \in MCOthers, z \in MCOthers}

\* Without newpkgcb, and with one that leaves out the first or the second.
MCInputs ==
    {[content |-> x, read |-> r, callback |-> w # PkgIds, wanted |-> w] :
       x \in MCContents,
       r \in {{"filelists", "other"}, {"filelists"}, {}},
       w \in {PkgIds, {b, c}, {a, c}}}
=============================================================================
