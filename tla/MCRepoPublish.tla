---------------------------- MODULE MCRepoPublish ----------------------------
(* Instances of RepoPublish for TLC.                                       *)
EXTENDS RepoPublish

CONSTANTS p1, p2, p3

MCProcs   == {p1, p2, p3}
MCTwo     == {p1, p2}
MCForcing == {p3}
=============================================================================
