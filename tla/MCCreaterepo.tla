------------------------------- MODULE MCCreaterepo -------------------------------
(* Four parts of createrepo_c: the cache of checksums (ChecksumCache), the     *)
(* delayed dump (DelayedDump), the publication (RepoPublish) and the retention *)
(* of old metadata (Retention).  One run checks each of the four, the others   *)
(* rest.                                                                       *)
EXTENDS MCDelayedDump, MCRepoPublish, MCRetention, ChecksumCache

CONSTANTS r1, r2, rpm1, rpm2, old1, new1, sha1, sha256
VARIABLE part

\* Two packages of the same name in different directories, which may be the
\* same version.
MCReaders == {r1, r2}
MCPaths == {rpm1, rpm2}
MCBase == [p \in MCPaths |-> "pkg.rpm"]
MCVersions == {old1, new1}
MCTypes == {sha1, sha256}

otherVars == <<publishVars, retentionVars, cacheVars>>

CreaterepoInit ==
    /\ part \in {"cache", "dump", "publish", "retain"}
    /\ Init /\ PublishInit /\ RetentionInit /\ CacheInit
    /\ part # "publish" => lockDir = Absent /\ repodata = Absent
    /\ part # "retain" => DOMAIN old = {}
    /\ part # "cache" => \A p \in Paths : content[p] = old1

CreaterepoNext ==
    /\ UNCHANGED part
    /\ \/ part = "dump" /\ Next /\ UNCHANGED otherVars
       \/ part = "publish" /\ PublishNext
             /\ UNCHANGED <<vars, retentionVars, cacheVars>>
       \/ part = "retain" /\ (RetentionNext \/ (run = MaxRuns /\ UNCHANGED retentionVars))
             /\ UNCHANGED <<vars, publishVars, cacheVars>>
       \/ part = "cache" /\ (CacheNext \/ (calls = MaxCalls /\ UNCHANGED cacheVars))
             /\ UNCHANGED <<vars, publishVars, retentionVars>>

CreaterepoSpec ==
    CreaterepoInit /\ [][CreaterepoNext]_<<part, vars, otherVars>>
=============================================================================
