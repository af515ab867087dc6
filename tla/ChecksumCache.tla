---------------------------- MODULE ChecksumCache ----------------------------
(***************************************************************************)
(* The directory of cached checksums of createrepo_c --cachedir            *)
(* (get_checksum, dumper_thread.c), shared by the threads of several       *)
(* createrepo_c, whatever repositories they read.  Nothing locks it: an    *)
(* entry is looked up, missed, computed, tested for again, written beside  *)
(* and renamed into place, and any other reader may act in between.        *)
(*                                                                         *)
(* A reader is a thread of any of them.                                   *)
(*                                                                         *)
(* A file of a package is the version it holds.  Two versions differ in    *)
(* their headers, their signatures, their size or their time, so that the  *)
(* name of an entry tells them apart.                                      *)
(***************************************************************************)
EXTENDS Naturals

CONSTANTS
    Readers,
    Paths,          \* the files of packages
    Base,           \* their names without the directory
    Versions,
    Types,          \* of checksums
    NoChecksum,     \* load_rpm failed
    MaxCalls,       \* bound: calls of load_rpm
    MaxChanges,     \* bound: files that are replaced
    MaxFaults       \* bound: steps that fail, and kills

ASSUME CacheAssumption ==
    /\ DOMAIN Base = Paths
    /\ Paths # {} /\ Versions # {} /\ Types # {}
    /\ {MaxCalls, MaxChanges, MaxFaults} \subseteq Nat

VARIABLES
    content,        \* [Paths -> Versions]
    cache,          \* name of an entry -> what the file holds
    at, path, version, type,    \* of each reader: what it was asked for
    result,         \* of each reader: the checksum it has
    temp,           \* of each reader: what its temporary file holds
    spoiled,        \* names whose entry a fault may have damaged
    calls, changes, faults

readerVars == <<at, path, version, type, result, temp>>
bounds == <<calls, changes, faults>>
cacheVars == <<content, cache, readerVars, spoiled, bounds>>

Checksum(v, t) == [version |-> v, type |-> t, part |-> "whole"]

\* The checksums of the signatures and the header, the size and the time are
\* part of the name; the length of the digest is that of the type.
Mutant_Key(b, v, t) == [base |-> b, version |-> CHOOSE u \in Versions : TRUE,
                        type |-> t]
Key(b, v, t) == [base |-> b, version |-> v, type |-> t]

MyKey(w) == Key(Base[path[w]], version[w], type[w])

CacheInit ==
    /\ content \in [Paths -> Versions]
    /\ cache = [k \in {} |-> NoChecksum]
    /\ at = [w \in Readers |-> "idle"]
    /\ path = [w \in Readers |-> CHOOSE p \in Paths : TRUE]
    /\ version = [w \in Readers |-> CHOOSE v \in Versions : TRUE]
    /\ type = [w \in Readers |-> CHOOSE t \in Types : TRUE]
    /\ result = [w \in Readers |-> NoChecksum]
    /\ temp = [w \in Readers |-> "none"]
    /\ spoiled = {}
    /\ calls = 0 /\ changes = 0 /\ faults = 0

\* The cache with a file of this name that holds e.
Put(k, e) ==
    [j \in DOMAIN cache \union {k} |-> IF j = k THEN e ELSE cache[j]]

Goto(w, l) == at' = [at EXCEPT ![w] = l]
Fault == faults < MaxFaults /\ faults' = faults + 1

-----------------------------------------------------------------------------
(* load_rpm: the header is read and the file stat'ed, and then the         *)
(* checksum is asked for.                                                  *)

LoadRpm(w) ==
    /\ at[w] \in {"idle", "done"}
    /\ calls < MaxCalls
    /\ calls' = calls + 1
    /\ \E p \in Paths, t \in Types :
          /\ path' = [path EXCEPT ![w] = p]
          /\ version' = [version EXCEPT ![w] = content[p]]
          /\ type' = [type EXCEPT ![w] = t]
    /\ result' = [result EXCEPT ![w] = NoChecksum]
    /\ Goto(w, "lookup")
    /\ UNCHANGED <<content, cache, temp, spoiled, changes, faults>>

\* An entry that is empty is no entry, but is in the way of another.
Usable(k) == k \in DOMAIN cache /\ cache[k].part # "empty"

FindEntry(w) ==
    /\ at[w] = "lookup"
    /\ IF Usable(MyKey(w))
         THEN /\ result' = [result EXCEPT ![w] = cache[MyKey(w)]]
              /\ Goto(w, "done")
         ELSE Goto(w, "calculate") /\ UNCHANGED result
    /\ UNCHANGED <<content, cache, path, version, type, temp, spoiled, bounds>>

\* The file is read as it now is.
Calculate(w) ==
    /\ at[w] = "calculate"
    /\ result' = [result EXCEPT ![w] = Checksum(content[path[w]], type[w])]
    /\ Goto(w, "test")
    /\ UNCHANGED <<content, cache, path, version, type, temp, spoiled, bounds>>

CalculateFails(w) ==
    /\ at[w] = "calculate"
    /\ Fault
    /\ Goto(w, "done")
    /\ UNCHANGED <<content, cache, path, version, type, result, temp, spoiled,
                   calls, changes>>

-----------------------------------------------------------------------------
(* The new entry.                                                          *)

TestEntry(w) ==
    /\ at[w] = "test"
    /\ Goto(w, IF MyKey(w) \in DOMAIN cache THEN "done" ELSE "store")
    /\ UNCHANGED <<content, cache, path, version, type, result, temp, spoiled,
                   bounds>>

MakeTemp(w) ==
    /\ at[w] = "store"
    /\ temp' = [temp EXCEPT ![w] = "empty"]
    /\ Goto(w, "write")
    /\ UNCHANGED <<content, cache, path, version, type, result, spoiled,
                   bounds>>

\* The package keeps its checksum.
MakeTempFails(w) ==
    /\ at[w] = "store"
    /\ Fault
    /\ Goto(w, "done")
    /\ UNCHANGED <<content, cache, path, version, type, result, temp, spoiled,
                   calls, changes>>

Write(w) ==
    /\ at[w] = "write"
    /\ temp' = [temp EXCEPT ![w] = "whole"]
    /\ Goto(w, "move")
    /\ UNCHANGED <<content, cache, path, version, type, result, spoiled,
                   bounds>>

\* write() wrote nothing, or less than it was given: nobody looks.
WriteFails(w) ==
    /\ at[w] = "write"
    /\ Fault
    /\ \E part \in {"empty", "cut"} : temp' = [temp EXCEPT ![w] = part]
    /\ Goto(w, "move")
    /\ UNCHANGED <<content, cache, path, version, type, result, spoiled, calls,
                   changes>>

\* The entry is replaced, be there one by now.
Move(w) ==
    /\ at[w] = "move"
    /\ cache' = Put(MyKey(w), [result[w] EXCEPT !.part = temp[w]])
    /\ spoiled' = spoiled \union (IF temp[w] = "whole" THEN {} ELSE {MyKey(w)})
    /\ temp' = [temp EXCEPT ![w] = "none"]
    /\ Goto(w, "done")
    /\ UNCHANGED <<content, path, version, type, result, bounds>>

\* get_checksum returns the checksum and sets the error, which load_rpm finds
\* after its next call: the package is lost.
MoveFails(w) ==
    /\ at[w] = "move"
    /\ Fault
    /\ temp' = [temp EXCEPT ![w] = "none"]
    /\ result' = [result EXCEPT ![w] = NoChecksum]
    /\ Goto(w, "done")
    /\ UNCHANGED <<content, cache, path, version, type, spoiled, calls,
                   changes>>

-----------------------------------------------------------------------------
(* Around it.                                                              *)

\* The process ends: its temporary file stays, under a name nobody looks up.
KillReader(w) ==
    /\ at[w] \notin {"idle", "done"}
    /\ Fault
    /\ temp' = [temp EXCEPT ![w] = "none"]
    /\ result' = [result EXCEPT ![w] = NoChecksum]
    /\ Goto(w, "idle")
    /\ UNCHANGED <<content, cache, path, version, type, spoiled, calls,
                   changes>>

\* A package is replaced.  A reader that has read its header and not yet its
\* contents computes the checksum of another version than it names.
Replace(p) ==
    /\ changes < MaxChanges
    /\ changes' = changes + 1
    /\ \E v \in Versions \ {content[p]} : content' = [content EXCEPT ![p] = v]
    /\ spoiled' = spoiled \union
          {MyKey(w) : w \in {r \in Readers :
              path[r] = p /\ at[r] \in {"lookup", "calculate"}}}
    /\ UNCHANGED <<cache, readerVars, calls, faults>>

ReaderStep(w) ==
    \/ LoadRpm(w) \/ FindEntry(w) \/ Calculate(w) \/ CalculateFails(w)
    \/ TestEntry(w) \/ MakeTemp(w) \/ MakeTempFails(w)
    \/ Write(w) \/ WriteFails(w) \/ Move(w) \/ MoveFails(w)

CacheNext ==
    \/ \E w \in Readers : ReaderStep(w) \/ KillReader(w)
    \/ \E p \in Paths : Replace(p)

CacheSpec == CacheInit /\ [][CacheNext]_cacheVars

-----------------------------------------------------------------------------
(* Properties.                                                             *)

EntryContents == [version : Versions, type : Types,
             part : {"empty", "cut", "whole"}]

Labels == {"idle", "lookup", "calculate", "test", "store", "write", "move",
           "done"}
Keys == [base : {Base[p] : p \in Paths}, version : Versions, type : Types]

\* Whatever a file of the cache holds, it is a part of some checksum, and a
\* reader that stores one has it.
TypeOK ==
    /\ content \in [Paths -> Versions]
    /\ DOMAIN cache \subseteq Keys
    /\ \A k \in DOMAIN cache : cache[k] \in EntryContents
    /\ at \in [Readers -> Labels]
    /\ path \in [Readers -> Paths]
    /\ version \in [Readers -> Versions]
    /\ type \in [Readers -> Types]
    /\ result \in [Readers -> EntryContents \union {NoChecksum}]
    /\ temp \in [Readers -> {"none", "empty", "cut", "whole"}]
    /\ \A w \in Readers :
          /\ at[w] \in {"test", "store", "write", "move"}
                => result[w] \in EntryContents
          /\ at[w] = "move" => temp[w] # "none"

\* The checksum of a package is that of the file its header was read from,
\* whichever run, of whichever repository, cached it (get_checksum); only a
\* write that was cut short, or a package replaced under the eyes of a reader,
\* misleads later calls, and those about that name alone.
ChecksumsRight ==
    \A w \in Readers :
        \/ at[w] # "done" \/ result[w] = NoChecksum
        \/ MyKey(w) \in spoiled
        \/ result[w] = Checksum(version[w], type[w])

EntryRight(k) ==
    k \in DOMAIN cache /\ cache[k] = Checksum(k.version, k.type)

\* A right entry stays right and in place, although the reader that tested
\* for it renames its own over it later, and is killed in between.
EntriesStay ==
    [][\A k \in DOMAIN cache :
          EntryRight(k) /\ k \notin spoiled' => EntryRight(k)']_cacheVars
=============================================================================
