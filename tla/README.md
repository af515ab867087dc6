# createrepo_c in TLA+

This directory holds a verification development of createrepo_c: TLA+ modules
of the parts of the program whose correctness depends on the order in which
threads, processes and failures happen, or on a state that lives across
functions and runs; TLC configurations that check them on small instances; and
TLAPS proofs of results that hold for every instance. Line numbers are those of
the sources under `src/`.

## 1. The system

| Component | State it keeps | Operations | What makes it hard |
|---|---|---|---|
| Dumper pool (`dumper_thread.c`) | per-file counters `id_pri`.. and condition variables, sorted buffer, `package_count`, `had_errors`, current/previous source rpm | `cr_dumper_thread`, `write_pkg`, `wait_for_incremented_ids` | many workers, four ordered critical sections per package, a bounded buffer shared under another mutex than the counter it is tested against, errors anywhere |
| Delayed dump (`dumper_thread.c`, `createrepo_c.c`) | `delayed_write`, `nevra_table`, `skip_dump`, old metadata | collecting, `buildtimesort`, `handle_nevra_duplicates`, `cr_delayed_dump_run` | the result must not depend on the order of arrival; one item that fails must not stop the rest |
| Publication (`createrepo_c.c`, `createrepo_shared.c`) | `.repodata/` (lock and work place), `repodata/`, `repodata.old.*`, the paths of the exit handler, the signal mask | `cr_lock_repo`, `cr_set_cleanup_handler`, `exit_cleanup`, the final renames | several processes, signals, SIGKILL, `--ignore-lock` |
| An update (`createrepo_c.c`, `repomd.c`, `locate_metadata.c`) | the old `repomd.xml`, the list of additional metadata, the new records, `.repodata/` | `load_old_metadata`, `cr_parse_repomd`, filling, renaming, `cr_repomd_compare`, publishing | what was true of the old repository when it was looked at is used much later; run after run nothing may be lost or pile up |
| Metadata files (`xml_file.c`, `compression_wrapper.c`, `threads.c`, `repomd.c`, `misc.c`) | open files, buffers of the codec and of stdio, content statistics, header counts, records | `cr_xmlfile_*`, `cr_rewrite_header_package_count`, `cr_compress_file_with_stat`, `cr_repomd_record_fill` | a disk that fills up is noticed late or not at all; a rewriting replaces a file; statistics of an older content |
| Retention (`helpers.c`) | lists of old files | `cr_old_metadata_retention` and its exclude lists | which files survive several runs; equal and missing times |
| Delta rpms (`deltarpms.c`) | active work size, running tasks, one condition variable, the table of `newpackage` elements | `cr_deltarpms_parallel_deltas`, `cr_delta_thread`, `cr_deltarpms_generate_prestodelta_file`, `cr_prestodelta_thread` | two limits at once, wakeups, decisions on stale copies |
| Loading (`load_metadata.c`) | the table of a load by pkgId, ignored pkgIds and keys, the caller's table, duplicate action, wanted packages | `primary_pkgcb`, `newpkgcb`, `cr_metadata_load_xml` | two kinds of duplicates, second and third occurrences, the order of a hash table, several repositories |
| Package iterator (`xml_parser_main_metadata_together.c`) | packages in progress, a count per file, the queue of finished packages | `cr_PkgIterator_parse_next`, the callbacks of three parsers, `cr_PkgIterator_free` | three files read in chunks that end anywhere, packages that are skipped or out of order |
| Parsers and generation (`xml_parser*.c`, `xml_dump*.c`, `updateinfo.c`) | state, depth and the record being filled | element handlers over tables of states; dumping | unknown and misplaced elements, callbacks that refuse or interrupt, what is written must be read back |
| modifyrepo (`modifyrepo_shared.c`) | the repository's files and `repomd.xml` | `cr_modifyrepo` | order of writing and deleting, crashes between |
| sqliterepo (`sqliterepo_c.c`) | databases beside a repository | `generate_sqlite_from_xml`, `move_results` | several files moved one by one |
| mergerepo (`mergerepo_c.c`, `koji.c`) | merged table, koji filter, output directory | `add_package`, `merge_repos`, `dump_merged_metadata` | which package wins must be well defined; who owns a package; the old repository goes before the new one is there |
| Checksum cache (`dumper_thread.c`, `checksum.c`) | the files of `--cachedir` | `load_rpm`, `get_checksum` | shared by threads and runs without a lock; what a fault leaves is read by every later run |
| sqlite, rpm headers, Python bindings | little or none across calls | pure functions, I/O of one thread | not modelled, see section 7 |

`main()` of createrepo_c locks the output directory, loads the old metadata
under `--update`, pushes one task per rpm file (sorted by name, so the id of a
task is its place in the output), starts the workers, waits for the pool,
resolves duplicates, runs the delayed dump if there is one, corrects the
headers, fills the repomd records in further pools, makes deltas, writes
`repomd.xml`, compares it with the old one and publishes the directory. The
workers share `struct UserData`; processes share only the file system.
mergerepo_c and sqliterepo_c work in the same `.repodata/`; modifyrepo_c changes
`repodata/` in place and takes no lock.

## 2. Modules

| Module | Models | Kind |
|---|---|---|
| `OrderedDump` | what dumping promises: every file receives the packages in the order of their ids | abstract specification |
| `DumperThread` | the pool in the default mode | detailed specification, implements `OrderedDump` |
| `DumperThreadProofs` | inductive invariant, safety theorems and refinement of `DumperThread` | proofs |
| `ChecksumCache` | the directory of cached checksums | detailed specification |
| `DelayedDump` | `--duplicated-nevra=keep-last` with `--update` | detailed specification |
| `DelayedDumpProofs` | inductive invariant and safety theorems of `DelayedDump` | proofs |
| `RepoPublish` | processes, lock, exit handler and renames | detailed specification |
| `Retention` | exclude lists and successive runs that keep old metadata | detailed specification |
| `CreaterepoProofs` | inductive invariants and theorems of `ChecksumCache`, `RepoPublish` and `Retention` | proofs |
| `UpdateRun` | successive updates of one directory; extends `RepoDir` | detailed specification |
| `CompressedFile` < `XmlFile` < `MetadataFiles` | a `CR_FILE`; an XML file and its rewriting; the files and records of a run. Each extends the one before | layers of one specification |
| `DeltaRpms` < `PrestoDelta` | the scheduler of `cr_deltarpms_parallel_deltas`; the whole stage of `--deltas` | detailed specification, composition |
| `DeltaRpmsProofs` | inductive invariants and safety theorems of the two | proofs |
| `LoadMetadata` | several repositories loaded into one table | detailed specification |
| `FilesProofs` | inductive invariants and theorems of `LoadMetadata` and `MetadataFiles` | proofs |
| `PkgIterator` | the iterator over packages | detailed specification |
| `PkgIteratorProofs` | inductive invariant and safety theorems of `PkgIterator` | proofs |
| `XmlDump` < `XmlCatalogs` < `XmlParser` | XML of packages; repomd and updateinfo, both directions; the parsers over both | operators, detailed specification |
| `RepoDir` | a directory of metadata and its records | shared state and operators |
| `ModifyRepo`, `SqliteRepo` < `RepoTools` | the two tools, one after the other on one directory | detailed specifications, composition |
| `RepoToolsProofs` | inductive invariants and safety theorems of `RepoTools` | proofs |
| `MergeRepo`, `MergeDump` | the choice of packages; writing and publishing | detailed specifications |
| `MergeProofs` | inductive invariants and theorems of the two | proofs |
| `MC...` | values of the constants for TLC; `MCCreaterepo`, `MCFiles` and `MCMerge` put parts that share a run side by side | instances |

The definitions called `Mutant_...` are plausible bugs: none of the
specifications uses them. Each has the parameters of the definition after it,
and put in its place it breaks a property; that is how we know that a property
says something about the code (`PROJECT.json` lists the pairs).

### DumperThread

| Model | Code |
|---|---|
| `next` | head of the FIFO queue of the `GThreadPool`; `fill_pool` pushes in the order of the ids |
| `pc[w]` | `load`: up to the generation of XML; `check`, `insert`: buffering under `mutex_buffer` (742-771); `acquire`, `waiting`, `critical`: one file of `write_pkg` (writing) or `wait_for_incremented_ids` (not writing); `cleanup`: 781-791; `drain`: 793-813 |
| `id`, `buffer`, `curSrpm`, `packageCount`, `hadErrors` | the fields of `struct UserData`; `prev_srpm` is only ever the old value of `cur_srpm` |
| `fate` | what reading the package came to |
| `written`, `chunkEnds`, `lost` | what each file received, where its zchunk was cut, which chunks or database records could not be added |
| `mainPc`, `header`, `exitVal` | `main()` after the pool |

A critical section is two steps, `Enter` (the counter moves on, as in the
code, before the chunk is added) and `Leave` (the chunk, the database record,
the broadcast). `id[Pri]` is read outside `mutex_pri` by `BufferCheck`,
`Cleanup` and `Drain`, as in the code. `g_cond_wait` may return spuriously.

### DelayedDump

The workers collect packages (`source`, `nevraTable`, `oldMd` are `dtask->pkg`,
`nevra_table` and the table of old records); `main()` then resolves duplicates
and dumps alone, so the four counters move together and are one (`id`). The
turn of an item is not waited for by anybody else: a step whose turn it is not
is simply not enabled, which is the wait on the condition variable.

### ChecksumCache

| Model | Code |
|---|---|
| `content`, `cache` | the version each file of a package holds; the files of the cache directory by what their names are made of |
| `path`, `version`, `type` | of each reader: the arguments of `load_rpm` and the header it has read |
| `at` | where `get_checksum` is: `lookup` (383), `calculate` (400), `test` (408), `store` (411), `write` (417), `move` (419) |
| `result`, `temp` | `checksum`; the file behind `template` |
| `spoiled` | history: names under which a fault may have left a wrong entry |

`Readers` are the threads of any run on any repository with this `--cachedir`. The
header and the time of a file are read in one step. `write` may write nothing,
or less, without anybody noticing; an empty entry is passed over by `FindEntry`
but found by `TestEntry`. A failing rename costs the package, because `load_rpm`
takes the error for that of its next call. A temporary file that is left behind
has a name nobody looks up and is not kept in the model.

### DeltaRpms and PrestoDelta

| Model | Code |
|---|---|
| `mainPc` | the calling thread in `cr_deltarpms_parallel_deltas`: `push` at the head of its loop with the mutex, `select` after it has released the mutex with copies of the counters, `stuck` when nothing fits, two places where it sleeps |
| `activeSize`, `activeTasks` / `snapSize`, `snapTasks` | the fields of `parallel_deltas_user_data` / the locals of the same names |
| `chosen` | the target that is counted already and not pushed yet: the counters move before `g_thread_pool_push` |
| `target`, `dirs`, `rest`, `count` | a run of `cr_delta_thread`: its package, the directories and candidates left, the `x` of its loop |
| `stage` | what `main()` does around it, up to the record in `repomd.xml` or the jump to `deltaerror` |
| `drpm`, `inside`, `list`, `ht` | `cr_prestodelta_thread`: its drpm, whether it holds the mutex, the list it has looked up; the shared table |
| `written`, `lost` | the `newpackage` elements that reached the file and those that did not |

An access of the counters under the mutex is one step, because nothing else is
done there. Of `cr_drpm_create` only success or failure is modelled; an old
package that cannot be read counts as one of which no delta can be made, since
the loop passes over both. A directory is visited in any order (they are the
keys of a hash table); the candidates of one directory have distinct versions
or are tried in either order. Assumed are that the directory of drpms has no
subdirectory and that two targets do not share a drpm's file name
(`PrestoDeltaAssumption`); `PROJECT.json` lists both as hazards. Every target
that is scheduled fits alone because `createrepo_c` passes
`max_delta_rpm_size` for both limits (`DeltaRpmsAssumption`).

### LoadMetadata

| Model | Code |
|---|---|
| `input` | the repositories in the order of `load_old_metadata`, `md->dupaction`, `md->pkglist_ht` (all base names when there is none) |
| `pc`, `at` | `cb_data->state` and how far the file is parsed; `fill`: the loop of 581-647; `loaded`: between two loads |
| `intern`, `ignoredIds` | `intern_hashtable`, `ignored_pkgIds` |
| `table`, `ignoredKeys` | `md->ht`, `ignored_keys` |
| `before` | history: `md->ht` at the beginning of the load |

The `fill` loop visits its hash table in any order. An element of primary is
its pkgId, base name, time with size, and key; the parts of a package are the
positions of the elements of filelists and other. Line 260 compares the base
name of the new package with itself, so `SamePackage` compares time and size
only, although the comments say otherwise; line 620 compares the names of both
(`SameEntry`). The promise of `LoadedAsPromised` is said of the file as a whole
and of the table before, so it does not depend on any order. It is a promise
for one load: a key that one load has removed is admitted again by the next.

### PkgIterator

| Model | Code |
|---|---|
| `pc`, `reading`, `progress` | where `cr_PkgIterator_parse_next` is, and whether `xmlParseChunk` runs |
| `at`, `open`, `current` | per parser: elements parsed, inside an element, `pd->pkg` |
| `done` | `primary_is_done` and the other two |
| `inProgress`, `count`, `finished` | `in_progress_pkgs_list`, `in_progress_count_*`, `finished_pkgs_queue` |
| `packages`, `returned`, `freed` | history: the packages made with the elements each consists of, those handed out, those freed |

A chunk parses at least one start or end of a package element and ends
anywhere after that; only the last read, of length 0, ends a file. A package
of primary exists once its element is complete, as `pkgcb_primary` either drops
the one it has parsed into or files it. After an error the caller does
not ask again, which the documentation does not say but the code needs.

### RepoPublish

Directories are reduced to what a client of the repository can tell apart:
absent, empty, some metadata, `repomd.xml` without all its files, everything.
`handler` says whether the global paths of `exit_cleanup` are set, `cleanup`
where a running exit handler is; it removes the files first and the directory
afterwards, and fails on a directory that has got files again. `Signal` is a
signal that the main thread handles, which is where its mask admits it.
`LateSignals` admits signals between the publication and
`cr_unset_cleanup_handler`; `PoolSpec` adds signals that an idle thread of a
pool handles. Both are possible in the program. The run `createrepo` shows what
holds without them, `publish_atomic` what the second comes to. With the first,
the exit handler of a process that has published already removes the
`.repodata/` that another process has created since, and `LockExclusion` does
not hold (`createrepo_c.c:2466`).

### UpdateRun

| Model | Code |
|---|---|
| `packages`, `drpms` | what the walk over the directory and `cr_deltarpms_*` find |
| `run.old` | `old_metadata_location`, as it was when `Locate` looked |
| `run.names` | the list `additional_metadata` |
| `run.own`, `run.add` | records of the metadata made here; `additional_metadata_rec` with the zck records |
| `tmp`, `files`, `repomd` | `.repodata/`, `repodata/` and its `repomd.xml` |
| `calm` | history: successful runs of one command line since the last change |

A run goes through `Locate`, `KeepMetadata`, `MakeRecords` (or `Fails`),
`MakeZck`, `MakeDeltas`, `RenameFiles` and then `Match` or `Publish`; between
two runs packages and deltas change and files are lost, and `modifyrepo_c`
(one step here, many in `ModifyRepo`) may come at any moment. The publication is
one step here and many in `RepoPublish`. filelists, other and the databases are
made like primary. Left out are timestamps and revision (which the comparison
ignores), tags given twice (the comparison counts them and looks for each, so
it can take two multisets for equal) and uncompressed additional metadata.

### CompressedFile, XmlFile, MetadataFiles

Data are sequences of blocks. A written block stays in the buffer of the codec
or of stdio until the caller writes more, ends a chunk or closes; when it leaves
the disk may be full (`room`), and whether the caller learns of it depends on
the codec (`Blind`). `open` is the `CR_FILE` behind each pointer, `err` the
`GError` of the last call, `stat` the content statistics. `XmlFile` adds header,
footer and chunk states, and `cr_rewrite_header_package_count` step by step.
`MetadataFiles` has three flows: XML (`main()` and one thread of the pool), a
database that is compressed, and additional metadata that get a record and a
zchunk copy. Left out are the temporary file of a zchunk, errors of closing its
header, and the concurrency of the three XML files, which share nothing but the
disk. Assertions are off, as in a release build.

### Retention

`old` maps the names in `repodata/` to the run that wrote them and to their
time, which is the clock or, when `stat()` fails, 1. The three exclude lists are
operators on names and times; the order of directory entries with one time is
arbitrary. `Run` is a run of createrepo_c with one of the options
`--retain-old-md`, `--compatibility` and `--retain-old-md-by-age`.

### XmlDump, XmlCatalogs, XmlParser

`XmlDump` and `XmlCatalogs` translate packages, repomd records and updates to
the SAX events that libxml2 would report of the XML; `XmlParser` runs the tables
of states of the five parsers over them: `pd` is `cr_ParserData` (state, depth,
statedepth, content, package), `Entered` and `Ended` are the switch statements
of the handlers. A document may hold elements nobody knows, lack attributes or
end early. What was parsed is copied, written and parsed a second time. Texts
are tokens; the conversion of names that are not UTF-8 and an empty revision are
left out.

### RepoDir, ModifyRepo, SqliteRepo, RepoTools

`files` maps names (checksum prefix, base, suffix) to contents and `repomd` is
the parsed `repomd.xml`. In `ModifyRepo` and `SqliteRepo` each write, rename and
removal is a step and a kill may come after any. In `RepoTools` the next tool
starts from what the last one left. Two tools at once are left out: only
sqliterepo_c takes the lock. The `location_base` of records, their order and
`other_db` (as `filelists_db`) are left out.

### MergeRepo, MergeDump

`MergeRepo` loads the repositories one after the other; `left` is what the
iteration over a hash table has not visited yet, so every order occurs. `table`,
`noarch` and `merged` say who owns a package and `freed` what has been freed.
`koji_stuff_prepare` (`Prepare`, `FindBuilds`) reads all repositories once before
the merge and keeps the build of each source package in `include`. A repository
may be empty. Epoch, version and release are ranks. Left out are groups and update
records as contents, modulemd, the replacement of repository prefixes and an
empty `xml:base`. `MergeDump` writes into `.repodata/`, removes the old metadata
and moves the rest, renames, and copies when `repodata/` is still there
(`pinned`); every step may be the last. other, pkgorigins and modules are made
as the records that are there.

## 3. Runs

| Run | Instance | Shows |
|---|---|---|
| `dumper` | 3 workers, 4 tasks, 3 files, buffer of 1, one failing write, failing reads and stats, `--update` | order, completeness, buffer bound, equal zchunk boundaries and right headers, refinement of `OrderedDump`, termination |
| `createrepo` | delayed dump: 3 workers, 5 tasks in two NEVRAs, three with one location, the last fails. Publication: 3 processes, one with `--ignore-lock`, 2 kills, with and without old metadata and a stale lock. Retention: 28 command lines, 3 runs, a clock of 2. Checksums: 2 threads, 2 packages of one name, 2 versions, 2 types, 3 calls, 1 replaced package, 1 fault | each old record is used once, the latest build is kept, the dump is complete; mutual exclusion, the repository is kept, no data lost, no stale lock; what is retained is what was asked for; a cached checksum is the package's own unless a fault has touched its name |
| `prestodelta` | 3 threads, 6 targets, 6 old packages in 2 directories, a drpm of an earlier run, one delta per directory | the limits hold on stale counters, no sleep in vain, the newest deltas are made, `prestodelta.xml` is complete, the stage ends |
| `pkg_iterator` | 4 primaries with 7 filelists and 7 others (equal, permuted, shortened, repeated, with packages missing), files left out, 3 callbacks, every end of a chunk | packages are assembled from the right elements and handed out once, only real disorder is refused, the caller ends if primary lists all packages |
| `files` | writing: 3 packages, 6 codecs, 3 flows, 0 to 11 blocks of room. Parsing: lists of packages, repomds and updates with the flags, refusals and interrupts, 2 edits of a document. Loading: up to 3 of 5 packages with common pkgIds and keys, then up to 2 more, both duplicate actions, failing loads | a successful run leaves whole files, records describe their files, a rewriting never loses the original; what is written is read back and the parser stays in step; the table holds what is promised in whatever order |
| `repo_tools` | 10 repositories, 28 lists of tasks, 4 kinds of options of sqliterepo_c, 1 call of each, 1 kill | what a tool was not asked to change is readable at every moment, a success is what was asked, only replaced files go |
| `merge` | choice: 9 packages in 2 repositories of up to two or 3 of one, empty ones, 10 sets of options, damaged repositories. Dump: 5 sets of options, 3 outputs, 2 calls, 1 fault | each method keeps what it promises in every order, nothing is freed twice, the output is complete, the repository is never lost |
| `update` | 9 command lines, 3 repositories, 3 runs, 2 changes between and during them | a success is sound, additional metadata are kept, nothing is left behind, repetitions settle |
| `delayed_hang` | a package in the middle fails | **violated**: the delayed dump waits forever (`dumper_thread.c:325`) |
| `pkg_iterator_ends` | as `pkg_iterator` | **violated**: `parse_next` spins when another file ends with a package that primary lacks (`xml_parser_main_metadata_together.c:425`) |
| `publish_atomic` | 2 processes, signals handled by pool threads | **violated**: the process ends between the two renames |
| `update_deltas` | as `update` | **violated**: the kept prestodelta record replaces the new one (`createrepo_c.c:2319`) |

`createrepo`, `files` and `merge` put parts that do not interact beside each
other: the first state chooses one, which runs while the others rest, so the
states of a run are the sum and not the product of those of its parts.

Bounds. Three workers are needed for one to write, one to wait and one to
buffer; with four tasks and a buffer of one (`MAX_TASK_BUFFER_LEN` is 20) the
buffer is full, is drained and is bypassed, and the last task, which is never
buffered, is reached with others pending. One failing write (`MaxFails`, limited
by `MCSpec` to the second package in primary or other) is enough because files
are independent and every package of the middle is alike. In the delayed dump
the order of arrival matters per NEVRA, and a group of three already has all the
orders a stable sort can confuse. Two processes race for the lock; the third is
the one that forces it. Two kills allow a stale lock to be taken over and left
again. Three runs with a clock of two are enough for two older copies to compete
and for equal times. Of the delta targets two do not fit together, three are so
small that all threads are busy while one is left, and one is too large to be
scheduled, so the scheduler sleeps for both reasons and finds its copies stale
in both; the six old packages are one of each kind (an older and a newer one
than another, newer than the target, too large, of another package, the same
build in another directory). With three packages the iterator's list has
packages before, at and after the place a file is at, and a file can be one
ahead and one behind; a package that occurs twice, a permutation and a missing
package at either end or in the middle are all that can be wrong with a file. In
a load, three packages meet one key or one pkgId, which is what the remembering
of keys and pkgIds is for, and the second load meets the table of the first.
Three packages and eleven blocks let the disk fill up at every block of a file
and of its rewritten copy. A call of each tool and one kill suffice because a
tool keeps nothing but the directory, and the ten initial repositories are what
earlier calls leave, the removal of an updateinfo without its zchunk copy among
them. Two repositories of two packages let each of two rivals
come first in either repository; three of one let the third meet the winner of
two. A second call of mergerepo_c meets the output or the remains of the first.
Three updates are one that keeps, one that repeats and one that has settled; two
changes are one that damages and one that concurs. In the cache, two calls race for
one entry and the third reads what they left; a fault is a kill, a cut or empty
write, or a failing step, and a replaced package may come on top of it.

Fairness. The liveness runs assume weak fairness of each thread (the
operating system schedules it, a mutex that is free infinitely often is
eventually obtained because its critical sections are entered in the order of
the ids) and of `main()`; `prestodelta` assumes the same of the threads of both
pools, and with it that librpm and the file system answer; `pkg_iterator` assumes
only that a call that is not blocked runs and that the caller goes on asking,
which is the loop of the tests. Nothing is assumed of spurious wakeups, nor about
which package can be read. The other specifications state no fairness: their
programs may be killed at any step.

## 4. What is proved

Each theorem is of the specification and holds for every value of the
constants that the module's named assumption admits; what is assumed beyond that
is said here. None of the properties is inductive. Each proof module begins
with the strengthening it needs, `IInv`, as a conjunction of named parts. It was
checked with TLC first, and there is one lemma per action and in it one step per
part that the action can disturb.

**`DumperThreadProofs`**, for any finite set of workers, any number of tasks, any
buffer size, with and without filelists-ext and for any number of failing
writes: `TypeCorrect`, `OutputInOrder`, `OutputComplete`, `BufferNeverFull`,
`NothingStranded`, `OutputAgrees` (`Spec => []FilesAgree`), and `Refinement`
(`Spec => ImplementsOrderedDump`).

A worker inside a critical section must hold the id that the counter has just
passed. `IInv` adds `Turns` (the counter of a file whose mutex is held is one
ahead of its holder, who is alone; whoever is past primary has moved the counter
of primary), `Knowledge` (the holder of a package knows its fate; only skipped
tasks are passed over), and `Readers` (no task is read twice). `Ascending` bounds
the ids in a file by what the file has accounted for, from which `InOrder`
follows. Two more invariants stand on it. `PoolInv` says where a package that
has missed its turn waits and who will still empty the buffer (`Draining`), so
that nothing is stranded. `OutputInv` relates the files: the decision made in
primary compares with the last readable package before the turn, whose fate is
settled (`Comparisons`), so every file is cut where primary is (`Boundaries`) and
holds as many packages as are readable (`Counts`). The refinement maps the
position of a file to `Accounted`, the counter minus one while somebody is in
its critical section: the code moves the counter on before it writes.

**`DelayedDumpProofs`**, for any packages, build times, locations and failures:
`DelayedOldUsedOnce`, `DelayedKeepsLast`, `DelayedDumpedRight`. A package that was
collected is filed once, under its own NEVRA, by the worker that has it
(`Filed`); the duplicates are resolved when nobody collects any more
(`Resolved`), so the one that a stable sort puts last is one that no other beats
(the lemma `MaximalElement`). That the header is right from the start is the
counting of what the dump passes over (`Counted`).

**`CreaterepoProofs`, publication**, for any number of processes, `--ignore-lock` included, any
kills, failures and signals before the publication: `PublishExclusion`,
`PublishKeepsRepo`, `PublishKeepsData`, `PublishUnlocks`. The invariant says for
every place of a process and of its exit handler whether `.repodata/` is its own
(`LockRight`), what is in the directory it generates in (`WorkRight`), and, while
`repodata/` is not complete, that somebody has the old metadata who is not about
to remove them (`OldKept`). The theorems assume `~LateSignals`. With late signals
they are false: the exit handler of a process that has published removes the
`.repodata/` of another one (section 2, `createrepo_c.c:2466`).

**`CreaterepoProofs`, cache of checksums**, for any number of threads, packages, versions, types,
calls and faults: `CachedChecksumsRight` (`CacheSpec => []ChecksumsRight`) and
`RightEntriesStay` (`CacheSpec => EntriesStay`: a right entry is never lost). The
invariant speaks of names no fault has touched: the entry is the checksum its
name stands for (`Entries`), a thread on its way to store one has the right one
(`ResultsHeld`), and a thread on its way to compute one still finds the version it has
read the header of (`PackagesSame`).

**`CreaterepoProofs`, retention**, for any command lines, files and number of
runs: `RetentionTyped` and `RetainsAsAsked` (`RetentionSpec => RetentionSound`),
an action property of every run. The exclude list of the classic way is the
oldest files of a kind for some order of directory entries with one time; as many
as were asked for stay, none of them older than one that goes (`ClassicLeaves`).
A file that goes although its copy was to stay would have as many newer ones of
its kind as there are newer copies, one each, beside the run's own, which is
their counting (`StayingStep`). `FilesTyped` says that a file is of a run there
has been.

**`DeltaRpmsProofs`**, for any finite sets of threads and targets, any sizes,
limits and old packages: `TypeCorrect` (in particular no negative counter),
`CountersExact`, `LimitsKept` (`Spec => []WorkBounded`), `NeverSleepsInVain`
(`Spec => []SleepsOnlyWhenStuck`), `NewestAreUsed` (`Spec => []NewestDeltas`) for
the scheduler; `StageRunsScheduler`, by which the stage implements the
scheduler's own specification and inherits them; and `PrestoTypeCorrect` and
`PrestoDeltaComplete` (`Spec => []PrestoComplete`) for the stage.

The invariant says how stale a copy can be: both counters only fall while the
main thread decides (`Stale`), so what fits beside the copy fits beside the
truth; a target is in one place (`Alone`), so `active_tasks` counts and
`active_work_size` sums (`Counted`). If as many tasks are active as when the copy
was made, none has finished, and the size is the copied one too: that is why the
wait for a counter is enough. `Progress` says how far the thread of a target has
come in each directory. The sum over a set is a fold; the lemmas about it are
proved by induction in the form "a set of subsets that holds the empty set and
is closed under adding an element holds every subset" (`SubsetInduction`), which
needs no operator as a parameter. For the stage: nothing touches the drpms once
the scheduler is done (`Frozen`); every drpm is waiting, with one thread, given
up or in the table (`OnePlace`, `NothingLost`); the list a thread has looked up
is still the one in the table when it stores it (`Exclusive`, from the mutex);
what is written is the table, which no longer changes (`Output`, `Phases`).

**`PkgIteratorProofs`**, for any three files, any ends of the chunks and any
choice of the caller: `IteratorHandsOut`, `IteratorOrder`, `IteratorFreesOnce`.
Packages are listed, queued and handed out in the order in which they were made
(`Numbered`), and the count of a file and the packages completed so far are the
wanted elements the file has supplied (`InStep`), so the package it fills next is
the one with the number of its element (`Filling`, `Parts`). filelists and other
are read up to primary before anything is handed out (`Ahead`).

**`FilesProofs`**. For `LoadMetadata`, any sequence of repositories, any contents of their
files, both duplicate actions, loads that fail anywhere and any order of the hash
tables: `LoadingIsRight` (`Spec => []LoadedRight`). While primary is parsed, the
intern table stands for what a reader of as much of the file would choose
(`ParsingPrimary`), in the end `Parsed`; an entry has the first part of its own in
what is parsed of the other files (`Parts`); while the caller's table is filled
it is what it was and one package of each key that has been moved (`Filling`),
which is why the order of the hash table does not matter.

For `MetadataFiles`, any number of packages, any of them unreadable, every codec,
a disk that fills up at any block and readers that take blocks of any size the
model allows: `StatusCanBeTrusted` (`MetaSpec => []StatusTells`),
`RecordsCanBeTrusted` (`MetaSpec => []FilesDescribed`) and `WholeUntilReplaced`
(`MetaSpec => OldUntilNew`). The lemmas about each operation of a `CR_FILE`
(`WriteIs`, `CloseIs`, `ReadIs`, `ReadZchunkIs`, ...) say what is in the handle and
what is on the disk: there may be less than was written until the file is closed,
and a file is `whole` only if nothing was lost (`FilesOK`). On top of them, for
each place of the program, `XmlInv` says what was written when no error has been
reported (`Dumping`), what became of it when the file was closed (`OldIs`), and how
far the rewriting is: the new file is the beginning of the corrected one up to the
reader's place in the old one, cut where that was cut (`Copied`). Old and new file
differ in the first block only (`FilesAre`), so the parts fit together (`GoesOn`).
The packages that are written are a recursive function of their number; what it
comes to is proved by induction over it (`WrittenIs`). `CopyInv` does the same for
databases and for additional metadata. The theorems say nothing of xz and zstd
where their last `fclose` fails (`Blind`), nor of the zchunk copy of metadata that
were compressed already; the properties exclude both. `MetadataFilesAssumption`
says that a name with `.tmp` is another name.

**`RepoToolsProofs`**, for any repositories, lists of tasks, options, numbers of
calls and kills at any step: `ToolsDisturbNothing` (`Spec => []Undisturbed`). The
records in memory are those of `repomd.xml` when files are removed
(`GoesThrough`, `Removes`), and a tool writes to the names of its own copies and
records only (`NewOnes`, `Makes`). The theorem assumes `DatabasesByName`: files
of databases, and no others, are called like databases. The programs see to that
for what they make themselves, but `modifyrepo_c --mdtype` lets the user name a
file otherwise, and then `sqliterepo_c` could take it for an old database. The
instance of `repo_tools` satisfies it.

`ToolsRemoveOnlyReplaced` (`Spec => []OnlyReplacedGo`) needs a second invariant,
`RInv`: what `cr_modifyrepo` has detached are the records its tasks name, all of
them, and each is still to be looked at, or its file is gone or in use
(`Detaches`); sqliterepo_c only adds until `repomd.xml` is in place, and then
removes the databases it had replaced (`MoveOut`). The records a list of tasks
detaches are a recursive function of its length; that it comes to the records
the tasks name is proved by induction over the tasks. It assumes
`SecondTypesApart` too: no two tasks with zchunk of which one is for `x_zck` and
the other for `x`. With such tasks the first detaches what the second would
replace.

`ToolsDoAsAsked` (`Spec => []DoneAsAsked`) needs both and a third, `DoneInv`, under
the same two assumptions. modifyrepo_c: each copy made so far holds what its source
held when the tool started, and every other file is what it was (`Copied`); when the
records are filled they have the checksums of their sources, and every renaming
leaves each new record and each record that stays with its file (`NewKept`), since
no two copies take one name; of the records of a type the last one is written, which
is that of the last addition (`AsAsked`), and what is removed afterwards is no file of
a record that is left (`WithFiles`). sqliterepo_c: what is moved says what the XML
says and the XML stays, as no XML is called like a database (`XmlThere`, `Moving`),
and with `repomd.xml` in place the removals take no file of a record (`Moved`). The
attempt showed that `DoneAsAsked` had promised too much: a task may overwrite the
source of a later one (section 5), which no list of tasks of the run did then. `Clash`
now names what is excluded, and five more lists make it happen.

**`MergeProofs`**, for any repositories, options and number of calls, killed and
failing anywhere. For `MergeDump`: `Merged` (`MergeDumpSpec => []MergedComplete`)
and `NothingIsLost` (`MergeDumpSpec => NothingLost`). `DumpInv` says what is in
`.repodata/` and `repodata/` at each place of the program (`DirsRight`), and that
each record describes the file it names, whichever have been renamed by then
(`NewRight`): no two types have files of one name, except filelists-ext, which
names those of filelists; the properties exclude it (section 5). For `MergeRepo`:
`FreedOnlyOnce` (`MergeSpec => []FreedOnce`). `OwnInv` gives every package that
was loaded one owner (`Owners`): the table it came in, the merged repository, the
table of `--noarch-repo`, or nobody, once it has been freed.

`MergesAsPromised` (`MergeSpec => []MergedRight`) says what the choice comes to in
whatever order packages are visited. `RightInv` speaks of the objects offered so
far (`Offers`): before the merge, `include` has the newest build of each source
package in the first repository that has one, as far as they have been visited
(`BuildInv`), so what koji allows is what is wanted (`AllowedIs`). While packages are
merged, the table holds one of each kind, none of which an offered package beats
(`ChoiceInv`), since what is replaced is beaten by its successor and to be better
is transitive (`AboveIsOrder`), and a package of a later repository never beats one
as good (`FirstRepoIs`); `seen_rpms` are what is merged. The counts are those of
the places in the lists (`CountInv`, `PlacesAfter`), and the base of a package is
given when it is added and stays (`BaseInv`). As in the property, options whose
promise the code does not keep are left out (`Faultless`, section 5).

What the assumptions on the constants exclude: a load of no repository at all
(`LoadMetadataAssumption`), a process called `Nobody`
(`RepoPublishAssumption`), old packages whose versions cannot be ordered
(`DeltaRpmsAssumption`) and task lists whose records are not those of
`cr_ModifyRepoTask` or databases made from databases (`RepoToolsAssumption`).
`MergeDumpAssumption` tells what each
call writes from what an older program wrote, `MergeRepoAssumption` makes the
repositories finite, gives options and packages their types (times and the parts of
a version are numbers, ranks of what `rpmvercmp` compares) and the hrefs of
`--noarch-repo` distinct, as they are in a hash table keyed by the names of the
files, and `RetentionAssumption` bounds the number of copies to retain from below
by -1, as the options do.

Only model-checked and out of the prover's reach: liveness (fairness and ENABLED),
and `Preserved` of the parsers, which says what folds over a whole document come
to. Only model-checked so far: `InStep` of the parsers, and `UpdateRun`. Type correctness of the proved modules is a theorem or
a part of one and no run checks it again; neither does one check `InOrder`, which
the refinement implies, and `EntriesStay`.

## 5. Findings

See "findings" in `PROJECT.json`: a delayed dump that hangs after an XML error, a
"maximally atomic" section whose signals are blocked in one thread only, an
iterator that spins when filelists or other ends with a package that primary
lacks, and an update with `--deltas` that lists the old `prestodelta.xml`.

Without a run of their own, but in the models as they are in the code:

* `dumper_thread.c:258`: the error of adding a record to the other database is
  dropped, and a package whose `stat()` fails (588) is skipped silently;
* `createrepo_c.c:2466`: the late signal described under RepoPublish;
* `load_metadata.c:260` compares a base name with itself, so a package with the
  checksum, time and size of another is left out whatever its name is;
* `xml_dump.c:229` writes the digest of a file as `hash`, and
  `xml_parser_filelists.c:214` looks for `cpeid`: digests of filelists-ext are
  not read back;
* `repomd.c:755`: the copy of a repomd has neither revision nor repoid;
* `compression_wrapper.c:842` and `948`: for xz and zstd the result of the last
  `fclose` is dropped, so a full disk can go unnoticed (`Blind`);
* `mergerepo_c.c:1433`: the records of filelists-ext name the files of filelists
  (`MergedComplete` leaves these command lines out);
* `mergerepo_c.c:751`: a package of `--noarch-repo` is owned by two tables and,
  when it is replaced, admitted twice or met after a repository that cannot be
  loaded, freed twice (`FreedOnce` leaves these out);
* `modifyrepo_shared.c:360`: the record of a `_zck` type is detached only when one
  of the plain type was found by the same task; otherwise `cr_repomd_set_record`
  (`repomd.c:806`) replaces it later and its file stays behind (`Detached` leaves
  these out of `OnlyReplacedGo`);
* `modifyrepo_shared.c:123`: nothing keeps the files of several tasks apart. A copy may
  overwrite the source of a later task, which then adds the new content, or another
  copy, or the file of a record that no task names (`Clash`; `DoneAsAsked` leaves
  these out);
* `sqliterepo_c.c:970`: the result of `g_rmdir` is dropped, so a `.repodata/`
  that is not empty is left to the exit handler;
* `dumper_thread.c:417` and `419`: a short write leaves a wrong entry in the cache
  of checksums for good, and a failing rename there costs the package.

## 6. Plan

What is worth doing next, in this order:

1. Proofs: `InStep` of the parsers; `UpdateRun`.
2. `--split`, and the list of read packages (`--read-pkgs-list`).
3. `RepoTools` beside `RepoPublish`: modifyrepo_c during the renames.

## 7. Not modelled

Databases (SQL statements of one thread), the reading of rpm headers, the
digests, downloading, modulemd and the Python bindings are pure
data or I/O of one thread; their failures are choices in the models. Of
createrepo_c the walk over directories, package lists and `--split` only make
the list of tasks. The groups of
mergerepo_c and the simple setters of `updateinfo.c` are data. The string and
version helpers of `misc.c` are pure functions; the models compare ranks.
`PROJECT.json` lists every component with the reason, and every hazard no
property covers yet with a note. Two calls of mergerepo_c at a time
(`mergerepo_c.c:2001` tests for its directory and creates it in two steps) are not
modelled either.
