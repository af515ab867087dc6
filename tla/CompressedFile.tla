---------------------------- MODULE CompressedFile ----------------------------
(***************************************************************************)
(* The compression wrapper: a CR_FILE over a file of one of six kinds, and *)
(* what is on the disk when the disk fills up.  Data are sequences of      *)
(* blocks; how a codec packs them is left out, but not that what a caller  *)
(* has written stays for a while in the buffers of the codec and of stdio, *)
(* and who notices when it cannot leave them.                              *)
(***************************************************************************)
EXTENDS Naturals, FiniteSets, Sequences, SequencesExt, FiniteSetsExt

Codecs == {"none", "gz", "bz2", "xz", "zstd", "zck"}

\* cr_close does not look at the result of the last fclose of these two: what
\* is still in the buffer of stdio may be lost unnoticed.
Blind == {"xz", "zstd"}

VARIABLES
    disk,       \* the files, by name
    room,       \* how many more blocks fit
    open,       \* the CR_FILE behind each of the two pointers the callers keep
    block,      \* the buffer of the last read
    err,        \* the last call has set its GError
    stat        \* the cr_ContentStat of the last file closed: size and checksum
                \* are as good as the data they were computed from

fileVars == <<disk, room, open, block, err, stat>>

Closed == [mode |-> "closed"]
Handles == {"in", "out"}

FileInit ==
    /\ open = [h \in Handles |-> Closed]
    /\ block = <<>> /\ err = FALSE /\ stat = <<>>

\* A name ends in the suffix of a codec (none for what is called .xml or
\* .sqlite), or in none that is known.
Suffix(name) == name[2]
Exists(name) == name \in DOMAIN disk

\* cr_detect_compression: by suffix, else by the first bytes.
Detect(name) ==
    IF Suffix(name) # "unknown" THEN Suffix(name)
    ELSE IF disk[name].content = <<>> THEN "none" ELSE disk[name].codec

SetFile(name, f) == [n \in DOMAIN disk \union {name} |-> IF n = name THEN f ELSE disk[n]]

OpenRead(h, name, codec) ==
    /\ Exists(name)
    /\ open' = [open EXCEPT ![h] = [mode |-> "read", name |-> name,
                                    codec |-> codec, pos |-> 0]]
    /\ err' = FALSE
    /\ UNCHANGED <<disk, room, block, stat>>

OpenWrite(h, name, codec) ==
    /\ open' = [open EXCEPT ![h] = [mode |-> "write", name |-> name,
                                    codec |-> codec, data |-> <<>>, cuts |-> <<>>]]
    /\ disk' = SetFile(name, [codec |-> codec, content |-> <<>>,
                              cuts |-> <<>>, whole |-> FALSE])
    /\ err' = FALSE
    /\ UNCHANGED <<room, block, stat>>

OpenFails == err' = TRUE /\ UNCHANGED <<disk, room, open, block, stat>>

-----------------------------------------------------------------------------
(* Writing.                                                                *)

\* The first n blocks of the data are to be on the disk; fewer if it is full.
Drained(f, n) ==
    LET before == Len(disk[f.name].content)
        fits == n - before <= room
        after == IF fits THEN n ELSE before + room
    IN [fits |-> fits, after |-> after, used |-> after - before]

\* zck_end_chunk: there are no empty chunks.
EndedChunk(f) ==
    LET last == IF f.cuts = <<>> THEN 0 ELSE Last(f.cuts)
    IN IF Len(f.data) > last THEN [f EXCEPT !.cuts = Append(@, Len(f.data))] ELSE f

\* cr_write, and cr_end_chunk where the caller ends a chunk: the content
\* statistics count what the caller gives; nothing, a part or all of it leaves
\* the buffers.  zchunk keeps everything in a file of its own until it is closed.
Write(h, bs, ends) ==
    LET f == [open[h] EXCEPT !.data = @ \o bs]
        held == Len(disk[f.name].content)
    IN \E n \in held..Len(f.data) :
        /\ f.codec = "zck" \/ bs = <<>> => n = held
        /\ LET d == Drained(f, n) IN
            /\ disk' = [disk EXCEPT ![f.name].content = SubSeq(f.data, 1, d.after)]
            /\ room' = room - d.used
            /\ err' = ~d.fits
            /\ open' = [open EXCEPT ![h] = IF ends /\ d.fits THEN EndedChunk(f) ELSE f]
    /\ UNCHANGED <<block, stat>>

\* cr_puts and cr_printf write a string; a short write is an error.
Puts(h, b, ends)   == Write(h, <<b>>, ends)
Printf(h, b, ends) == Write(h, <<b>>, ends)

\* cr_close of a file that was written; "seen" is whether it is noticed that
\* the rest did not fit.
CloseWritten(h, seen) ==
    LET f == EndedChunk(open[h])
        d == Drained(f, Len(f.data))
    IN /\ seen = (~d.fits /\ (f.codec \in Blind => seen))
       /\ disk' = [disk EXCEPT ![f.name] =
                      [codec |-> f.codec, content |-> SubSeq(f.data, 1, d.after),
                       cuts |-> f.cuts, whole |-> d.fits]]
       /\ room' = room - d.used
       /\ stat' = f.data
       /\ open' = [open EXCEPT ![h] = Closed]
       /\ UNCHANGED block

-----------------------------------------------------------------------------
(* Reading.                                                                *)

\* A file that ends too early: bzip2 and zchunk notice, the others return what
\* there is, as at the end of a whole file.
Breaks(f, n) ==
    /\ ~disk[f.name].whole /\ f.codec \in {"bz2", "zck"}
    /\ f.pos + n > Len(disk[f.name].content)

Read(h, n) ==
    LET f == open[h]
        content == disk[f.name].content
        upto == IF f.pos + n <= Len(content) THEN f.pos + n ELSE Len(content)
    IN /\ err' = Breaks(f, n)
       /\ block' = IF Breaks(f, n) THEN <<>> ELSE SubSeq(content, f.pos + 1, upto)
       /\ open' = [open EXCEPT ![h].pos = upto]
       /\ UNCHANGED <<disk, room, stat>>

\* cr_get_zchunk_with_index for the next chunk; no chunk has length 0.
ReadZchunk(h) ==
    LET f == open[h]
        ends == {c \in ToSet(disk[f.name].cuts) : c > f.pos}
        upto == IF ends = {} THEN f.pos ELSE Min(ends)
    IN /\ err' = FALSE
       /\ block' = SubSeq(disk[f.name].content, f.pos + 1, upto)
       /\ open' = [open EXCEPT ![h].pos = upto]
       /\ UNCHANGED <<disk, room, stat>>

\* cr_close of a file that was read: only gzip says then that the file had
\* ended too early.
CloseRead(h) ==
    LET f == open[h] IN
    /\ err' = (/\ f.codec = "gz" /\ ~disk[f.name].whole
               /\ f.pos = Len(disk[f.name].content))
    /\ open' = [open EXCEPT ![h] = Closed]
    /\ UNCHANGED <<disk, room, block, stat>>

\* cr_get_compressed_content_stat reads to the first short block: what it finds
\* of a whole file, or of one whose codec does not notice that it is not.
ReadableToEnd(name) ==
    disk[name].whole \/ Detect(name) \notin {"bz2", "zck"}
=============================================================================
