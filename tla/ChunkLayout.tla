----------------------------- MODULE ChunkLayout -----------------------------
(***************************************************************************)
(* How contents are cut into vfs_chunks and vfs_upload_chunks rows and put *)
(* together again (src/chuk_vfs_postgres/provider.py): writing, staging a  *)
(* part, publishing, appending and the kinds of reading, those of the      *)
(* fsspec adapter included, for one file and one upload.  Each keeps the   *)
(* chunk size it was made with, whatever the chunk size of the provider    *)
(* that works on it.                                                       *)
(*                                                                         *)
(* Rows of a table are a function from chunk_no; sums of bytes, a sequence *)
(* of bytes, stands for its own SHA-256.                                   *)
(***************************************************************************)
EXTENDS Integers, Sequences, FiniteSets

CONSTANTS ChunkSizes,     \* the chunk_size of the providers at work
          DefaultSize,    \* the column default that create_node leaves in place
          Byte,           \* byte values
          MaxLen          \* bound: bytes of a file or upload

ASSUME ChunkAssumption == /\ ChunkSizes \subseteq Nat \ {0} /\ ChunkSizes # {}
                          /\ DefaultSize \in Nat \ {0} /\ MaxLen \in Nat

VARIABLES file,     \* the node: chunk_size, size, sha256 and its chunks
          upload,   \* the staged upload, or no
          content,  \* what the file should hold
          sent      \* what the upload should hold

vars == <<file, upload, content, sent>>

Least(a, b) == IF a < b THEN a ELSE b
Most(a, b) == IF a < b THEN b ELSE a

NoRows == [i \in {} |-> << >>]

\* data[from:to], counted from 0 as Python does.
Slice(data, from, to) == SubSeq(data, from + 1, Least(to, Len(data)))

\* data[start:end] of Python, where a negative bound counts from the end.
PySlice(data, start, end) ==
    LET at(i) == IF i < 0 THEN Most(0, Len(data) + i) ELSE i IN
    Slice(data, at(start), at(end))

\* Rows from number `first` on, each of cs bytes but the last.
Cut(data, cs, first) ==
    [i \in first .. first + ((Len(data) + cs - 1) \div cs) - 1 |->
        Slice(data, (i - first) * cs, (i - first + 1) * cs)]

Put(rows, more) == [i \in DOMAIN rows \cup DOMAIN more |->
                       IF i \in DOMAIN more THEN more[i] ELSE rows[i]]

\* b"".join of the rows numbered below hi, in their order, from lo on.
Join(rows, lo, hi) ==
    LET join[i \in lo .. hi] ==
            IF i = hi THEN << >>
            ELSE (IF i \in DOMAIN rows THEN rows[i] ELSE << >>) \o join[i + 1]
    IN  IF lo >= hi THEN << >> ELSE join[lo]

All(rows) == Join(rows, 0, MaxLen)

-----------------------------------------------------------------------------
(* Writing *)

\* _insert_content_chunks
Whole(data, cs) == Cut(data, cs, 0)

\* Mutant: a part starts a chunk of its own.
StagedUnmerged(u, data) ==
    Put(u.chunks, Cut(data, u.chunk_size, (u.size + u.chunk_size - 1) \div u.chunk_size))

\* _stage_upload_part: fill the partial last chunk, then add new ones.
StagedRows(u, data) ==
    LET cs == u.chunk_size
        no == u.size \div cs
        partial == u.size % cs
        take == IF partial = 0 THEN 0 ELSE Least(cs - partial, Len(data))
        merged == u.chunks[no] \o Slice(data, 0, take)
        next == IF partial > 0 /\ Len(merged) = cs THEN no + 1 ELSE no IN
    IF take = 0 THEN Put(u.chunks, Cut(data, cs, no))
    ELSE Put(Put(u.chunks, [i \in {no} |-> merged]),
             Cut(Slice(data, take, Len(data)), cs, next))

\* Mutant: the appending provider cuts in its upload's chunk size.
AppendedForeign(n, u) ==
    LET cs == u.chunk_size
        no == n.size \div cs
        partial == n.size % cs
        tail == IF partial > 0 /\ no \in DOMAIN n.chunks
                THEN Slice(n.chunks[no], 0, partial) ELSE << >> IN
    IF u.size = 0 THEN n.chunks ELSE Put(n.chunks, Cut(tail \o All(u.chunks), cs, no))

\* _append_staged_chunks: the partial last chunk is replaced by one that the
\* staged bytes complete.
AppendedRows(n, u) ==
    LET cs == n.chunk_size
        no == n.size \div cs
        partial == n.size % cs
        tail == IF partial > 0 THEN Slice(n.chunks[no], 0, partial) ELSE << >> IN
    IF u.size = 0 THEN n.chunks ELSE Put(n.chunks, Cut(tail \o All(u.chunks), cs, no))

\* Mutant: the partial last chunk, which the staged bytes complete, is not hashed.
AppendedHashFullChunks(n, u) ==
    Join(n.chunks, 0, n.size \div n.chunk_size) \o Slice(All(u.chunks), 0, u.size)

\* _append_sha256
AppendedHash(n, u) == Slice(All(n.chunks), 0, n.size) \o Slice(All(u.chunks), 0, u.size)

\* The RuntimeErrors: "existing file is missing its final chunk",
TailMissing(n) == LET partial == n.size % n.chunk_size
                      no == n.size \div n.chunk_size IN
                  partial > 0 /\ (no \notin DOMAIN n.chunks \/ Len(n.chunks[no]) < partial)

\* "staged upload is missing its partial chunk",
PartialMissing(u) == LET partial == u.size % u.chunk_size
                         no == u.size \div u.chunk_size IN
                     partial > 0 /\ (no \notin DOMAIN u.chunks \/ Len(u.chunks[no]) # partial)

\* "... chunks are shorter than ... size".
Short(n) == Len(All(n.chunks)) < n.size

\* The primary key (node_id, chunk_no): rows that an append inserts, the first
\* excepted when it replaces the partial chunk, must not be there.
Collides(n, u) == u.size > 0 /\ \E i \in DOMAIN n.chunks :
                      i > n.size \div n.chunk_size
                      \/ (i = n.size \div n.chunk_size /\ n.size % n.chunk_size = 0)

-----------------------------------------------------------------------------
(* Reading *)

\* read_file
ReadFile(n) == Slice(All(n.chunks), 0, n.size)

\* Mutant: the last chunk is the one that `end` lies in, not end - 1, and the
\* slice begins at the start of the first chunk.
ReadRangeFromChunk(n, start, end) ==
    LET to == Least(end, n.size) IN
    IF start >= to THEN << >>
    ELSE Slice(Join(n.chunks, start \div n.chunk_size, to \div n.chunk_size + 1), 0, to - start)

\* read_range: only the chunks that overlap start .. end-1, and a slice of them.
ReadRange(n, start, end) ==
    LET from == Most(0, start)
        to == Least(end, n.size)
        first == from \div n.chunk_size
        last == (to - 1) \div n.chunk_size
        offset == from - first * n.chunk_size IN
    IF end <= from \/ from >= to THEN << >>
    ELSE Slice(Join(n.chunks, first, last + 1), offset, offset + (to - from))

\* _cat_file(start, end): a negative bound needs the size, and so the whole file.
\* No bound is the same as 0, or as one past the end.
CatFile(n, start, end) ==
    IF start < 0 \/ end < 0 THEN PySlice(ReadFile(n), start, end) ELSE ReadRange(n, start, end)

\* _get_file: the blocks that an export of `size` bytes asks for, one by one.
Export(n, block) ==
    LET from[k \in 0 .. MaxLen + 1] ==
            IF k * block >= n.size THEN << >>
            ELSE ReadRange(n, k * block, Least((k + 1) * block, n.size)) \o from[k + 1]
    IN  from[0]

-----------------------------------------------------------------------------

Contents == UNION {[1..k -> Byte] : k \in 0..MaxLen}

Node(data, cs) == [chunk_size |-> cs, size |-> Len(data), sha |-> data,
                   chunks |-> Whole(data, cs)]

NoUpload == [chunk_size |-> 0, size |-> 0, sha |-> << >>, chunks |-> NoRows]

\* create_node leaves chunk_size to the column default.
Init == /\ file = Node(<< >>, DefaultSize) /\ content = << >>
        /\ upload = NoUpload /\ sent = << >>

\* write_file and write_file_atomic: the node takes the writer's chunk size.
WriteFile(data, cs) == /\ file' = Node(data, cs) /\ content' = data
                       /\ UNCHANGED <<upload, sent>>

StartUpload(cs) == /\ upload = NoUpload
                   /\ upload' = [NoUpload EXCEPT !.chunk_size = cs] /\ sent' = << >>
                   /\ UNCHANGED <<file, content>>

UploadPart(data) ==
    /\ upload # NoUpload /\ data # << >> /\ upload.size + Len(data) <= MaxLen
    /\ upload' = [upload EXCEPT !.chunks = StagedRows(upload, data),
                                !.size = @ + Len(data)]
    /\ sent' = sent \o data
    /\ UNCHANGED <<file, content>>

\* finish_upload, create or overwrite: INSERT ... SELECT of the staged rows.
Overwrite == /\ upload # NoUpload
             /\ file' = [chunk_size |-> upload.chunk_size, size |-> upload.size,
                         sha |-> All(upload.chunks), chunks |-> upload.chunks]
             /\ content' = sent
             /\ upload' = NoUpload /\ sent' = << >>

\* finish_upload, append.
Append_ == /\ upload # NoUpload /\ file.size + upload.size <= MaxLen
           /\ file' = [file EXCEPT !.chunks = AppendedRows(file, upload),
                                   !.size = @ + upload.size,
                                   !.sha = AppendedHash(file, upload)]
           /\ content' = content \o sent
           /\ upload' = NoUpload /\ sent' = << >>

Next == \/ \E data \in Contents, cs \in ChunkSizes : WriteFile(data, cs)
        \/ \E cs \in ChunkSizes : StartUpload(cs)
        \/ \E data \in Contents : UploadPart(data)
        \/ Overwrite
        \/ Append_

Spec == Init /\ [][Next]_vars

-----------------------------------------------------------------------------
(* Properties *)

\* However parts of any size were staged and appended, the rows are those of
\* one write in the row's chunk size: numbered from 0, full but for the last.
LaidOutAsWritten == /\ file.chunks = Whole(content, file.chunk_size)
                    /\ upload # NoUpload => upload.chunks = Whole(sent, upload.chunk_size)

\* read_file, read_range and cat_file for every start and end, also before the
\* beginning and past the end of the file, and an export in blocks of any length
\* return exactly the bytes asked for; cat_file slices as Python does.
ReadsExact ==
    /\ ReadFile(file) = content
    /\ \A start \in -1 .. MaxLen + 1, end \in -1 .. MaxLen + 1 :
           ReadRange(file, start, end) = Slice(content, Most(0, start), end)
    /\ \A start, end \in -(MaxLen + 1) .. MaxLen + 1 :
           CatFile(file, start, end) = PySlice(content, start, end)
    /\ \A block \in 1 .. MaxLen + 1 : Export(file, block) = content

\* The digest stored is that of the whole content, also after appends that
\* start inside a chunk.
HashesExact == file.sha = content /\ file.size = Len(content)

\* None of the consistency errors of staging and appending can be raised.
NeverCorrupt == /\ ~TailMissing(file) /\ ~Short(file)
                /\ upload # NoUpload => /\ ~PartialMissing(upload) /\ ~Short(upload)
                                        /\ ~Collides(file, upload)
=============================================================================
