------------------------------ MODULE N2PWriter ------------------------------
(***************************************************************************)
(* The streaming writer behind the C ABI of nanoarrow2parquet (writer.cpp): *)
(* open, set_codec, set_encoding, write_batch and close on one N2PWriter,   *)
(* over a buffered output stream whose disk may fail at any write, in a     *)
(* process that may die between any two steps.                              *)
(*                                                                          *)
(* The file is a sequence of units: one per magic, page, footer and footer  *)
(* length.  An offset counts units, so the unit at offset o is              *)
(* stream[o + 1].  A page carries the batch and the leaf whose values it    *)
(* holds in place of the values.                                            *)
(***************************************************************************)
EXTENDS Integers, Sequences

CONSTANTS
    Batches,       \* the (schema, batch) arguments a caller may pass
    MaxBatches,    \* bound: calls of n2p_writer_write_batch
    CodecAnyTime   \* may the caller set the codec after the first write_batch?

LeafKinds == {"bytes", "integer", "float", "other"}
Codecs    == {"ZSTD", "UNCOMPRESSED"}
Modes     == {"AUTO", "PLAIN", "DELTA", "BYTE_STREAM_SPLIT"}
Encodings == {"PLAIN", "RLE_DICTIONARY", "DELTA_BYTE_ARRAY",
              "DELTA_BINARY_PACKED", "BYTE_STREAM_SPLIT"}
Statuses  == {"OK", "INVALID_ARGUMENT", "UNSUPPORTED_TYPE", "IO_ERROR"}

\* wellFormed: both pointers are set, the format is "+s" and the child counts
\* are positive and equal.  supported: every column's type can be mapped.
\* leaves: what the schema flattens to, in write order.
BatchArgument ==
    [wellFormed : BOOLEAN, supported : BOOLEAN, columns : Nat,
     leaves : Seq(LeafKinds), rows : Nat]

ASSUME BatchesAssumption == Batches \subseteq BatchArgument
ASSUME MaxBatchesAssumption == MaxBatches \in Nat
ASSUME CodecAnyTimeAssumption == CodecAnyTime \in BOOLEAN

VARIABLES
    \* the call in progress, and what the caller has seen
    handle,        \* "none", "open", "unopened" (open failed), "freed" or "dead"
    pc,            \* "idle" between calls, "leaf" in the loop over the leaves,
                   \* "flush" in n2p_writer_close after the footer
    current,       \* the row group being written: its batch, rows and chunks
    closing,       \* status of the n2p_writer_close in progress
    calls,         \* calls of n2p_writer_write_batch so far
    ret,           \* the last call that returned, and its status
    accepted,      \* history: the batches whose write_batch returned OK
    \* the fields of N2PWriter
    offset, codec, encoding, schemaLocked, leaves, topChildren,
    rowGroups, totalRows, lastError,
    \* std::ofstream out
    stream,        \* the units the stream has taken
    synced,        \* how many of them have reached the disk
    bad            \* badbit: once set, the stream takes nothing more

callVars   == <<handle, pc, current, closing, calls, ret, accepted>>
schemaVars == <<schemaLocked, leaves, topChildren>>
groupVars  == <<rowGroups, totalRows>>
streamVars == <<stream, synced, bad>>
vars == <<callVars, offset, codec, encoding, schemaVars, groupVars, lastError, streamVars>>

------------------------------------------------------------------------------
(* Units of the file. *)

Magic == [kind |-> "magic"]
FooterLength == [kind |-> "length"]
\* Fault: the dictionary page is always compressed with the default codec.
PageDefaultCodec(kind, enc) ==
    [kind |-> kind, batch |-> current.batch, leaf |-> Len(current.columns) + 1,
     enc |-> enc, codec |-> IF kind = "dict" THEN "ZSTD" ELSE codec]
Page(kind, enc) ==
    [kind |-> kind, batch |-> current.batch, leaf |-> Len(current.columns) + 1,
     enc |-> enc, codec |-> codec]

\* at: file_offset; dictAt: 0 when has_dictionary is false (the magic is at 0).
Chunk ==
    [leaf : Nat, enc : Encodings, at : Nat, dictAt : Nat, dataAt : Nat, size : Nat]
FooterChunk ==
    [leaf : Nat, enc : Encodings, at : Nat, dictAt : Nat, dataAt : Nat, size : Nat,
     codec : Codecs]
Unit ==
    [kind : {"magic", "length"}]
    \cup [kind : {"dict", "data"}, batch : Nat, leaf : Nat, enc : Encodings, codec : Codecs]
    \cup [kind : {"footer"}, leaves : Seq(LeafKinds), rows : Nat,
          groups : Seq([rows : Nat, columns : Seq(FooterChunk)])]

\* serialize_footer: every chunk is stamped with the codec set NOW.
FooterColumn(c) ==
    [leaf |-> c.leaf, enc |-> c.enc, at |-> c.at, dictAt |-> c.dictAt,
     dataAt |-> c.dataAt, size |-> c.size, codec |-> codec]
FooterGroup(g) ==
    [rows |-> g.rows, columns |-> [i \in DOMAIN g.columns |-> FooterColumn(g.columns[i])]]
Footer ==
    [kind |-> "footer", leaves |-> leaves, rows |-> totalRows,
     groups |-> [r \in DOMAIN rowGroups |-> FooterGroup(rowGroups[r])]]

\* The layouts a leaf's pages can take: build_byte_array_pages weighs a
\* dictionary against PLAIN (the values decide), the other modes and kinds
\* have no choice.
Layouts(kind, mode) ==
    CASE kind = "bytes" /\ mode = "PLAIN" -> {"PLAIN"}
      [] kind = "bytes" /\ mode = "DELTA" -> {"DELTA_BYTE_ARRAY"}
      [] kind = "bytes" /\ mode \in {"AUTO", "BYTE_STREAM_SPLIT"} -> {"PLAIN", "RLE_DICTIONARY"}
      [] kind = "integer" /\ mode = "DELTA" -> {"DELTA_BINARY_PACKED"}
      [] kind = "float" /\ mode = "BYTE_STREAM_SPLIT" -> {"BYTE_STREAM_SPLIT"}
      [] OTHER -> {"PLAIN"}

\* The pages of the current leaf in a layout.
Pages(enc) ==
    IF enc = "RLE_DICTIONARY"
    THEN <<Page("dict", "PLAIN"), Page("data", enc)>>
    ELSE <<Page("data", enc)>>

\* Fault: both page offsets are read before the dictionary page is emitted.
ChunkForEarlyOffset(enc) ==
    [leaf |-> Len(current.columns) + 1, enc |-> enc, at |-> offset,
     dictAt |-> IF enc = "RLE_DICTIONARY" THEN offset ELSE 0,
     dataAt |-> offset, size |-> Len(Pages(enc))]
\* Fault: the size of the chunk leaves the dictionary page out.
ChunkForDataOnly(enc) ==
    LET dictionary == enc = "RLE_DICTIONARY"
    IN [leaf |-> Len(current.columns) + 1, enc |-> enc, at |-> offset,
        dictAt |-> IF dictionary THEN offset ELSE 0,
        dataAt |-> IF dictionary THEN offset + 1 ELSE offset, size |-> 1]
\* Fault: the data page offset is computed back from an offset not yet advanced.
ChunkForBackwards(enc) ==
    [leaf |-> Len(current.columns) + 1, enc |-> enc, at |-> offset,
     dictAt |-> IF enc = "RLE_DICTIONARY" THEN offset ELSE 0,
     dataAt |-> offset - Len(Pages(enc)), size |-> Len(Pages(enc))]

\* The chunk metadata: offsets are taken from the writer's own count before
\* each page is emitted.
ChunkFor(enc) ==
    LET dictionary == enc = "RLE_DICTIONARY"
    IN [leaf |-> Len(current.columns) + 1, enc |-> enc, at |-> offset,
        dictAt |-> IF dictionary THEN offset ELSE 0,
        dataAt |-> IF dictionary THEN offset + 1 ELSE offset,
        size |-> Len(Pages(enc))]

------------------------------------------------------------------------------
(* The output stream: it buffers, drains whenever its buffer fills, and a     *)
(* failed drain sets badbit, after which it drops what it is given.           *)

Took(units) ==
    /\ stream' = stream \o units
    /\ synced' \in synced .. Len(stream')

Put(units) ==
    \/ bad /\ UNCHANGED streamVars
    \/ ~bad /\ Took(units) /\ UNCHANGED bad
    \/ ~bad /\ bad' = TRUE /\ \E j \in 0 .. Len(units) : Took(SubSeq(units, 1, j))

\* write_bytes counts the bytes whether or not the stream took them.
WriteBytes(units) ==
    /\ Put(units)
    /\ offset' = offset + Len(units)

Return(op, status) ==
    /\ pc' = "idle"
    /\ ret' = [op |-> op, status |-> status]

NoBatch == [batch |-> 0, rows |-> 0, columns |-> <<>>]

------------------------------------------------------------------------------
Init ==
    /\ handle = "none" /\ pc = "idle" /\ current = NoBatch /\ closing = "OK"
    /\ calls = 0 /\ ret = [op |-> "none", status |-> "OK"] /\ accepted = <<>>
    /\ offset = 0 /\ codec = "ZSTD" /\ encoding = "AUTO"
    /\ schemaLocked = FALSE /\ leaves = <<>> /\ topChildren = 0
    /\ rowGroups = <<>> /\ totalRows = 0 /\ lastError = FALSE
    /\ stream = <<>> /\ synced = 0 /\ bad = FALSE

(* n2p_writer_open *)

OpenNullPath ==
    /\ handle = "none"
    /\ Return("open", "INVALID_ARGUMENT")
    /\ UNCHANGED <<handle, current, closing, calls, accepted, offset, codec, encoding,
                   schemaVars, groupVars, lastError, streamVars>>

Open ==
    /\ handle = "none"
    /\ handle' = "open"
    /\ WriteBytes(<<Magic>>)
    /\ Return("open", "OK")
    /\ UNCHANGED <<current, closing, calls, accepted, codec, encoding,
                   schemaVars, groupVars, lastError>>

OpenFails ==
    /\ handle = "none"
    /\ handle' = "unopened"
    /\ lastError' = TRUE
    /\ Return("open", "IO_ERROR")
    /\ UNCHANGED <<current, closing, calls, accepted, offset, codec, encoding,
                   schemaVars, groupVars, streamVars>>

(* n2p_writer_set_codec, n2p_writer_set_encoding *)

Usable == handle \in {"open", "unopened"} /\ pc = "idle"

SetCodec(c) ==
    /\ Usable
    /\ CodecAnyTime \/ calls = 0
    /\ codec' = c
    /\ Return("set_codec", "OK")
    /\ UNCHANGED <<handle, current, closing, calls, accepted, offset, encoding,
                   schemaVars, groupVars, lastError, streamVars>>

SetEncoding(m) ==
    /\ Usable
    /\ encoding' = m
    /\ Return("set_encoding", "OK")
    /\ UNCHANGED <<handle, current, closing, calls, accepted, offset, codec,
                   schemaVars, groupVars, lastError, streamVars>>

SetUnknown ==
    /\ Usable
    /\ lastError' = TRUE
    /\ \E op \in {"set_codec", "set_encoding"} : Return(op, "INVALID_ARGUMENT")
    /\ UNCHANGED <<handle, current, closing, calls, accepted, offset, codec, encoding,
                   schemaVars, groupVars, streamVars>>

(* n2p_writer_write_batch: the checks before any page *)

BatchCall ==
    /\ pc = "idle"
    /\ calls < MaxBatches
    /\ calls' = calls + 1

Refuse(status) ==
    /\ BatchCall
    /\ lastError' = TRUE
    /\ Return("write_batch", status)
    /\ UNCHANGED <<handle, current, closing, accepted, offset, codec, encoding,
                   schemaVars, groupVars, streamVars>>

RefuseUnopened == handle = "unopened" /\ Refuse("IO_ERROR")

RefuseArguments(b) ==
    /\ handle = "open"
    /\ ~b.wellFormed
    /\ Refuse("INVALID_ARGUMENT")

\* A first schema that cannot be flattened leaves the writer unlocked.
RefuseSchema(b) ==
    /\ handle = "open" /\ b.wellFormed /\ ~schemaLocked
    /\ \/ ~b.supported /\ Refuse("UNSUPPORTED_TYPE")
       \/ b.supported /\ b.leaves = <<>> /\ Refuse("INVALID_ARGUMENT")

\* A later schema is compared with the first by its number of columns alone.
RefuseShape(b) ==
    /\ handle = "open" /\ b.wellFormed /\ schemaLocked
    /\ b.columns # topChildren
    /\ Refuse("INVALID_ARGUMENT")

LockSchema(b) ==
    /\ ~schemaLocked /\ b.supported /\ b.leaves # <<>>
    /\ schemaLocked' = TRUE
    /\ leaves' = b.leaves
    /\ topChildren' = b.columns

StartBatch(b) ==
    /\ handle = "open" /\ b.wellFormed
    /\ BatchCall
    /\ \/ LockSchema(b)
       \/ schemaLocked /\ b.columns = topChildren /\ UNCHANGED schemaVars
    /\ pc' = "leaf"
    /\ current' = [batch |-> calls', rows |-> b.rows, columns |-> <<>>]
    /\ UNCHANGED <<handle, closing, ret, accepted, offset, codec, encoding,
                   groupVars, lastError, streamVars>>

(* n2p_writer_write_batch: the loop over the leaves *)

AtLeaf ==
    /\ handle = "open" /\ pc = "leaf"
    /\ Len(current.columns) < Len(leaves)

\* The values of the leaf allow any of its layouts.
CurrentLayouts == Layouts(leaves[Len(current.columns) + 1], encoding)

WriteLeaf ==
    /\ AtLeaf
    /\ \E enc \in CurrentLayouts :
         /\ WriteBytes(Pages(enc))
         /\ current' = [current EXCEPT !.columns = Append(@, ChunkFor(enc))]
    /\ UNCHANGED <<handle, pc, closing, calls, ret, accepted, codec, encoding,
                   schemaVars, groupVars, lastError>>

\* Fault: a batch that fails part way keeps the chunks it has written.
AbandonBatchKeepsChunks(status) ==
    /\ lastError' = TRUE
    /\ current' = NoBatch
    /\ Return("write_batch", status)
    /\ rowGroups' = IF current.columns = <<>> THEN rowGroups
                    ELSE Append(rowGroups, [rows |-> current.rows, columns |-> current.columns])
    /\ UNCHANGED <<handle, closing, calls, accepted, codec, encoding, schemaVars, totalRows>>
\* Fault: the status of a leaf is dropped, so a batch cut short returns OK.
AbandonBatchQuietly(status) ==
    /\ lastError' = TRUE
    /\ current' = NoBatch
    /\ Return("write_batch", "OK")
    /\ accepted' = Append(accepted, [batch |-> current.batch, rows |-> current.rows])
    /\ UNCHANGED <<handle, closing, calls, codec, encoding, schemaVars, groupVars>>
AbandonBatch(status) ==
    /\ lastError' = TRUE
    /\ current' = NoBatch
    /\ Return("write_batch", status)
    /\ UNCHANGED <<handle, closing, calls, accepted, codec, encoding, schemaVars, groupVars>>

\* The array does not match the schema, has nulls it may not have, is sliced...
RefuseLeaf ==
    /\ AtLeaf
    /\ AbandonBatch("INVALID_ARGUMENT")
    /\ UNCHANGED <<offset, streamVars>>

\* A page fails to compress or is larger than 2 GiB: none of the leaf's pages
\* is out yet, or its dictionary page is.
LeafThrows ==
    /\ AtLeaf
    /\ AbandonBatch("IO_ERROR")
    /\ \E enc \in CurrentLayouts : \E n \in 0 .. Len(Pages(enc)) - 1 :
         WriteBytes(SubSeq(Pages(enc), 1, n))

\* The row group is recorded before the stream is asked whether it is good.
FinishBatch ==
    /\ handle = "open" /\ pc = "leaf"
    /\ Len(current.columns) = Len(leaves)
    /\ rowGroups' = Append(rowGroups, [rows |-> current.rows, columns |-> current.columns])
    /\ totalRows' = totalRows + current.rows
    /\ current' = NoBatch
    /\ \/ /\ bad
          /\ lastError' = TRUE
          /\ Return("write_batch", "IO_ERROR")
          /\ UNCHANGED accepted
       \/ /\ ~bad
          /\ Return("write_batch", "OK")
          /\ accepted' = Append(accepted, [batch |-> current.batch, rows |-> current.rows])
          /\ UNCHANGED lastError
    /\ UNCHANGED <<handle, closing, calls, offset, codec, encoding, schemaVars, streamVars>>

(* n2p_writer_close *)

CloseUnopened ==
    /\ handle = "unopened" /\ pc = "idle"
    /\ handle' = "freed"
    /\ Return("close", "OK")
    /\ UNCHANGED <<current, closing, calls, accepted, offset, codec, encoding,
                   schemaVars, groupVars, lastError, streamVars>>

\* Fault: the stream's error is cleared so that the footer can be written.
CloseClearsError ==
    /\ handle = "open" /\ pc = "idle"
    /\ pc' = "flush"
    /\ Took(<<Footer, FooterLength, Magic>>) /\ bad' = FALSE
    /\ offset' = offset + 3
    /\ UNCHANGED <<handle, current, closing, calls, ret, accepted, codec, encoding,
                   schemaVars, groupVars, lastError>>
CloseWritesFooter ==
    /\ handle = "open" /\ pc = "idle"
    /\ pc' = "flush"
    /\ WriteBytes(<<Footer, FooterLength, Magic>>)
    /\ UNCHANGED <<handle, current, closing, calls, ret, accepted, codec, encoding,
                   schemaVars, groupVars, lastError>>

\* The footer does not encode, or is larger than 4 GiB.
CloseWithoutFooter ==
    /\ handle = "open" /\ pc = "idle"
    /\ pc' = "flush"
    /\ closing' = "IO_ERROR"
    /\ lastError' = TRUE
    /\ UNCHANGED <<handle, current, calls, ret, accepted, offset, codec, encoding,
                   schemaVars, groupVars, streamVars>>

Flush ==
    \/ /\ ~bad
       /\ synced' = Len(stream)
       /\ UNCHANGED bad
    \/ /\ bad' = TRUE
       /\ synced' \in synced .. Len(stream)

\* Fault: the stream is not asked whether the flush succeeded.
FlushUnchecked ==
    /\ handle = "open" /\ pc = "flush"
    /\ Flush
    /\ handle' = "freed"
    /\ Return("close", closing)
    /\ UNCHANGED <<current, closing, calls, accepted, offset, codec, encoding,
                   schemaVars, groupVars, lastError, stream>>
\* flush, the good() check, then close: a stream that failed still tries to
\* drain its buffer when it is closed, and the writer is freed in any case.
FlushAndFree ==
    /\ handle = "open" /\ pc = "flush"
    /\ Flush
    /\ handle' = "freed"
    /\ Return("close", IF bad' THEN "IO_ERROR" ELSE closing)
    /\ UNCHANGED <<current, closing, calls, accepted, offset, codec, encoding,
                   schemaVars, groupVars, lastError, stream>>

(* The process dies: what the stream still buffers is lost. *)
Crash ==
    /\ handle \in {"open", "unopened"}
    /\ handle' = "dead"
    /\ synced' \in IF pc = "flush" THEN synced .. Len(stream) ELSE {synced}
    /\ UNCHANGED <<pc, current, closing, calls, ret, accepted, offset, codec, encoding,
                   schemaVars, groupVars, lastError, stream, bad>>

Batch(b) ==
    \/ RefuseArguments(b) \/ RefuseSchema(b) \/ RefuseShape(b) \/ StartBatch(b)

\* What n2p_writer_write_batch does once it has begun.
BatchStep == WriteLeaf \/ RefuseLeaf \/ LeafThrows \/ FinishBatch

Next ==
    \/ OpenNullPath \/ Open \/ OpenFails
    \/ \E c \in Codecs : SetCodec(c)
    \/ \E m \in Modes : SetEncoding(m)
    \/ SetUnknown
    \/ RefuseUnopened
    \/ \E b \in Batches : Batch(b)
    \/ BatchStep
    \/ CloseUnopened \/ CloseWritesFooter \/ CloseWithoutFooter \/ FlushAndFree
    \/ Crash

Spec == Init /\ [][Next]_vars

------------------------------------------------------------------------------
(* What a reader makes of the file. *)

Disk == SubSeq(stream, 1, synced)

\* A reader seeks to the end of the file: magic, footer length, footer.
Complete(file) ==
    /\ Len(file) >= 4
    /\ file[1].kind = "magic"
    /\ file[Len(file) - 2].kind = "footer"
    /\ file[Len(file) - 1].kind = "length"
    /\ file[Len(file)].kind = "magic"

FooterOf(file) == file[Len(file) - 2]

\* The batch a row group decodes to is the one its first data page holds.
ReadBack(file) ==
    [r \in DOMAIN FooterOf(file).groups |->
       LET g == FooterOf(file).groups[r]
       IN [batch |-> file[g.columns[1].dataAt + 1].batch, rows |-> g.rows]]

------------------------------------------------------------------------------
(* Properties. *)

TypeOK ==
    /\ handle \in {"none", "open", "unopened", "freed", "dead"}
    /\ pc \in {"idle", "leaf", "flush"}
    /\ current \in [batch : Nat, rows : Nat, columns : Seq(Chunk)]
    /\ closing \in Statuses
    /\ calls \in Nat
    /\ ret.status \in Statuses
    /\ accepted \in Seq([batch : Nat, rows : Nat])
    /\ offset \in Nat
    /\ codec \in Codecs
    /\ encoding \in Modes
    /\ schemaLocked \in BOOLEAN
    /\ leaves \in Seq(LeafKinds)
    /\ topChildren \in Nat
    /\ rowGroups \in Seq([rows : Nat, columns : Seq(Chunk)])
    /\ totalRows \in Nat
    /\ lastError \in BOOLEAN
    /\ stream \in Seq(Unit)
    /\ synced \in 0 .. Len(stream)
    /\ bad \in BOOLEAN

\* Chunk c of a row group describes pages of leaf i and batch b, all of them
\* among the first n units of the file.
ChunkMatchesPages(file, n, c, i, b) ==
    /\ c.leaf = i
    /\ c.dataAt < n
    /\ LET p == file[c.dataAt + 1]
       IN p.kind = "data" /\ p.leaf = i /\ p.batch = b /\ p.enc = c.enc
    /\ c.dictAt # 0 =>
         /\ c.dictAt < c.dataAt
         /\ LET p == file[c.dictAt + 1]
            IN p.kind = "dict" /\ p.leaf = i /\ p.batch = b
    /\ (c.enc = "RLE_DICTIONARY") <=> (c.dictAt # 0)

\* The footer of a complete file describes the pages that are there: every row
\* group has one chunk per leaf of the schema, and at each chunk's offsets lie
\* that leaf's pages, of one batch per row group, in the encoding the chunk
\* names.  (Offsets are counted by write_bytes, not asked of the stream.)
FooterMatchesPages ==
    Complete(Disk) =>
      LET f == FooterOf(Disk)
      IN \A r \in DOMAIN f.groups :
           LET columns == f.groups[r].columns
           IN /\ Len(columns) = Len(f.leaves)
              /\ \A i \in DOMAIN columns :
                   ChunkMatchesPages(Disk, Len(Disk) - 3, columns[i], i, ReadBack(Disk)[r].batch)

\* The footer names, for every chunk, the codec its pages were compressed with:
\* set_codec selects the codec "for subsequent batches".
CodecMatchesPages ==
    Complete(Disk) =>
      \A r \in DOMAIN FooterOf(Disk).groups :
        \A i \in DOMAIN FooterOf(Disk).groups[r].columns :
          LET c == FooterOf(Disk).groups[r].columns[i]
          IN /\ Disk[c.dataAt + 1].codec = c.codec
             /\ c.dictAt # 0 => Disk[c.dictAt + 1].codec = c.codec

\* A batch is in the file as a whole or not at all, although the pages of a
\* batch that fails half way stay in the file: in a complete file the pages
\* of the accepted batches, and no others, belong to a column chunk, each page
\* to one.
InChunk(c, o) == c.at <= o /\ o < c.at + c.size
ChunksTileAcceptedPages ==
    Complete(Disk) =>
      LET f == FooterOf(Disk)
          Chunks == {ri \in (DOMAIN f.groups) \X (1 .. Len(f.leaves)) :
                       ri[2] \in DOMAIN f.groups[ri[1]].columns}
          Owners(o) == {ri \in Chunks : InChunk(f.groups[ri[1]].columns[ri[2]], o)}
      IN \A o \in 1 .. Len(Disk) - 4 :
           IF \E r \in DOMAIN accepted : accepted[r].batch = Disk[o + 1].batch
           THEN \E ri \in Chunks : Owners(o) = {ri}
           ELSE Owners(o) = {}

\* A reader that gets to open the file reads back the batches write_batch
\* returned OK for, in order, whatever failed before, between or after them.
SealedIsAccepted == Complete(Disk) => ReadBack(Disk) = accepted

\* close returns OK only when everything the writer counted is on the disk and
\* the file is complete.
CloseOkIsDurable ==
    handle = "freed" /\ ret.status = "OK" /\ offset > 0 =>
      Complete(Disk) /\ Len(Disk) = offset

\* The file goes once from unreadable to sealed, and a file whose stream failed
\* before the footer, or whose process died, is lost for good even if the disk
\* recovers (the abstract file of ParquetFile).
FooterTaken == stream # <<>> /\ \E i \in DOMAIN stream : stream[i].kind = "footer"
FileState ==
    IF Complete(Disk) THEN "sealed"
    ELSE IF handle \in {"freed", "dead"} \/ (bad /\ ~FooterTaken) THEN "lost"
    ELSE "writing"
File == INSTANCE ParquetFile WITH
          RowGroup <- [batch : 1 .. MaxBatches, rows : {b.rows : b \in Batches}],
          state <- FileState,
          groups <- IF Complete(Disk) THEN ReadBack(Disk) ELSE accepted
ImplementsParquetFile == File!Spec
==============================================================================
