# nanoarrow2parquet: TLA+ models and proofs

nanoarrow2parquet writes Arrow record batches, handed over through the Arrow C
data interface, to Parquet files. This directory holds TLA+ modules translated
from its source, the TLC configurations that check them on small instances, and
proofs of the main results for every instance, checked with TLAPS.

The central promise is about failure: whatever fails, and whenever the process
dies, a file that a Parquet reader can open holds exactly the batches the
caller was told were written.

## 1. The system

Paths are relative to the repository.

| Component | Source | State | Operations |
|---|---|---|---|
| Streaming writer (C ABI) | `src/writer.cpp` 783-1331 | `N2PWriter`: output stream, byte offset, codec, encoding, locked schema, row groups, row count, last error | open, set_codec, set_encoding, write_batch, close, last_error |
| One-shot call | `src/writer.cpp` 1337-1362 | none of its own: a writer for the length of one call | open, write_batch, close |
| Levels and values of a leaf | `src/writer.cpp` 300-395, 826-847, 1028-1091, 1144-1210 | `Shredded`: repetition and definition levels, presence map and count | check the arrays, shred a row, write the page |
| Schema flattening | `src/writer.cpp` 35-300 | `LeafSpec`, `SchemaNode` | `flatten_schema`, once per file |
| Pages and encodings | `src/writer.cpp` 398-777, 954-1025, `src/rle_bitpack.hpp` | none (pure) | PLAIN, dictionary, delta, byte-stream-split; page headers |
| Page compression | `src/compress.hpp` | none (pure) | zstd or a copy |
| Footer | `src/writer.cpp` 849-950, `src/parquet_types.hpp` | none (pure) | `serialize_footer` |
| SoA front-end | `include/nanoarrow2parquet/soa.hpp` | the pointer to a C writer, a status | open, set options, write a chunk, close, destroy; `write_file` |
| Python writer object | `bindings/python/src/n2p_bindings.cpp` 108-166, `nanoarrow_io/parquet.py` | `writer_`, `row_groups_`, `num_rows_`, shared by the threads that hold the object | open, write_batch, write_table, close, context manager, destructor |
| Python functions and Arrow import | `bindings/python/src/n2p_bindings.cpp` 40-106, `arrow_capsule.hpp` | the Arrow structures taken from PyCapsules | write_batch, write_table; `import_batch`, `import_stream` |
| NumPy bridge | `bindings/python/src/numpy_bridge.hpp` | references to the arrays, the schema and array made of them | build a record batch, export it |
| pcapng2parquet | `examples/pcapng2parquet/` | a sliding window over the input, a table per protocol | fill the window, slice packets, write tables |

How they meet: the bindings, the SoA front-end and the converter are callers of
the C ABI. A batch passes through the writer leaf by leaf: `flatten_schema` (the
first time), the checks of the arrays, levels, the value encoder, compression,
and `emit_page`, which appends to the stream and to the offset count. At the end
of the batch the row group is recorded in memory, and `close` turns all recorded
row groups into the footer. There are no threads and no callbacks inside the
writer; what makes it hard is failure and sequence:

* the offset is counted by the writer, not asked of the stream, and goes on
  counting when the stream drops what it is given (`write_bytes`);
* the row group is recorded before the stream is asked whether it is good;
* a batch may fail after some of its pages are in the file, and the caller may go
  on with the next one;
* the last bytes reach the disk in `close`, after the footer, and the handle is
  freed whatever happened;
* the process may die anywhere, with any prefix of the stream on the disk.

Inside a batch the difficulty is in the data: levels and values are computed
separately and a reader only puts them together again if they agree at every
null, empty list and nesting. The schema is a flat list that has to be a tree again for
the reader, columns are found by their place alone, and what an encoder makes of
a value has to be that value again.

In Python there are threads. The interpreter lock is held through every call of the
C ABI, but importing a batch runs Python code and gives the lock up, so what was read
before it may be stale after it. And there is ownership: an Arrow structure passes from
a producer to a capsule, to a stream or a local, and is released by its last owner,
on every way out of a call.

PROJECT.json lists the hazards, line by line, with the property that covers each
one or the reason why none does yet.

## 2. The modules

| Module | What it is |
|---|---|
| `ParquetFile` | Abstract specification: row groups are added; then the file is sealed, once, or lost. |
| `N2PWriter` | The streaming writer over a stream that buffers, fails and loses. Implements `ParquetFile`. |
| `N2PWriteFile` | `n2p_write_file` composed from the actions of `N2PWriter`. |
| `LeafLevels` | One leaf of one batch, from the Arrow arrays on its path to the body of its page. |
| `SchemaTree` | The Arrow schema as the schema of the file, and what a reader makes of it (operators only). |
| `LeafPages` | The columns of a batch: schema, pages in each encoding, statistics. |
| `SoaWriter` | The C++ front-end: the Writer object, and the arrays it makes of a chunk. |
| `PyWriter` | The Python writer object, used by several threads. |
| `PyTable` | The Python functions, the import of Arrow data, and the NumPy bridge. |
| `PcapConverter` | The pcapng2parquet program: window, sections, slice, tables. |
| `SequenceLoops` | Loops the code writes again and again, as recursive functions: running sums, what a loop keeps of a sequence, powers of two, and the choice of one member of each set (operators only). |
| `SequenceLoops_lemmas` | Lemmas about sums, selections and flattening of sequences of any length, on which the proofs about data rest. |
| `N2PWriter_proofs`, `N2PWriteFile_proofs`, `LeafLevels_proofs`, `SoaWriter_proofs`, `PyWriter_proofs`, `PyTable_proofs`, `PcapConverter_proofs` | Theorems about the module they are named after. |
| `MCN2PWriter`, `MCN2PWriteFile`, `MCLeafLevels`, `MCLeafPages`, `MCSoaWriter`, `MCPyWriter`, `MCPyTable`, `MCPcapConverter` | Instances for TLC. |

`ParquetFile` is where they meet. `N2PWriter` is checked and proved to implement it: a
row group is added by a `write_batch` that returns OK, the file is sealed by `close`, and
a failure of the stream loses it. The callers of the C ABI (`SoaWriter`, `PyWriter`,
`PyTable`) hold an instance of `ParquetFile` and take its actions where the code calls the
ABI, so what they assume of the writer is what is proved of it. The modules of the data
(`LeafLevels`, `SchemaTree`, `LeafPages`) say what is inside one `WriteLeaf` of `N2PWriter`.

Definitions under a comment that begins with "Fault:" are mistakes the code could
have made; nothing uses them. Each is put in the place of the definition it precedes
to see that the properties notice.

### N2PWriter

State: the fields of `struct N2PWriter` under their own names (`offset`,
`codec`, `encoding`, `schemaLocked`, `leaves`, `topChildren`, `rowGroups`,
`totalRows`, `lastError`), the stream (`stream`, `synced`, `bad`), the call in
progress (`handle`, `pc`, `current`, `closing`) and what the caller has seen
(`calls`, `ret`, and the history variable `accepted`). `footer_written` is left
out: the call that sets it frees the writer. `last_error` is whether there is a
message.

A call that the caller cannot see inside of and that touches the stream at most
once is one action. `write_batch` takes several: `StartBatch` (the argument checks
and the schema lock), one `WriteLeaf` per leaf, and `FinishBatch`; `RefuseLeaf` and
`LeafThrows` are the ways out of the loop. `close` is two: the footer, then
flush and free. The crash may come between any two of them.

The file is a sequence of units (magic, page, footer, footer length), and offsets
count units; a page carries the batch, the leaf, the encoding and the codec in
place of the bytes. This keeps what an offset error would change and drops the
sizes.

The stream: it takes what it is given and may drain any prefix of it to the disk
at any write. A drain that fails sets `badbit`; from then on nothing is taken, but
what is buffered may still drain when the stream is closed. A crash leaves on
the disk what had drained. (A drain that is torn in the middle of a unit, or
repeated by the final `close`, is not modelled: a unit is on the disk or not.)

Which of a leaf's layouts is taken (dictionary or PLAIN) depends on values,
hence on a choice; which ones are possible depends on the leaf's type and the
encoding mode (`Layouts`).

### N2PWriteFile

Each step is a step of `N2PWriter` together with what `n2p_write_file` does with the
status. `err` is whether a message was copied to the caller.

### LeafLevels

A behaviour checks the arrays, takes the rows one at a time and writes the page.
The arrays are chosen in `Init`, all that the shape allows: validity bitmaps,
`null_count` exact or -1, offsets in and out of order, arrays sliced or lacking a
child or a buffer. A value is represented by its position in the leaf array, so a page
that repeats, drops or moves a value is told apart from one that does not.

The reference is written from the other side: `Rows` reads the arrays as the Arrow
format says, `RowsRead` assembles records from the page as a Parquet reader does,
and `PageDecodesToRows` compares the two.

`Shredder::walk` calls itself at the next step of the path. Here `Walks` is a function
of the step: `Walks[k]` gives for each call (an element, and the two levels it is met at)
whether the walk fails and the entries it emits, and `Walk` and `Items` make it from
`Walks[k + 1]`. `Values` and `Reads`, the two sides of the comparison, are functions of the
step in the same way. `Pieces` is how a reader cuts a run of levels into the elements of a
list.

Large lists differ from lists in the width of their offsets only, and are not told
apart. The arrays of a caller may be ill-formed in every run: too short, sliced, with offsets
that step back, without a buffer, with nulls in a REQUIRED node, counted or not. Where
the writer does not look at one of these, the property that breaks names it as a
condition on the caller. `PageDecodesToRows` has three:

* `batchOffset = 0`. The offset of the record batch itself is never read (`slice`); it is
  a member of `BatchOffsets`, {0} in `levels` and {0, 1} in `slice`.
* `OffsetsGrow`. A list that is null, or lies in a null, is not looked into, and its offsets may
  step back (disagreement 7).
* `NullsAreSeen`. A REQUIRED node is asked for nulls through its `null_count`, which may be -1,
  and outside of lists only the leaf is asked at all (`LooksForNulls`). A null the writer does
  not look for is written as a value (disagreements 8 and 9). `SeenNullsAreRejected` is
  what is left of "REQUIRED columns reject actual nulls"; `RequiredHoldsNoNull` is
  the sentence itself, and the run `levels` violates it when it is added.

### SchemaTree and LeafPages

`SchemaTree` has `map_format` (`MapFormat`) and `flatten_node` as operators on a tree of
Arrow nodes: the elements of the footer in pre-order, and the leaves with their path,
greatest levels and the children that lead to their array. The other side of it is
`Read`, the reader that rebuilds the tree from the flat list by the counts of children.

A behaviour of `LeafPages` locks the schema of a batch, or refuses it, then writes its
leaves one by one in one of the four modes of `N2PEncoding`. A value is its bytes, so
widening, bit-packing around nulls, dictionary indices, deltas modulo 2^w and byte
streams are what they are in the code. nanom's encoders are external and stand for the
sequences they encode. The reader side (`ReadValues`, `ReadOrder`) knows the footer and
the page headers only. Levels are left to `LeafLevels`, the places of pages to `N2PWriter`.

### SoaWriter

State: `w_` and `status_` of the Writer, the C writer behind the pointer (`handle`), and
the file, an instance of `ParquetFile`: the C ABI adds a row group when `write_batch`
returns OK and seals the file when `close` does, which is what `N2PWriter` is checked
and proved to do. Each method is an action; `write_file` is a caller whose next call is
determined (`NextInWriteFile`).

A chunk is a sequence of columns, one per node of the schema in the order `build_node`
visits them, each naming the group it is in; so the recursion over nested fields becomes
a definition per node. `Written` is what the C ABI makes of the arrays (bitmaps, wrapped
offsets, one byte sequence per string column), `Meant` what the caller means by the
columns, and `SealedHoldsTheChunks` compares the two over the life of a Writer. `Schema`
and `WellTyped` stand for the `static_assert`s.

The offsets of a string column and the packed bits of a bool column are sized by the first
leaf and filled by the column's own elements (`Overruns`; of a bool column only a TRUE element
writes, and eight share a byte). Writing past the end of a buffer is undefined: the process
may die (`ChunkOverruns`) or go on to refuse the chunk. Left out: writing to a Writer after it was closed (it returns
the status it has, OK, and writes nothing), and the null counts of nullable columns, which
`N2PWriter` does not read.

### PyWriter

State: `writer_`, `row_groups_` and `num_rows_` of the object (`writer`, `rowGroups`,
`numRows`), the C writer behind the pointer (`handle`), and for each thread where it
is. Only two places in a call give the interpreter lock up: the loop of `write_table`
between two batches, and `write_batch` between its `ensure_open` and the end of the
import. So `Enter` looks at `writer_`, any steps of other threads may follow, and the
write comes in another action, which looks again, as the code does
(`n2p_bindings.cpp` 140-144). `close`, the context manager and the destructor are one
action each. `returned` and `closing` are history: what the calls have told each thread.

### PyTable

One call at a time, on one object, step by step. `holder` says who holds each Arrow
structure (the producer, a capsule, a stream, a local of the call), `armed` which capsules
still have their destructor, and `releases` how often each structure was released.
`ArrowSchemaMove` and its kind are a change of holder; leaving a function (`Leave`)
releases what its locals hold, and capsules then release what they still hold. `lent`
are the references to the NumPy arrays: those of the caller, of the record batch, and of
the private data of the exported array. `consume` stands for a consumer of a NumPy batch
other than the writer.

A NumPy column has its kind, width, order, layout and values; `Memory` is its buffer and
`ReadAt` what Arrow finds in it. `import_batch` releases a structure that holds nothing
in two cases, which end the process (section 5).

### PcapConverter

The capture and the command line are chosen in `Init`. A capture is a sequence of
blocks with sizes; the window is the index of its first block (`next`), the bytes it
holds (`valid`) and its `capacity`. `scan_window`, the parsers and the decoders are in a
library that is not part of the repository, so they are modelled by what `run` relies
on: the scan finds the blocks that lie whole in the window, or refuses; a packet is
decoded into the tables its block names. One turn of the loop in `run` is one action:
`ScanFails`, `NoWholeBlock`, `ProcessWindow` or `WindowFails`; `ClosePackets` follows,
then one action per PDU table, then the LLDP table.

A file of the converter is what `ParquetFile` promises of a writer: the row groups it
accepted and whether it is sealed; a close that fails may leave either. Any open,
write and close may fail. `args.drop` and `args.take` are 64-bit and their sum wraps
(`SliceEnd`); `MaxU64` stands for `UINT64_MAX`.

The reference (`PacketBlocks`, `LinkOf`, `InSlice`) reads the capture as a whole, with no
windows.

Left out: the usage error of `main` (exit 2, before anything exists), the time
resolution and the numbers of a row that are copied from its block, the counters of the summary,
the crash of the program, and two inputs whose meaning depends on the external parser
or the window: an interface block that does not parse, and a packet that names an
interface declared only after it (malformed; the interfaces are looked up after the
whole window has been classified, so the link type found depends on the window). A
read error looks like the end of the file to `Window::fill`.

## 3. The runs

| Run | Result | What it shows |
|---|---|---|
| `stream` | passes, 1.66 million states | every order of streaming calls, with failing disks and crashes |
| `oneshot` | passes, 6 thousand states | every outcome of `n2p_write_file` |
| `levels` | passes, 1.28 million states | leaves of every nesting, well formed and broken |
| `pages` | passes, 57 thousand states | schemas of every nesting, and values at the limits of every type in every encoding |
| `soa` | passes, 26 thousand states | every order of the calls of a SoA Writer, over chunks of every form |
| `python` | passes, 37 thousand states | two threads that write, close and forget one writer, with a close between the import of a batch and its write |
| `table` | passes, 906 states | `write_table` and `write_batch` of streams, single arrays and NumPy batches that fail at any step |
| `convert` | passes, 51 thousand states | captures through windows of every size, with every failure |
| `codec` | finds a violation | a codec change between batches makes the footer lie |
| `slice` | finds a violation | the offset of the record batch itself is not looked at |
| `mismatch` | finds a violation | a string or bool column longer than the first is written past a buffer before it is refused |
| `bool` | finds a violation | a NumPy column of booleans is read as bits although it has a byte per value |

The properties that matter (a name may stand for a conjunction of named parts):

* `SealedIsAccepted`: a file that opens reads back exactly the batches whose
  `write_batch` returned OK, in order.
* `FooterMatchesPages`, `CodecMatchesPages`: every chunk of a complete file points at the
  pages of its own leaf and of one batch, in the encoding and the codec it names.
* `ChunksTileAcceptedPages`: the pages of accepted batches are covered by exactly one
  chunk, and the orphan pages of failed batches by none.
* `CloseOkIsDurable`: OK from `close` means that everything is on the disk.
* `ImplementsParquetFile`: a file is sealed at most once, in one step from writing;
  a file whose stream failed before the footer, or whose process died, never opens.
* `FileMatchesResult`, `ReturnsAndFrees`: the one-shot contract. OK means that the whole
  batch is in the file; a batch that is refused leaves none of its rows.
* `PageDecodesToRows`, `NullCountIsExact`, `LevelsOK`: the body of a page is what a reader
  needs. `WellFormedIsWritten`, `SeenNullsAreRejected`, `SlicesAreRefused`: the checks
  refuse no good array, and let no null or slice through that they look for.
* `SchemaOK`: a reader rebuilds the Arrow schema from the elements of the footer, and
  the columns are the leaves, each read from its own array. `ValuesReadBack`,
  `StatisticsBoundTheValues`: a reader gets the values, and bounds that let it skip no
  row it wants. `SupportedIsWritten`: the types of the README are written in every nesting
  and nothing else is.
* `SealedHoldsTheChunks`, `AcceptedIsRectangular`, `HandleOK`, `StatusIsTold`: a SoA Writer
  puts every value and every null where the caller put it, refuses chunks that are not
  rectangular, and its pointer and its status keep step with the C writer and the file.
* `HandleOK` (of `PyWriter`), `CountersMatchTheFile`, `RowsMatchTheFile`: no thread uses a
  writer another has freed; the counters of the object are those of the file.
  `SealedHoldsWhatReturned`, `CloseIsTold`: each thread finds its batches, and only
  those, in a file that opens, and a file that is lost has made its close raise.
* `OwnershipOK`, `NeverReadsFreed`: each Arrow structure is released, once, and the memory
  of a NumPy array outlives what borrows it. `SealedTableIsComplete`,
  `WrittenIsTheArray`: a file that opens has all of the table, and its values; after a
  `write_batch` that raised, it has the batch or no rows.
* `PacketsOK`, `PdusJoinPackets`, `WindowOK`: what the converter writes does not depend on
  where the windows fall: each packet of the slice once, in order, under its number in
  the capture, with the link type of its own section's interface, and every PDU row
  joins back to it; the window grows for large blocks only.
* `ExitZeroIsComplete`, `OpenedIsClosed`: a conversion that reports success is complete,
  and one that fails leaves no stream open.
* `Terminates`, and `CallsEnd` of the two Python modules: the loop of the converter, and
  every call from Python, ends.

### Bounds

* `MaxBatches = 2` (stream): enough for an accepted batch before or after a failed
  one, a second batch under a locked schema, and two accepted ones in order. The
  first batches of `MCBatches` have two leaves, so that a batch can fail between
  them; the last has another shape, to be refused or to lock the schema first.
* `MaxBatches = 1` (oneshot): the function writes one. One batch has three leaves.
* `CodecAnyTime = FALSE` in the passing runs: the documentation asks for the codec
  to be set before the first batch (README.md:162,169). `codec` drops that.
* `levels`: at most three nodes on a path, two or three elements per array and up to
  two rows; one slice or one missing child or buffer per input. This reaches a list of
  several elements after a row that is null, an empty list inside a list, a null
  struct over a list and under one, elements that no row reaches, and each check
  both ways. Paths of three nodes are taken over well-formed arrays, except four.
* `pages`: every type alone with three values at the limits of the type, of which none,
  two or all are present; ten booleans, to cross a byte; eight strings with one to eight
  different ones, to cross the choice of the dictionary; and schemas of up to three
  levels, with every form that is refused, in one column and in two.
* `soa`: three schemas (flat; a string in a nullable group in a required one; a first
  leaf inside a group), strings of different lengths, masks that fit, are short, long or
  empty, columns of the wrong length; `MaxCalls = 3` for a failed, a refused and an
  accepted chunk in any order. `MaxInt32 = 7` is not reached: beyond it the offsets wrap,
  and nothing says what should become of such a chunk.
* `python`: two threads, as staleness takes one that imports and one that closes; two
  batches, one without rows; tables of no batch and of two, so that a close can fall
  between them; `MaxCalls = 3`, for a call of each thread and one more after a failure.
* `table`: at most two batches; `MaxCalls = 2`, as the second call finds what the first has
  left; every way to refuse a NumPy array; arrays of two bytes and eight, none big-endian,
  none of booleans (those are `bool`).
* `convert`: captures of up to five blocks with two sections, two kinds of interface,
  IP, LLDP, unparsable and classic packets; windows smaller than a block, of a few
  blocks, and of the whole capture; slices with and without an end, the empty one and
  some that cross a window boundary; two PDU tables, so that one can fail and the other
  not. `MaxU64 = 15` is above every packet number and every `drop + take` of the run. (A
  sum beyond 64 bits wraps in `SliceEnd` as in the code, and the packets after the drop
  are then not written.)

`CHECK_DEADLOCK FALSE`: a freed writer, a dead process, a leaf or batch that is written or
refused, a destroyed Writer or Python object, an object nobody calls any more and a
finished conversion are ends of the system.

### Fairness

`SpecFile` and the specifications of `PcapConverter` and `PyTable` have weak fairness of
their next step inside a call: this is straight-line code, or one loop, over calls that
return, and nothing else runs in it. (In `PyTable` a caller is not obliged to make a
call, nor to forget an object.) `PyWriter` has weak fairness of the steps of each
thread in a call: the interpreter hands its lock to every thread that waits for it. The
streaming writer and the SoA Writer have none: nothing obliges a caller to call `close`,
and no property asks for it.

## 4. What is proved

All of it for every value of the constants, from the assumptions the modules state on
them (a batch has a number of rows and a finite list of leaves; `Rows` gives each batch a
number; the object of a call has a kind and a number of batches; and so on). Where a theorem
needs more of its inputs than the module does, the hypothesis has a name in the table.

| Module | Theorem | |
|---|---|---|
| `N2PWriter_proofs` | `TypeCorrect` | `Spec => []TypeOK` |
| | `InvariantHolds` | the inductive invariant |
| | `SealedIsAcceptedAlways` | `SealedIsAccepted` |
| | `FooterMatchesPagesAlways` | `FooterMatchesPages` |
| | `CloseOkIsDurableAlways` | `CloseOkIsDurable` |
| | `Refinement` | `Spec => ImplementsParquetFile` |
| | `ChunksTileAcceptedPagesAlways` | `ChunksTileAcceptedPages` |
| | `CodecMatchesPagesOnceSet` | `CodecMatchesPages`, when the codec is set before the first batch |
| `N2PWriteFile_proofs` | `FileMatchesResultAlways` | `FileMatchesResult` |
| `LeafLevels_proofs` | `Inductive` | the inductive invariant |
| | `LevelsAreOK` | `LevelsOK` |
| | `NullsAreCounted` | `NullCountIsExact` |
| | `WellFormedIsTaken` | `WellFormedIsWritten` |
| | `RequiredIsPresent` | `SeenNullsAreRejected` |
| | `PageReadsBack` | `PageDecodesToRows` |
| `SoaWriter_proofs` | `HandleKeepsStep` | `HandleOK` |
| | `StatusIsTrue` | `StatusIsTold` |
| | `AcceptedIsRectangularAlways` | `AcceptedIsRectangular` |
| | `FileHoldsTheChunks` | `SealedHoldsTheChunks`, when offsets fit (`OffsetsFit`) |
| `PyWriter_proofs` | `TypeCorrect` | `TypeOK` |
| | `HandleIsSafe` | `HandleOK`, for any number of threads |
| | `CountersAgree` | `CountersMatchTheFile` |
| | `ClosesAreTold` | `CloseIsTold` |
| | `RowsAreCounted` | `RowsMatchTheFile` |
| | `ReturnedIsInTheFile` | `SealedHoldsWhatReturned` |
| `PyTable_proofs` | `OwnershipHolds` | `OwnershipOK` |
| | `BorrowedStaysAlive` | `NeverReadsFreed` |
| | `SealedTableIsWhole` | `SealedTableIsComplete` |
| | `NumbersAreTheArrays` | `WrittenIsTheArray`, for arrays of numbers (`NumbersInOrder`) |
| `PcapConverter_proofs` | `OpenedIsAlwaysClosed` | `OpenedIsClosed` |
| | `WindowStaysSmall` | `WindowOK` |
| | `PdusAreOfThePackets` | `PdusJoinPackets` |
| | `ZeroMeansComplete` | `ExitZeroIsComplete` |
| | `PacketsAreTheCapture` | `PacketsOK`, under `SliceFits`, `InterfacesParse` and `NamesInOrder` |

### Loops over data

The library's induction theorems take an operator, which no installed prover can
instantiate. What the proofs use instead is in `SequenceLoops_lemmas`:

* a set is a value, so induction is over a set of numbers: `Least` takes the least number
  of a set from `NatLessThanWellFounded`, and `InductTo` says that a set that has 0 and
  with every number its successor has all numbers up to a bound;
* a loop is written as a recursive function (`Sums`, `Picks`, `Classifying`), and
  `Recursion` shows that the equation that defines it has a solution, by collecting the
  pairs of step and value that such a solution would have up to each step. `TreeRecursion`
  does so for the flattening of sequences, which splits a sequence in two;
* from these come the equations of each loop (`SumsDef`, `PicksDef`, `FlattenDef`) and
  what follows by induction: what is kept of a sequence and one more, or of one behind another,
  (`PickedAppend`, `PickedConcat`), that a longer loop keeps what a shorter one kept
  (`PicksAgree`, `PicksGrow`), that sums of positive sizes grow (`SumsGrow`), where an
  element of a flattened sequence comes from (`FlattenAt`, `FlattenLocate`), which element is
  kept as the n-th (`PickedAt`, `PickedInOrder`).

The recursion over the steps of a path goes the other way: `WalksDef`, `ValuesDef`,
`ReadsDef` show that the equation of such a function has a solution, and `InductDown` carries
a fact from the leaf up to the column.

This is why `LeafLevels`, `PcapConverter`, `SoaWriter` and `PyWriter` use `SequenceLoops` in
place of the folds and `SelectSeq` of the community modules.

### The streaming writer

None of the three safety properties is inductive: they speak about the disk of a
complete file and say nothing until the footer is there. The invariant says
what holds on the way (`IInv`, the conjunction of):

1. `OffsetInv`: as long as the stream is good the offset is the length of what it
   has taken, and what it has taken starts with the magic;
2. `SchemaInv`: a schema that is locked has a leaf, and nothing is written before;
3. `CurrentInv`: as long as the stream is good, the chunks of the batch in
   progress point at its pages in the stream;
4. `GroupsInv`: as long as the stream is good, the recorded row groups are the
   accepted batches, one for one, and their chunks point at their pages;
5. `FooterInv`: a footer in the stream lists the accepted batches and describes pages
   that come before it, and no call but `close` is left once it is there;
6. `CloseInv`: a close that has met no failure has the whole file in the stream, and
   one that returned OK has it on the disk.

`GroupsInv` is where the order in `write_one_batch` matters: a row group
recorded after the stream failed makes the record longer than the accepted batches,
and it is the bad stream that keeps that record out of the file. Every step of the
proof that an action keeps `IInv` rests on two lemmas: what `WriteBytes` leaves
behind (`WriteBytesExtends`), and that a chunk stays correct when the stream grows
(`ChunkKept`, `GroupKept`).

`Refinement` adds `EndInv` (`RInv`): what the abstract file is at each point of a call,
above all that an end is an end: once the stream is bad before the footer, or
the handle is freed, no later step makes the file readable or takes it back. Init maps
to Init, and each action to an `Add`, a `Seal`, a `Lose` or a stutter.

`ChunksTileAcceptedPagesAlways` looks at pages one by one. `PagesInv`: between magic and footer there
are pages only, of batches that have begun. `BatchInv`: a batch goes by the number of its
call and is accepted once. `WholeInv`: a chunk is one run of pages of one leaf and one
batch, so a page can be in the chunks of its own batch alone. `CoverInv`: the pages of
an accepted batch are in its chunks. Each is lost by a batch that fails half-way unless
the others hold. `CodecInv`, under `~CodecAnyTime`, says that no page is out before the
codec is settled.

### Levels and values

`LeafLevels_proofs` is about every path of structs, lists and maps, every size of the arrays
and every content of them that `Init` allows. The hard part is not the steps, which add a row
at a time, but what one call of the walk leaves. `WalkCases` lists it: a call fails, or emits
one entry (a null, an empty list, a value), or the entries of one call below (a struct),
or those of several, one behind another (a list). From it, from the leaf up:

* `WalksFit`: the entries of a call repeat at the level it was met at or, after the first, above
  the level of its parent; definition levels stay in range, and the greatest marks a value;
* `WalksRise`: if offsets grow, the values of a call rise, and those of a later element
  come after those of an earlier one (`RisesAbove`);
* `WellFormedWalks`, `ReachedIsWalked`: on well-formed arrays no call fails, and each element
  some row reaches was passed to a call that did not fail.

The inductive invariant `IInv` then says little: `Shredded` (the levels are the entries of
the rows done, one row behind the other, and count and set of the values are theirs), what
`CheckLeaf` has looked at (`LeafOK`), that the page is the one the levels give (`FullPage`), and
why a refusal happened.

`PageReadsBack` is the theorem the module is for: what a reader assembles is what the arrays
hold. It rests on two facts about data that the writer keeps apart:

* `PartsAreFound`: where parts stand in the page one behind another, each begun by an entry that
  repeats at level r at most and continued above r, a reader that cuts at r finds
  just these parts. `WalksFit` says that the elements of a list are such parts at the
  level of the list, and the rows at level 0;
* `ValueIsRead`: the n-th entry at the greatest definition level is the n-th value of the page.
  The entries rise, and `PageValues` keeps the positions in order, so counting from the left finds
  the same one. This takes `TakenIsPresent`: where the writer takes the whole leaf array
  because as many values were seen as it has elements, it is because each was seen once.

`WalksReadBack` puts them together from the leaf up: the entries of any call, wherever the
page holds them, read back as the element it was called for. A column without a list has no
walk; `FlatDepth` counts its OPTIONAL nodes above the first null, and `FlatReadsBack` follows.
The three conditions that the property names enter here: a slice of a batch is read from its
buffer's beginning, offsets that step back let two lists share values, and a null that the
writer does not look for is written as a value. The property fails without any one of them.

### Its callers

`N2PWriteFile_proofs` takes every step of the function for a step of `N2PWriter`, which
brings its invariants along, and adds `PhaseInv` (what has happened by the time of each
of the three calls) and `RowsInv` (no accepted batch, no rows in the footer).

`SoaWriter_proofs`: `PointerInv` ties `w_` to the C writer and `status_`, `ToldInv` says that
accepted chunks fit, `FlowInv` where `write_file` is and what its last call has said.
`FileHoldsTheChunks` then compares, element by element, what the C ABI makes of the arrays
with what the caller means: the bitmap says what was marked (through every group
around it), and between two of its offsets a string finds its own bytes, as the offsets are the
running sums of the lengths of what lies before. `OffsetsFit` asks that the bytes of a column with
32-bit offsets can be counted in 32 bits; beyond that the offsets wrap, and Arrow has no
such array.

`PyWriter_proofs`: `LifeInv` ties `writer_` to the C writer through the life of the object,
`CallInv` says where a thread can be (and that it keeps the object alive), `FileInv` ties the
file to what the closing call has told. The pointer is never stale because `writer_` is
looked at again in the very step that uses it. `HoldInv` says that the counters and what each
thread was told agree with the file at every point, sealed or not: a batch goes into the
file, the counts and the history of its thread in one step, and nothing is taken back.

`PyTable_proofs`: `CountInv` counts releases by the holder, `CapsuleInv` says that a capsule
has its destructor exactly as long as its structure is in it, `WhereInv` gives the holders
at each step of a call, `NumpyInv` the references to the arrays. The lemma all steps rest
on is `ReleasingOnce`: a function that leaves releases locals and capsules that share no
structure, each with what is in its stream. `TableInv` is the progress of the table.
`NumbersAreTheArrays` reads the memory of an array as Arrow does: in elements of one size, laid one after another, the number at a place is
that of the array. `NumbersInOrder` excludes what `bool` shows to fail (an element of
one byte read as a bit) and a foreign byte order, which the code does not look at.

### The converter

`PcapConverter_proofs` is about every capture, every window size and every failure. `IInv` has
a part for each thing that moves:

1. `WindowInv`: in the loop, the window holds the next bytes of the file, as many as there
   are and as it has room for, and it has grown for a block that did not fit and no further
   than that (`WindowOK`);
2. `PacketInv`, `DecodedInv`: sections and packets are well formed, numbers decoded are those of
   packets seen, in order, and nothing is decoded that was not asked for;
3. `StageInv`, `WriterInv`: where `run` is, and that only the packets table stays open
   from one step to the next (`OpenedIsClosed`);
4. `FilesInv`: what was decoded is what the decoders find in the rows of the packets table,
   and a PDU table is written when the packets table is sealed, with just that
   (`PdusJoinPackets`). A failed window breaks the first half, and ends the run;
5. `ExitInv`: as long as no table has failed, those before the next are complete
   (`ExitZeroIsComplete`).

`SliceInv` compares the converter with a reader of the whole capture. `ScanInv`: between two windows
the sections and the number of packets seen are what one pass over all blocks before the
window gives, so it does not matter where windows begin. `RowsInv`: the rows
written are the slice of those packets, each under its own number and with its own
link type. `EndInv`: the loop ends at the end of the capture or past the slice. The link type
is the subtle part: a packet is looked up in its section's interfaces after the whole window was
classified, when there may be more of them than the packet may name.
Hence the hypotheses, which every capture and command of `convert` satisfies:

* `NamesInOrder`: no packet names an interface that its section declares only
  later (pcapng requires the interface to come first);
* `InterfacesParse`: every interface block parses. One that does not takes no number, and
  later interfaces move up by one;
* `SliceFits`: `drop + take` can be counted in 64 bits, or no `--count` was given.

### Checked by TLC and not proved

* Liveness: `ReturnsAndFrees`, `CallsEnd` (twice), `Terminates`: fairness and ENABLED are out of
  the prover's reach.
* The properties of `LeafPages`: `SchemaOK`, `ValuesReadBack`, `StatisticsBoundTheValues`,
  `SupportedIsWritten`. It and `SchemaTree` are recursive as the code is, over trees of any
  shape, where the path of `LeafLevels` is a sequence; modules with RECURSIVE operators are
  out of the prover's reach.

What is proved under a hypothesis fails without it: for `NumbersInOrder` the run `bool` shows it.
`CodecMatchesPages` is proved of callers that set the codec first, and `codec` shows the others.
`PageDecodesToRows` and `ValuesInOrder` carry their conditions themselves, and
`SeenNullsAreRejected` names the nodes it is about (section 5, 7 to 9).

### What the proofs found in the model

The guards of some CASE expressions overlapped (`NextBatch` of `PyTable`; `Key`, `StatsOrder`,
`ReadFormat` and `ReadValues` of `LeafPages`). TLC takes the first that holds; the meaning of such a
CASE is any of them, and the proof about `NextBatch` could not be closed. They
are now disjoint, in the order the code tests them.

`ValuesInOrder` and `PageDecodesToRows` are not so for every array the code takes. An array
of the model used to have growing offsets; the proof of
`WalksRise` asked for more than the lists that the walk looks into, and TLC found the array: the
offsets step back at a null list, each list that is walked lies in its child, and two of
them share values. The condition now stands in the properties, as `OffsetsGrow`, and
arrays of any offsets are in the run.

## 5. Disagreements found

Four have a run whose counterexample shows what the code does where its documentation
says otherwise; PROJECT.json quotes the lines.

1. `codec`: `set_codec` between batches: the footer names one codec for all chunks.
2. `slice`: a record batch that is itself a slice is accepted, and written from row 0.
3. `mismatch`: a SoA string column longer than the first column has its offsets written
   past the end of their buffer before the chunk is refused; and so have the bits of a bool
   column, where a TRUE element lies beyond the last byte that the rows take.
4. `bool`: a NumPy array of booleans, which the documentation lists as supported, is lent
   to Arrow byte for byte, where Arrow reads bits: a TRUE after the first value is
   written as FALSE.

The others are reached by a small change to a configuration, named here, and have no run of
their own:

5. `n2p_write_file` whose close fails returns no message (`FailureHasMessage` of
   `N2PWriteFile`, in the run `oneshot`).
6. An LLDP table that does not close is not noticed (`LldpIsWritten` of `PcapConverter`, in
   `convert`).
7. Offsets that step back across a null list are accepted, and values are shared
   (`ValuesInOrder` and `PageDecodesToRows` of `LeafLevels` without their condition
   `OffsetsGrow`, with `Shapes <- BackwardShapes`).
8. A required struct with nulls on a path without a list is accepted, where README.md:89 says
   that "REQUIRED columns reject actual nulls" (`RequiredHoldsNoNull` of `LeafLevels` as an
   invariant of `levels`, with `Shapes <- Structs`).
9. `null_count` of -1 on a required column lets nulls pass, against the same sentence
   (`RequiredHoldsNoNull` in `levels` as it is; with `Shapes <- Flat` of a single column).
10. The README of the bindings says (106-107) that a file whose close is skipped is left
    unreadable; the destructor closes it (`SkippedCloseIsUnreadable` of `PyWriter`, in
    `python`).
11. The export of a NumPy batch through `__arrow_c_array__`, and the import of an array
    capsule with a wrong name, release structures that hold nothing
    (`NeverReleasesNothing` of `PyTable`, with `Uses <- ExportUses`). That the call goes
    through a null pointer rests on `ArrowSchemaRelease` of nanoarrow, which is not part
    of the repository.

Three more were read and are not a matter of a model. Of the README of the bindings:
the module's `write_batch` takes no notice of the `codec` it lists (93), and statistics
(132), lists and maps (174-175) are said not to be written, where the code has them.

## 6. Not modelled, and what is left

Not modelled:

* the bytes of Thrift, and of RLE and delta blocks: nanom encodes them, and is not part
  of the repository; zstd, whose failure is `LeafThrows` of `N2PWriter`;
* `scripts/amalgamate.py` and the generated `single_include/`; benchmarks, tests and the
  oracles that read files back; `ExportedTable` of `arrow_capsule.hpp`, which nothing uses;
* big-endian and masked NumPy arrays and Arrow dictionaries: the code does not look at
  them and nothing says what should become of them;
* later batches with the number of columns of the first and other types: a caller's
  mistake that the code does not see (README.md:169), and neither does the model;
* memory that is only lost: the handle of a failed open, the box of a capsule;
* a SoA chunk written after `close`, and offsets beyond 2 GiB;
* of the converter, what is listed in section 2.

Limits of what there is: `SchemaTree` and `LeafPages` are checked on small schemas and not
proved, as said in section 4; the theorems about callers take the C ABI for what
`ParquetFile` promises, and the refinement that joins them to `N2PWriter` is proved for the
file, not for each caller again; the encoders would need a model of their own, should they
come into the repository.
