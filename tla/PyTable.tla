-------------------------------- MODULE PyTable --------------------------------
(***************************************************************************)
(* write_table and write_batch of the Python module (n2p_bindings.cpp), the *)
(* import of Arrow data through PyCapsules they rest on (arrow_capsule.hpp), *)
(* and the record batch that lends NumPy arrays to Arrow (numpy_bridge.hpp). *)
(*                                                                          *)
(* What can go wrong is ownership: a schema, an array or a stream is         *)
(* released by whoever holds it last, once, on every way out, and the memory *)
(* of a NumPy array stays until nobody reads it.                             *)
(***************************************************************************)
EXTENDS Integers, Sequences, SequencesExt, FiniteSets

CONSTANTS
    Uses,     \* what may be called with which object
    MaxCalls  \* bound: calls with the same object

\* A NumPy array.  dtype: its kind and itemsize, and the order of its bytes.
Column ==
    [name : STRING, ndarray : BOOLEAN, dtype : {"b", "i", "u", "f", "O"}, itemsize : Nat,
     order : {"little", "big"}, ndim : Nat, contiguous : BOOLEAN, values : Seq(Nat)]

\* An object with Arrow data.  kind: the methods it has, __arrow_c_stream__ or only
\* __arrow_c_array__; "numpy" is a RecordBatch of the bridge and has both.  batches: how
\* many.  capsules, schema: how many capsules __arrow_c_array__ returns, and whether
\* there is an __arrow_c_schema__ as well.  misnamed: a capsule with a wrong name.
\* columns: the dictionary a NumPy batch is made of.
Source ==
    [kind : {"stream", "array", "numpy", "neither"}, batches : Nat,
     capsules : {1, 2, 3}, schema : BOOLEAN,
     misnamed : {"none", "schema", "array", "stream"}, columns : SUBSET Column]

\* "consume" stands for a consumer other than the writer.
Function == {"write_table", "write_batch", "consume"}

ASSUME MaxCallsAssumption == MaxCalls \in Nat
ASSUME UsesAssumption ==
    \A u \in Uses :
      /\ u.function \in Function
      /\ u.source.kind \in {"stream", "array", "numpy", "neither"} /\ u.source.batches \in Nat
      /\ u.source.kind \in {"array", "numpy"} \/ u.function = "write_batch" => u.source.batches = 1
      /\ u.source.columns \subseteq Column

VARIABLES
    source, function,
    pc,        \* the next thing that happens in the call
    holder,    \* who holds each Arrow structure
    armed,     \* the structures whose PyCapsule still has its destructor
    releases,  \* history: how often each was released
    lent,      \* the references to the memory of the NumPy arrays
    batch,     \* the caller has the NumPy record batch
    got,       \* batches taken from the stream
    handle,    \* the C writer: "none", "open", "unopened", "freed"
    process,   \* "running", or "dead" after the release of nothing
    outcome,   \* of the last call: "none", "returned", "raised"
    calls,
    state, groups  \* the file

arrowVars == <<holder, armed, releases>>
numpyVars == <<lent, batch>>
fileVars  == <<handle, state, groups>>
callVars  == <<source, function, process, calls>>
vars == <<callVars, pc, got, outcome, arrowVars, numpyVars, fileVars>>

\* The structures: a stream, its schema, the copy of it get_schema makes, its arrays.
Arrays == 1 .. source.batches
Stream == -1
Schema == -2
Copy   == -3
Parts == {Stream, Schema, Copy} \cup Arrays

IsNumpy == source.kind = "numpy"

------------------------------------------------------------------------------
(* NumPy columns *)

\* map_numeric_dtype: an Arrow type of the same width, or none.
Supported(c) ==
    \/ c.dtype = "b"
    \/ c.dtype \in {"i", "u"} /\ c.itemsize \in {1, 2, 4, 8}
    \/ c.dtype = "f" /\ c.itemsize \in {4, 8}

\* Fault: the layout of the array in memory is not asked for.
AcceptedStrided(columns) ==
    /\ columns # {}
    /\ \A c \in columns : c.ndarray /\ c.ndim = 1 /\ Supported(c)
    /\ \A c, d \in columns : Len(c.values) = Len(d.values)
\* build_record_batch.
Accepted(columns) ==
    /\ columns # {}
    /\ \A c \in columns : c.ndarray /\ c.contiguous /\ c.ndim = 1 /\ Supported(c)
    /\ \A c, d \in columns : Len(c.values) = Len(d.values)

\* The value v as an element in memory, and the memory of an array.  A byte is the
\* value it belongs to and its place in it.
Element(v, size) == [k \in 1 .. size |-> <<v, k>>]
Gap == -1
Memory(c) ==
    FlattenSeq([i \in DOMAIN c.values |->
        LET e == Element(c.values[i], c.itemsize)
            m == IF c.order = "big" THEN Reverse(e) ELSE e
        IN IF c.contiguous THEN m ELSE m \o Element(Gap, c.itemsize)])

\* What Arrow finds at index i of the borrowed buffer: BOOL has one bit per value, so
\* that value i is bit i % 8 of byte i \div 8; a byte of a NumPy bool is 0 or 1.
ReadAt(c, i) ==
    IF c.dtype # "b" THEN SubSeq(Memory(c), i * c.itemsize + 1, (i + 1) * c.itemsize)
    ELSE IF i % 8 = 0 THEN <<Memory(c)[i \div 8 + 1]>> ELSE Element(0, 1)

\* The row group that is written for batch k of a source, and what the caller meant.
\* The batches of other producers are Arrow's own and only numbered.
Batch(k) == {<<"batch", <<Element(k, 1)>>>>}
RowsOf(columns) == Len((CHOOSE c \in columns : TRUE).values)
Written(s, k) ==
    IF s.kind # "numpy" THEN Batch(k)
    ELSE {<<c.name, [i \in 1 .. RowsOf(s.columns) |-> ReadAt(c, i - 1)]>> : c \in s.columns}
Meant(s, k) ==
    IF s.kind # "numpy" THEN Batch(k)
    ELSE {<<c.name, [i \in DOMAIN c.values |-> Element(c.values[i], c.itemsize)]>> :
            c \in s.columns}

Groups ==
    UNION {{Written(s, k) : k \in 1 .. s.batches} :
             s \in {u.source : u \in {v \in Uses :
                      v.source.kind = "numpy" => Accepted(v.source.columns)}}}
File == INSTANCE ParquetFile WITH RowGroup <- Groups

------------------------------------------------------------------------------
(* Ownership *)

\* A stream holds its schema and the arrays that were not taken from it; releasing
\* it releases them.
InStream(owners) == IF Stream \in owners THEN {p \in Parts : holder[p] = "stream"} ELSE {}

Held == {p \in Parts : holder[p] = "local"}

\* Local structures and structures in a capsule are released, each by its own owner.
Releasing(local, capsule) ==
    LET once(owners, p) == IF p \in owners \cup InStream(owners) THEN 1 ELSE 0
        times == [p \in Parts |-> once(local, p) + once(capsule, p)]
    IN /\ releases' = [p \in Parts |-> releases[p] + times[p]]
       /\ holder' = [p \in Parts |-> IF times[p] = 0 THEN holder[p] ELSE "released"]
       /\ lent' = IF IsNumpy /\ times[1] > 0 THEN lent \ {"buffer"} ELSE lent

\* Fault: the structures the call still holds are forgotten.
LeaveHolding(how) ==
    /\ pc' = "done" /\ outcome' = how
    /\ Releasing({}, armed) /\ armed' = {}
    /\ UNCHANGED <<callVars, got, batch>>
\* The end of the call: a return, or an exception that unwinds it.
Leave(how) ==
    /\ pc' = "done" /\ outcome' = how
    /\ Releasing(Held, armed) /\ armed' = {}
    /\ UNCHANGED <<callVars, got, batch>>

\* A step inside the call that leaves ownership alone.
Goto(next) ==
    /\ pc' = next
    /\ UNCHANGED <<callVars, outcome, batch>>

\* Structures pass from one owner to another (ArrowSchemaMove, ArrowArrayMove).
Move(parts, to) == holder' = [p \in Parts |-> IF p \in parts THEN to ELSE holder[p]]

\* Fault: the capsule keeps its destructor.
StealShared(part) ==
    /\ Move({part}, "local")
    /\ UNCHANGED <<armed, releases, lent>>
\* steal_*_capsule: the structure is taken out, the destructor of the capsule cleared.
Steal(part) ==
    /\ Move({part}, "local") /\ armed' = armed \ {part}
    /\ UNCHANGED <<releases, lent>>

------------------------------------------------------------------------------
(* The caller *)

Init ==
    /\ \E u \in Uses : source = u.source /\ function = u.function
    /\ pc = IF IsNumpy THEN "build" ELSE "idle"
    /\ holder = [p \in Parts |-> "unmade"] /\ armed = {} /\ releases = [p \in Parts |-> 0]
    /\ lent = IF IsNumpy THEN {"arrays"} ELSE {}
    /\ batch = FALSE /\ got = 0 /\ handle = "none"
    /\ process = "running" /\ outcome = "none" /\ calls = 0
    /\ File!Init

Running == process = "running"
At(where) == Running /\ pc = where

\* Fault: the buffer keeps the address of the array alone.
BorrowedBare == {"columns"}
\* Both the batch and the buffers it lends keep a reference to the arrays.
Borrowed == {"columns", "buffer"}

\* record_batch(columns): the arrays are lent to Arrow, or refused.
Build ==
    /\ At("build")
    /\ IF Accepted(source.columns)
       THEN /\ pc' = "idle" /\ batch' = TRUE
            /\ Move({Schema, 1}, "producer") /\ lent' = lent \cup Borrowed
            /\ UNCHANGED outcome
       ELSE /\ pc' = "refused" /\ outcome' = "raised"
            /\ UNCHANGED <<batch, holder, lent>>
    /\ UNCHANGED <<callVars, got, armed, releases, fileVars>>

\* The interpreter runs the caller's code between calls, and while a consumer other
\* than the writer works on the stream.
PythonRuns ==
    /\ Running /\ pc # "build"
    /\ pc \in {"idle", "refused", "done"} \/ function = "consume"

\* The caller forgets its arrays, or its record batch: that releases what was not
\* exported from it.
ForgetArrays ==
    /\ PythonRuns /\ "arrays" \in lent
    /\ lent' = lent \ {"arrays"}
    /\ UNCHANGED <<callVars, pc, got, outcome, arrowVars, batch, fileVars>>
ForgetBatch ==
    /\ PythonRuns /\ batch /\ pc # "stream"
    /\ batch' = FALSE
    /\ LET left == {p \in Parts : holder[p] = "producer"}
       IN /\ holder' = [p \in Parts |-> IF p \in left THEN "released" ELSE holder[p]]
          /\ releases' = [p \in Parts |-> releases[p] + IF p \in left THEN 1 ELSE 0]
          /\ lent' = lent \ ({"columns"} \cup IF left = {} THEN {} ELSE {"buffer"})
    /\ UNCHANGED <<callVars, pc, got, outcome, armed, fileVars>>

\* A call, also of an object that was passed before: Arrow's own objects export
\* themselves anew.  write_table parses the codec first; write_batch does not look
\* at it.  BatchIterator prefers a stream.
Begin ==
    /\ Running /\ pc \in {"idle", "done"} /\ calls < MaxCalls /\ (IsNumpy => batch)
    /\ calls' = calls + 1 /\ got' = 0 /\ armed' = {}
    /\ handle' = "none" /\ state' = "writing" /\ groups' = <<>>
    /\ IF IsNumpy THEN UNCHANGED <<holder, releases>>
       ELSE holder' = [p \in Parts |-> "unmade"] /\ releases' = [p \in Parts |-> 0]
    /\ \/ /\ (function = "write_table" \/ source.kind = "neither")
          /\ pc' = "done" /\ outcome' = "raised"
       \/ /\ source.kind # "neither"
          /\ pc' = IF function = "write_batch" \/ source.kind = "array" THEN "import" ELSE "stream"
          /\ outcome' = "none"
    /\ UNCHANGED <<source, function, process, lent, batch>>

------------------------------------------------------------------------------
(* BatchIterator *)

\* A NumPy batch can be exported once.
Exported == IsNumpy /\ holder[Schema] # "producer"

ExportStream ==
    /\ At("stream") /\ ~Exported
    /\ Goto("steal")
    /\ holder' = [p \in Parts |-> CASE p = Stream -> "capsule" [] p = Copy -> "unmade"
                                    [] OTHER -> "stream"]
    /\ armed' = {Stream}
    /\ UNCHANGED <<got, releases, lent, fileVars>>
ExportRaises ==
    /\ At("stream") \/ At("import")
    /\ IsNumpy => Exported
    /\ Leave("raised")
    /\ UNCHANGED fileVars

StealStream ==
    /\ At("steal") /\ source.misnamed # "stream"
    /\ Goto("next") /\ Steal(Stream)
    /\ UNCHANGED <<got, fileVars>>
StealStreamRaises ==
    /\ At("steal") /\ source.misnamed = "stream"
    /\ Leave("raised")
    /\ UNCHANGED fileVars

\* import_batch.  ArrowSchemaRelease and ArrowArrayRelease call the release callback
\* without looking, and a structure that was moved away has none: the reset of the
\* pointers a NumPy batch has just moved its schema and array out of is such a call.
CallArray ==
    /\ At("import") /\ ~Exported
    /\ IF IsNumpy
       THEN /\ process' = "dead"
            /\ UNCHANGED <<source, function, calls, pc, outcome, batch, armed, holder>>
       ELSE /\ Goto("schema")
            /\ armed' = IF source.capsules = 1 THEN {1} ELSE {Schema, 1}
            /\ Move(armed', "capsule")
    /\ UNCHANGED <<got, releases, lent, fileVars>>

\* The schema comes with the array, or from a second method.
StealSchema ==
    /\ At("schema")
    /\ \/ source.capsules = 2 /\ source.misnamed # "schema"
       \/ source.capsules = 1 /\ source.schema
    /\ Goto("array") /\ Steal(Schema)
    /\ UNCHANGED <<got, fileVars>>
StealSchemaRaises ==
    /\ At("schema") /\ (source.capsules = 2 => source.misnamed = "schema")
    /\ Leave("raised")
    /\ UNCHANGED fileVars

\* The array is taken into a structure that is still empty: when that fails, the empty
\* one is released.
StealArray ==
    /\ At("array")
    /\ IF source.misnamed = "array"
       THEN /\ process' = "dead"
            /\ UNCHANGED <<source, function, calls, pc, outcome, batch, arrowVars, lent>>
       ELSE Goto(IF function = "write_batch" THEN "write_file" ELSE "make_stream") /\ Steal(1)
    /\ UNCHANGED <<got, fileVars>>

\* A single batch becomes a stream of one.
MakeStream ==
    /\ At("make_stream")
    /\ Goto("next")
    /\ holder' = [p \in Parts |-> CASE p = Stream -> "local" [] p = Copy -> "unmade"
                                    [] OTHER -> "stream"]
    /\ UNCHANGED <<got, armed, releases, lent, fileVars>>
MakeStreamRaises ==
    /\ At("make_stream")
    /\ Leave("raised")
    /\ UNCHANGED fileVars

\* next() moves a batch out of the stream, and with the first asks for the schema.
NextBatch ==
    /\ At("next") /\ got < source.batches
    /\ got' = got + 1
    /\ Goto(IF function = "consume" THEN "read" ELSE IF got = 0 THEN "open" ELSE "write")
    /\ Move({Copy, got + 1}, "local")
    /\ UNCHANGED <<armed, releases, lent, fileVars>>
\* Fault: a stream that failed is asked again.
NextRetries ==
    /\ At("next") /\ source.kind = "stream"
    /\ Goto("steal")
    /\ UNCHANGED <<got, arrowVars, lent, fileVars>>
NextRaises ==
    /\ At("next") /\ source.kind = "stream"
    /\ Leave("raised")
    /\ UNCHANGED fileVars
\* get_schema fails when the first batch is already taken.
SchemaRaises ==
    /\ At("next") /\ got = 0 /\ source.batches > 0
    /\ Releasing(Held \cup {1}, {})
    /\ pc' = "done" /\ outcome' = "raised"
    /\ UNCHANGED <<callVars, got, batch, armed, fileVars>>

------------------------------------------------------------------------------
(* write_table and write_batch *)

Open ==
    /\ At("open")
    /\ Goto("write") /\ handle' = "open"
    /\ UNCHANGED <<got, arrowVars, lent, state, groups>>
\* A writer that was handed back unopened is not closed.
OpenFails ==
    /\ At("open")
    /\ Leave("raised")
    /\ handle' = "unopened" /\ File!Lose

Write ==
    /\ At("write")
    /\ File!Add(Written(source, got))
    /\ Goto("next") /\ Releasing({got}, {})
    /\ UNCHANGED <<got, armed, handle>>
\* Fault: the writer is closed on the way out.
WriteFailsClosing ==
    /\ At("write")
    /\ Leave("raised")
    /\ handle' = "freed" /\ (File!Seal \/ File!Lose)
\* The exception leaves the writer as it is: open, and without a footer.
WriteFails ==
    /\ At("write")
    /\ Leave("raised")
    /\ File!Lose \/ UNCHANGED <<state, groups>>
    /\ UNCHANGED handle

\* Another consumer reads the batch, and gives it back.
Read ==
    /\ At("read")
    /\ Goto("next") /\ Releasing({got}, {})
    /\ UNCHANGED <<got, armed, fileVars>>
ReadEnds ==
    /\ At("next") /\ got = source.batches /\ function = "consume"
    /\ Leave("returned")
    /\ UNCHANGED fileVars

\* No file is opened for a table without batches.
NoBatches ==
    /\ At("next") /\ source.batches = 0 /\ function = "write_table"
    /\ Leave("raised")
    /\ UNCHANGED fileVars
CloseFile ==
    /\ At("next") /\ got = source.batches /\ got > 0 /\ function = "write_table"
    /\ Leave("returned")
    /\ handle' = "freed" /\ File!Seal
CloseFails ==
    /\ At("next") /\ got = source.batches /\ got > 0 /\ function = "write_table"
    /\ Leave("raised")
    /\ handle' = "freed" /\ (File!Seal \/ File!Lose)

\* n2p_write_file; N2PWriteFile says what its status means.
WriteFile ==
    /\ At("write_file")
    /\ Leave("returned")
    /\ handle' = "freed" /\ state' = "sealed" /\ groups' = <<Written(source, 1)>>
WriteFileFails ==
    /\ At("write_file")
    /\ Leave("raised")
    /\ handle' = "freed" /\ state' \in {"sealed", "lost"} /\ groups' \in {<<>>, <<Written(source, 1)>>}

------------------------------------------------------------------------------
Step ==
    \/ Build
    \/ ExportStream \/ ExportRaises \/ StealStream \/ StealStreamRaises
    \/ CallArray \/ StealSchema \/ StealSchemaRaises \/ StealArray
    \/ MakeStream \/ MakeStreamRaises
    \/ NextBatch \/ NextRaises \/ SchemaRaises
    \/ Open \/ OpenFails \/ Write \/ WriteFails \/ Read \/ ReadEnds
    \/ NoBatches \/ CloseFile \/ CloseFails \/ WriteFile \/ WriteFileFails

Next == Step \/ Begin \/ ForgetArrays \/ ForgetBatch

\* A call that has begun goes on: what it calls returns.
Spec == Init /\ [][Next]_vars /\ WF_vars(Step)

------------------------------------------------------------------------------
(* Properties. *)

TypeOK ==
    /\ holder \in [Parts -> {"unmade", "producer", "capsule", "stream", "local", "released"}]
    /\ armed \subseteq Parts /\ \A p \in armed : holder[p] = "capsule"
    /\ releases \in [Parts -> Nat]
    /\ lent \subseteq {"arrays", "columns", "buffer"} /\ batch \in BOOLEAN
    /\ got \in 0 .. source.batches /\ calls \in 0 .. MaxCalls
    /\ handle \in {"none", "open", "unopened", "freed"}
    /\ process \in {"running", "dead"} /\ outcome \in {"none", "returned", "raised"}
    /\ File!TypeOK

\* No structure is released twice, on whatever way a call ends: not by the capsule it
\* came in, the stream it was in, and the local it was moved to.
ReleasedOnce == \A p \in Parts : releases[p] <= 1

\* After a call nothing that was exported is left unreleased, and the memory of NumPy
\* arrays the caller has forgotten has nobody left who keeps it.
NothingIsLeft ==
    pc = "done" /\ process = "running" =>
      /\ \A p \in Parts :
           /\ holder[p] \in {"unmade", "producer", "released"}
           /\ holder[p] = "producer" => batch
           /\ holder[p] = "released" => releases[p] = 1
      /\ ~batch => lent \subseteq {"arrays"}

\* Every structure a call takes over is released by it, once, on whatever way it ends.
OwnershipOK == TypeOK /\ ReleasedOnce /\ NothingIsLeft

\* The memory of a NumPy array is there as long as Arrow structures that borrow it
\* may be read, also when the caller has forgotten the arrays and the batch.
NeverReadsFreed ==
    IsNumpy /\ holder[1] \in {"producer", "stream", "local"} => lent # {}

\* A release of a structure that holds nothing calls a null pointer.
NeverReleasesNothing == process # "dead"

\* A write_table or write_batch that returns has written every batch of its source, in
\* order.  When it fails, a file that opens lacks none of them: but for a write_batch,
\* whose one batch is there or not.
SealedTableIsComplete ==
    LET whole == [k \in Arrays |-> Written(source, k)]
    IN /\ outcome = "returned" /\ function # "consume" => state = "sealed" /\ groups = whole
       /\ state = "sealed" =>
            \/ groups = whole
            \/ function = "write_batch" /\ outcome = "raised" /\ groups = <<>>

\* Each value in a file that opens is the value in the NumPy array it was borrowed
\* from.
WrittenIsTheArray ==
    state = "sealed" => \A k \in DOMAIN groups : groups[k] = Meant(source, k)

\* Every call ends, for a stream that does.
CallsEnd == pc # "done" /\ calls > 0 ~> pc = "done" \/ process = "dead"
================================================================================
