------------------------------- MODULE SoaWriter -------------------------------
(***************************************************************************)
(* The struct-of-arrays front-end (soa.hpp): a Writer object that owns one  *)
(* writer of the C ABI.  write_chunk turns one column per field into        *)
(* borrowed Arrow arrays and passes them on; write_file is the one-shot     *)
(* call.  The C ABI is what N2PWriter promises: a ParquetFile, and a status *)
(* that is OK when a row group was added or the file was sealed.            *)
(*                                                                          *)
(* A value is the number of its element in the column; a string is as many  *)
(* copies of that number as it has bytes.                                   *)
(***************************************************************************)
EXTENDS Integers, Sequences, SequencesExt, FiniteSetsExt, SequenceLoops

CONSTANTS
    Programs,  \* per schema, the chunks a caller may write under it
    MaxCalls,  \* bound: calls of write_chunk
    MaxInt32   \* INT32_MAX

\* A chunk has one column per node of the schema, in the order build_node visits
\* them.  up: the group a node is in, 0 at the top.  supply: how the caller passes
\* it: a plain range or group, with a presence mask, or with a validity bitmap (<<>>
\* is the null pointer, all present).  lens: the lengths of the strings.
Column ==
    [kind : {"group", "fixed", "bool", "string", "large"}, nullable : BOOLEAN, up : Nat,
     size : Nat, supply : {"plain", "mask", "bits"}, mask : Seq(BOOLEAN), lens : Seq(Nat)]

\* The static_asserts: a column has the type and nullability of its field, and a
\* group is not empty.
WellTyped(chunk) ==
    /\ chunk \in Seq(Column) /\ chunk # <<>>
    /\ \A k \in DOMAIN chunk :
         /\ chunk[k].up < k
         /\ chunk[k].up # 0 => chunk[chunk[k].up].kind = "group"
         /\ chunk[k].kind = "group" => k < Len(chunk) /\ chunk[k + 1].up = k
         /\ (chunk[k].supply = "plain") <=> ~chunk[k].nullable
         /\ chunk[k].kind \in {"string", "large"} => Len(chunk[k].lens) = chunk[k].size

Schema(chunk) ==
    [k \in DOMAIN chunk |-> <<chunk[k].kind, chunk[k].nullable, chunk[k].up>>]

ASSUME MaxCallsAssumption == MaxCalls \in Nat
ASSUME MaxInt32Assumption == MaxInt32 \in Nat
ASSUME ProgramsAssumption ==
    \A chunks \in Programs : \A c, d \in chunks : WellTyped(c) /\ Schema(c) = Schema(d)

VARIABLES
    program,        \* the chunks of the schema the Writer has
    caller,         \* "free", or "write_file": which calls come next
    w,              \* w_: "null" or "set"; "gone" when the Writer is destroyed
    handle,         \* the C writer: "none", "open", "unopened", "freed"
    status,         \* status_
    ret,            \* the last call that returned, and its status
    result,         \* what write_file returns
    calls, told,    \* calls of write_chunk; history: the chunks it returned OK for
    alive,          \* FALSE once a write outside a buffer has ended the process
    state, groups   \* the file

objectVars == <<w, handle, status>>
callerVars == <<program, caller>>
fileVars   == <<state, groups>>
vars == <<callerVars, objectVars, ret, result, calls, told, alive, fileVars>>

Statuses == {"OK", "INVALID_ARGUMENT", "IO_ERROR"}

------------------------------------------------------------------------------
(* build_node *)

Leaves(chunk) == {k \in DOMAIN chunk : chunk[k].kind # "group"}
Groups(chunk) == DOMAIN chunk \ Leaves(chunk)
Strings(chunk) == {k \in DOMAIN chunk : chunk[k].kind \in {"string", "large"}}

\* first_leaf_size
RowsOf(chunk) == chunk[Min(Leaves(chunk))].size

Elements(chunk) == 0 .. RowsOf(chunk) - 1

\* The bitmap of node k; elements beyond a short mask are absent.
Validity(chunk, k) ==
    CASE chunk[k].supply = "plain" -> Elements(chunk)
      [] chunk[k].supply = "bits" /\ chunk[k].mask = <<>> -> Elements(chunk)
      [] OTHER -> {i \in Elements(chunk) : i < Len(chunk[k].mask) /\ chunk[k].mask[i + 1]}

\* The bytes of each row of a string column in its data.
Lengths(chunk, k) ==
    [i \in 1 .. RowsOf(chunk) |->
       IF i - 1 \in Validity(chunk, k) THEN chunk[k].lens[i] ELSE 0]

\* Fault: an absent string leaves its bytes in the data, and its offset behind.
DataWithAbsent(chunk, k) ==
    FlattenSeq([i \in 1 .. RowsOf(chunk) |-> [b \in 1 .. chunk[k].lens[i] |-> i - 1]])
Data(chunk, k) ==
    FlattenSeq([i \in 1 .. RowsOf(chunk) |-> [b \in 1 .. Lengths(chunk, k)[i] |-> i - 1]])

\* off_t: 32 bits but for the large types.
Wrapped(column, n) ==
    IF column.kind = "large" THEN n
    ELSE ((n + MaxInt32 + 1) % (2 * (MaxInt32 + 1))) - (MaxInt32 + 1)

\* The offsets count the bytes of the strings that are present.
Offset(chunk, k, i) == Wrapped(chunk[k], Sums(Lengths(chunk, k))[i])

\* Fault: a group is not asked for the length of its mask.
FitsLeaves(chunk) == \A k \in Leaves(chunk) : chunk[k].size = RowsOf(chunk)
\* Every leaf has the rows of the first, and so has the mask of a group.
Fits(chunk) ==
    /\ \A k \in Leaves(chunk) : chunk[k].size = RowsOf(chunk)
    /\ \A k \in Groups(chunk) :
         chunk[k].supply = "mask" => Len(chunk[k].mask) = RowsOf(chunk)

\* The offsets of a string column and the bits of a bool column have room for the rows
\* of the first leaf, and are written for each element of the column itself before the
\* comparison takes effect.  Of a bool column only the elements that are TRUE write.
Overruns(chunk) ==
    \/ \E k \in Strings(chunk) : chunk[k].size > RowsOf(chunk)
    \/ \E k \in Leaves(chunk) :
         chunk[k].kind = "bool" /\ chunk[k].size > 8 * ((RowsOf(chunk) + 7) \div 8)

Null == [present |-> FALSE, bytes |-> <<>>]
Value(bytes) == [present |-> TRUE, bytes |-> bytes]
Outside == -1  \* what lies beyond the data

\* The row group the C ABI makes of the arrays: per leaf, the value of each row,
\* or null where a nullable node on its path is not valid.
Path(chunk, k) ==
    LET around[j \in 0 .. k] == IF j = 0 THEN {} ELSE {j} \cup around[chunk[j].up]
    IN around[k]
ValueAt(chunk, k, i) ==
    IF k \notin Strings(chunk) THEN <<i>>
    ELSE LET from == Offset(chunk, k, i)
             to   == Offset(chunk, k, i + 1)
         IN IF 0 <= from /\ from <= to THEN SubSeq(Data(chunk, k), from + 1, to)
            ELSE <<Outside>>
Written(chunk) ==
    [k \in Leaves(chunk) |->
       [i \in Elements(chunk) |->
          IF \A a \in Path(chunk, k) : i \in Validity(chunk, a)
          THEN Value(ValueAt(chunk, k, i)) ELSE Null]]

File == INSTANCE ParquetFile WITH
          RowGroup <- {Written(c) : c \in {d \in UNION Programs : Fits(d)}}

------------------------------------------------------------------------------
Init ==
    /\ program \in Programs /\ caller \in {"free", "write_file"}
    /\ w = "null" /\ handle = "none" /\ status = "OK"
    /\ ret = [op |-> "none", status |-> "OK"] /\ result = "OK"
    /\ calls = 0 /\ told = <<>> /\ alive = TRUE
    /\ File!Init

\* Fault: the close is left to the destructor, which drops its status.
NextInWriteFileNoClose ==
    CASE ret.op = "none" -> "Writer"
      [] ret.op = "Writer" -> IF status = "OK" THEN "write_chunk" ELSE "~Writer"
      [] OTHER -> "~Writer"
\* write_file: a failed open or chunk is what it returns; the destructor runs
\* on every path, close only once there is something to close.
NextInWriteFile ==
    CASE ret.op = "none" -> "Writer"
      [] ret.op = "Writer" -> IF status = "OK" THEN "write_chunk" ELSE "~Writer"
      [] ret.op = "write_chunk" -> "close"
      [] OTHER -> "~Writer"

Calls(op) ==
    /\ alive /\ w # "gone"
    /\ op = "Writer" <=> ret.op = "none"
    /\ caller = "write_file" => op = NextInWriteFile

Return(op, s) ==
    /\ ret' = [op |-> op, status |-> s]
    /\ result' = IF caller = "write_file" /\ result = "OK" THEN s ELSE result

\* Writer(path): also a failed open leaves a C writer to be closed, a null path
\* does not.
Construct ==
    /\ Calls("Writer")
    /\ \/ w' = "set" /\ handle' = "open" /\ status' = "OK" /\ UNCHANGED state
       \/ w' = "set" /\ handle' = "unopened" /\ status' = "IO_ERROR" /\ state' = "lost"
       \/ w' = "null" /\ status' = "INVALID_ARGUMENT" /\ state' = "lost" /\ UNCHANGED handle
    /\ Return("Writer", status')
    /\ UNCHANGED <<callerVars, calls, told, alive, groups>>

\* set_codec and set_encoding do not touch status_.
SetOption ==
    /\ Calls("set")
    /\ \E s \in IF w = "null" THEN {"INVALID_ARGUMENT"} ELSE {"OK", "INVALID_ARGUMENT"} :
         Return("set", s)
    /\ UNCHANGED <<callerVars, objectVars, calls, told, alive, fileVars>>

\* A caller writes chunks before it closes a Writer that is well: after that
\* write_chunk does nothing and returns the OK it finds.
ChunkCall(chunk) ==
    /\ Calls("write_chunk") /\ chunk \in program
    /\ w = "set" \/ status # "OK"
    /\ calls < MaxCalls
    /\ calls' = calls + 1
    /\ UNCHANGED <<callerVars, w, handle>>

ChunkUnopened(chunk) ==
    /\ ChunkCall(chunk) /\ w = "null"
    /\ Return("write_chunk", status)
    /\ UNCHANGED <<status, told, alive, fileVars>>

ChunkOverruns(chunk) ==
    /\ ChunkCall(chunk) /\ w = "set" /\ Overruns(chunk)
    /\ alive' = FALSE
    /\ UNCHANGED <<status, ret, result, told, fileVars>>

\* Refused before the C ABI is called.
ChunkDoesNotFit(chunk) ==
    /\ ChunkCall(chunk) /\ w = "set" /\ ~Fits(chunk)
    /\ status' = "INVALID_ARGUMENT"
    /\ Return("write_chunk", status')
    /\ UNCHANGED <<told, alive, fileVars>>

ChunkAccepted(chunk) ==
    /\ ChunkCall(chunk) /\ w = "set" /\ Fits(chunk)
    /\ handle = "open" /\ File!Add(Written(chunk))
    /\ status' = "OK"
    /\ Return("write_chunk", status')
    /\ told' = Append(told, chunk)
    /\ UNCHANGED alive

\* Fault: the leaves before the one that fails stay behind as a row group.
ChunkFailsHalfWritten(chunk) ==
    /\ ChunkCall(chunk) /\ w = "set" /\ Fits(chunk) /\ state = "writing"
    /\ status' = "IO_ERROR"
    /\ Return("write_chunk", status')
    /\ \E last \in Leaves(chunk) :
         groups' = Append(groups, [k \in {j \in Leaves(chunk) : j < last} |-> Written(chunk)[k]])
    /\ UNCHANGED <<told, alive, state>>
\* The C ABI fails: the writer is not open, the stream has failed for good, or
\* a page does not compress and the next chunk may succeed.
ChunkFails(chunk) ==
    /\ ChunkCall(chunk) /\ w = "set" /\ Fits(chunk)
    /\ status' = "IO_ERROR"
    /\ Return("write_chunk", status')
    /\ File!Lose \/ UNCHANGED fileVars
    /\ UNCHANGED <<told, alive>>

WriteChunk(chunk) ==
    \/ ChunkUnopened(chunk) \/ ChunkOverruns(chunk) \/ ChunkDoesNotFit(chunk)
    \/ ChunkAccepted(chunk) \/ ChunkFails(chunk)

\* n2p_writer_close: it frees the writer whatever it returns; a writer that was
\* never open closes with OK.
CClose(s) ==
    /\ handle' = "freed"
    /\ \/ handle = "unopened" /\ s = "OK" /\ UNCHANGED fileVars
       \/ handle = "open" /\ s = "OK" /\ File!Seal
       \/ handle = "open" /\ s = "IO_ERROR" /\ (File!Seal \/ File!Lose)
       \/ handle = "open" /\ s = "IO_ERROR" /\ state = "lost" /\ UNCHANGED fileVars

\* Fault: w_ is not reset.
CloseKeepsPointer ==
    /\ Calls("close")
    /\ \/ w = "null" /\ Return("close", status) /\ UNCHANGED <<objectVars, fileVars>>
       \/ /\ w = "set"
          /\ \E s \in Statuses :
               /\ CClose(s)
               /\ status' = IF status = "OK" THEN s ELSE status
               /\ Return("close", s)
          /\ UNCHANGED w
    /\ UNCHANGED <<callerVars, calls, told, alive>>
\* Fault: status_ keeps the status of the last chunk.
CloseKeepsStatus ==
    /\ Calls("close")
    /\ \/ w = "null" /\ Return("close", status) /\ UNCHANGED <<objectVars, fileVars>>
       \/ /\ w = "set"
          /\ \E s \in Statuses : CClose(s) /\ Return("close", status)
          /\ w' = "null" /\ UNCHANGED status
    /\ UNCHANGED <<callerVars, calls, told, alive>>
Close ==
    /\ Calls("close")
    /\ \/ w = "null" /\ Return("close", status) /\ UNCHANGED <<objectVars, fileVars>>
       \/ /\ w = "set"
          /\ \E s \in Statuses :
               /\ CClose(s)
               /\ status' = IF status = "OK" THEN s ELSE status
               /\ Return("close", s)
          /\ w' = "null"
    /\ UNCHANGED <<callerVars, calls, told, alive>>

\* Nobody sees the status of the close a destructor makes.
Destroy ==
    /\ Calls("~Writer")
    /\ w' = "gone"
    /\ \/ w = "null" /\ UNCHANGED <<handle, fileVars>>
       \/ w = "set" /\ \E s \in Statuses : CClose(s)
    /\ UNCHANGED <<callerVars, status, ret, result, calls, told, alive>>

Next ==
    \/ Construct \/ SetOption
    \/ \E chunk \in program : WriteChunk(chunk)
    \/ Close \/ Destroy

Spec == Init /\ [][Next]_vars

------------------------------------------------------------------------------
(* Properties. *)

TypeOK ==
    /\ w \in {"null", "set", "gone"}
    /\ handle \in {"none", "open", "unopened", "freed"}
    /\ status \in Statuses /\ ret.status \in Statuses /\ result \in Statuses
    /\ calls \in 0 .. MaxCalls
    /\ told \in Seq(program)
    /\ alive \in BOOLEAN
    /\ File!TypeOK

\* What the caller means by a chunk: a row is null in a leaf when the leaf, or a
\* group around it, is marked absent there (or not marked at all).
Marked(column, i) ==
    \/ column.supply = "plain"
    \/ column.supply = "bits" /\ column.mask = <<>>
    \/ i < Len(column.mask) /\ column.mask[i + 1]
Meant(chunk) ==
    [k \in Leaves(chunk) |->
       [i \in 0 .. chunk[k].size - 1 |->
          IF ~\A a \in Path(chunk, k) : Marked(chunk[a], i) THEN Null
          ELSE Value(IF k \in Strings(chunk) THEN [b \in 1 .. chunk[k].lens[i + 1] |-> i]
                     ELSE <<i>>)]]

\* A file that opens has one row group for each write_chunk that returned OK, in
\* order, and every value of the columns, every string and every null, is where
\* the caller put it.
SealedHoldsTheChunks == state = "sealed" => groups = [r \in DOMAIN told |-> Meant(told[r])]

\* A chunk that is accepted is rectangular: every column and every mask of a
\* group has the same number of rows.
AcceptedIsRectangular ==
    \A r \in DOMAIN told :
      \E n \in {told[r][k].size : k \in Leaves(told[r])} :
        \A k \in DOMAIN told[r] :
          IF k \in Leaves(told[r]) THEN told[r][k].size = n
          ELSE told[r][k].supply = "mask" => Len(told[r][k].mask) = n

\* ok() after close: the file is complete.
StatusOkIsSealed == handle = "freed" /\ w = "null" /\ status = "OK" => state = "sealed"

\* The pointer never outlives the C writer, and the C writer never outlives the
\* Writer object.
FreedOnce ==
    /\ w = "set" => handle \in {"open", "unopened"}
    /\ w = "gone" => handle \in {"none", "freed"}

\* On every path the Writer object and the C writer behind it keep step.
HandleOK == TypeOK /\ FreedOnce

\* write_file returns OK only for a complete file that holds the chunk.
WriteFileOkIsSealed ==
    caller = "write_file" /\ w = "gone" /\ result = "OK" =>
      state = "sealed" /\ Len(groups) = 1

\* The status of close, and the one write_file returns, is OK for a complete file only.
StatusIsTold == StatusOkIsSealed /\ WriteFileOkIsSealed

\* soa.hpp: "equal row counts are checked at runtime (a row group must be
\* rectangular)".
MismatchIsRefused == alive
==============================================================================
