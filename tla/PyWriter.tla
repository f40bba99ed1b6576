------------------------------- MODULE PyWriter -------------------------------
(***************************************************************************)
(* ParquetWriter of the Python bindings: the C++ object that owns a writer  *)
(* of the C ABI (n2p_bindings.cpp) and the Python class around it           *)
(* (parquet.py), used by several Python threads at once.                    *)
(*                                                                          *)
(* The global interpreter lock is held through every call of the C ABI.     *)
(* It is given up in the loop of write_table, and inside write_batch while  *)
(* the batch is imported: that runs methods of the batch object.  What       *)
(* write_batch learnt before the import may be stale after it.               *)
(***************************************************************************)
EXTENDS Integers, Sequences, SequenceLoops

CONSTANTS
    Threads,  \* the threads that hold the writer
    Batches,  \* the batches they write
    Tables,   \* the tables they write: sequences of batches
    Rows,     \* the number of rows of a batch
    MaxCalls  \* bound: calls of write_batch and write_table

ASSUME TablesAssumption == Tables \subseteq Seq(Batches)
ASSUME RowsAssumption == Rows \in [Batches -> Nat]
ASSUME MaxCallsAssumption == MaxCalls \in Nat

VARIABLES
    object,     \* the C++ object: "none", "raised" by its constructor, "alive", "destroyed"
    writer,     \* writer_: "null" or "set"
    rowGroups,  \* row_groups_
    numRows,    \* num_rows_
    handle,     \* the C writer: "none", "open", "unopened", "freed"
    process,    \* "running", "ended", or "crashed" by a use of freed memory
    held,       \* the threads with a reference to the object
    pc,         \* per thread: "idle", "table" in write_table, "import" in write_batch
    arg,        \* per thread: the batches of its call that are not yet written
    calls,      \* write_batch and write_table so far
    returned,   \* history: per thread, the batches whose write_batch returned
    closing,    \* history: the call that closed "raised" or "returned"; or "nobody" closed
    state,      \* the file
    groups

objectVars == <<object, writer, rowGroups, numRows>>
threadVars == <<held, pc, arg, calls>>
told       == <<returned, closing>>
file       == <<state, groups>>
vars == <<objectVars, handle, process, threadVars, told, file>>

\* Who wrote a row group tells the threads apart in the file.
RowGroup == [by : Threads, batch : Batches]

File == INSTANCE ParquetFile

------------------------------------------------------------------------------
(* The C ABI: N2PWriter without its inside.  Statuses other than OK become   *)
(* the same RuntimeError (throw_n2p).                                        *)

\* n2p_writer_write_batch adds a row group, or fails and may take the stream with it.
WriteOk(g) == handle = "open" /\ File!Add(g)
WriteFails == File!Lose \/ UNCHANGED file

\* n2p_writer_close frees the writer whatever it returns; a close that fails may
\* have written all of the footer.
CloseOk    == handle = "open" /\ handle' = "freed" /\ File!Seal
CloseFails ==
    /\ handle = "open" /\ handle' = "freed"
    /\ IF state = "writing" THEN File!Seal \/ File!Lose ELSE UNCHANGED file

------------------------------------------------------------------------------
Init ==
    /\ object = "none" /\ writer = "null" /\ rowGroups = 0 /\ numRows = 0
    /\ handle = "none" /\ process = "running"
    /\ held = {} /\ calls = 0
    /\ pc = [t \in Threads |-> "idle"] /\ arg = [t \in Threads |-> <<>>]
    /\ returned = [t \in Threads |-> <<>>] /\ closing = "nobody"
    /\ File!Init

Running == process = "running"
Idle(t) == Running /\ t \in held /\ pc[t] = "idle"

\* __init__: the codec is parsed before the file is opened.  A failed open leaves a
\* C writer behind that nobody closes: no destructor runs for an object whose
\* constructor threw.
Construct ==
    /\ Running /\ object = "none"
    /\ object' = "alive" /\ writer' = "set" /\ handle' = "open" /\ held' = Threads
    /\ UNCHANGED <<rowGroups, numRows, process, pc, arg, calls, told, file>>
ConstructRaises ==
    /\ Running /\ object = "none"
    /\ object' = "raised"
    /\ \/ UNCHANGED <<handle, file>>
       \/ handle' = "unopened" /\ File!Lose
    /\ UNCHANGED <<writer, rowGroups, numRows, process, threadVars, told>>

------------------------------------------------------------------------------
(* write_batch and write_table *)

\* A call that raises: write_table does not go on to its next batch.
Raise(t) ==
    /\ pc' = [pc EXCEPT ![t] = "idle"]
    /\ arg' = [arg EXCEPT ![t] = <<>>]

\* Fault: write_table tries a batch again that was refused.
EnterRetried(t, batches) ==
    IF writer = "null" THEN UNCHANGED <<pc, arg>>
    ELSE /\ pc' = [pc EXCEPT ![t] = "import"]
         /\ arg' = [arg EXCEPT ![t] = batches]
\* ensure_open, and the start of import_batch.
Enter(t, batches) ==
    IF writer = "null" THEN Raise(t)
    ELSE /\ pc' = [pc EXCEPT ![t] = "import"]
         /\ arg' = [arg EXCEPT ![t] = batches]

WriteBatch(t, b) ==
    /\ Idle(t) /\ calls < MaxCalls
    /\ calls' = calls + 1
    /\ Enter(t, <<b>>)
    /\ UNCHANGED <<objectVars, handle, process, held, told, file>>

\* write_table of a table, which may have no batches.
WriteTable(t, batches) ==
    /\ Idle(t) /\ calls < MaxCalls
    /\ calls' = calls + 1
    /\ pc' = [pc EXCEPT ![t] = "table"]
    /\ arg' = [arg EXCEPT ![t] = batches]
    /\ UNCHANGED <<objectVars, handle, process, held, told, file>>

\* Fault: the loop does not look for its end.
NextBatchAlways(t) ==
    /\ Running /\ pc[t] = "table"
    /\ Enter(t, arg[t])
    /\ UNCHANGED <<objectVars, handle, process, held, calls, told, file>>
\* The next turn of the loop in write_table, or its end.
NextBatch(t) ==
    /\ Running /\ pc[t] = "table"
    /\ IF arg[t] = <<>> THEN Raise(t) ELSE Enter(t, arg[t])
    /\ UNCHANGED <<objectVars, handle, process, held, calls, told, file>>

ImportRaises(t) ==
    /\ Running /\ pc[t] = "import"
    /\ Raise(t)
    /\ UNCHANGED <<objectVars, handle, process, held, calls, told, file>>

\* Fault: the pointer ensure_open saw is kept over the import.
WriterSeenBefore(t) == "set"
\* The pointer that is passed to the C ABI is read again after the import.
WriterPassed(t) == writer

\* A null writer is refused.
WriteRefused(t) ==
    /\ Running /\ pc[t] = "import" /\ WriterPassed(t) = "null"
    /\ Raise(t)
    /\ UNCHANGED <<objectVars, handle, process, held, calls, told, file>>

\* The batch is written, and counted; write_table goes on to its next one.
WriteImported(t) ==
    /\ Running /\ pc[t] = "import" /\ WriterPassed(t) = "set"
    /\ WriteOk([by |-> t, batch |-> Head(arg[t])])
    /\ rowGroups' = rowGroups + 1
    /\ numRows' = numRows + Rows[Head(arg[t])]
    /\ returned' = [returned EXCEPT ![t] = Append(@, Head(arg[t]))]
    /\ pc' = [pc EXCEPT ![t] = IF Len(arg[t]) = 1 THEN "idle" ELSE "table"]
    /\ arg' = [arg EXCEPT ![t] = Tail(@)]
    /\ UNCHANGED <<object, writer, handle, process, held, calls, closing>>

\* Fault: a batch is counted before it is known to be written.
WriteFailsCounted(t) ==
    /\ Running /\ pc[t] = "import" /\ WriterPassed(t) = "set"
    /\ handle = "open" /\ WriteFails
    /\ rowGroups' = rowGroups + 1
    /\ numRows' = numRows + Rows[Head(arg[t])]
    /\ Raise(t)
    /\ UNCHANGED <<object, writer, handle, process, held, calls, told>>
\* Fault: the status of n2p_writer_write_batch is dropped.
WriteFailsQuietly(t) ==
    /\ Running /\ pc[t] = "import" /\ WriterPassed(t) = "set"
    /\ handle = "open" /\ WriteFails
    /\ returned' = [returned EXCEPT ![t] = Append(@, Head(arg[t]))]
    /\ Raise(t)
    /\ UNCHANGED <<objectVars, handle, process, held, calls, closing>>
\* With a writer that another thread had freed meanwhile anything may happen.
WriteImportedFails(t) ==
    /\ Running /\ pc[t] = "import" /\ WriterPassed(t) = "set"
    /\ IF handle = "freed" THEN process' = "crashed" /\ UNCHANGED file
       ELSE WriteFails /\ UNCHANGED process
    /\ Raise(t)
    /\ UNCHANGED <<objectVars, handle, held, calls, told>>

------------------------------------------------------------------------------
(* close, the context manager, the destructor *)

\* Fault: a failed close leaves writer_ as it is.
CloseKeepsPointer(how) ==
    \/ CloseOk /\ writer' = "null" /\ rowGroups > 0 /\ how = "returned"
    \/ CloseOk /\ writer' = "null" /\ rowGroups = 0 /\ how = "raised"
    \/ CloseFails /\ UNCHANGED writer /\ how = "raised"
\* Fault: the status of n2p_writer_close is dropped.
CloseUnchecked(how) ==
    /\ writer' = "null"
    /\ CloseOk \/ CloseFails
    /\ how = IF rowGroups = 0 THEN "raised" ELSE "returned"
\* Fault: a file without batches is closed like any other.
CloseWithoutBatches(how) ==
    /\ writer' = "null"
    /\ \/ CloseOk    /\ how = "returned"
       \/ CloseFails /\ how = "raised"
\* With no batch written the C writer is closed all the same, and close raises.
CloseWriter(how) ==
    /\ writer' = "null"
    /\ \/ CloseOk    /\ how = IF rowGroups = 0 THEN "raised" ELSE "returned"
       \/ CloseFails /\ how = "raised"

\* close() of a closed writer returns at once.
CloseCall ==
    IF writer = "null" THEN UNCHANGED <<writer, handle, closing, file>>
    ELSE \E how \in {"returned", "raised"} : CloseWriter(how) /\ closing' = how

Close(t) ==
    /\ Idle(t)
    /\ CloseCall
    /\ UNCHANGED <<object, rowGroups, numRows, process, threadVars, returned>>

\* __exit__ without an exception closes.
Exit(t) ==
    /\ Idle(t)
    /\ CloseCall
    /\ held' = held \ {t}
    /\ UNCHANGED <<object, rowGroups, numRows, process, pc, arg, calls, returned>>

\* __exit__ with an exception does not; neither does a thread that forgets the writer.
ExitRaising(t) ==
    /\ Idle(t)
    /\ held' = held \ {t}
    /\ UNCHANGED <<objectVars, handle, process, pc, arg, calls, told, file>>

\* ~ParquetWriter, when the last reference is gone.  Nobody sees its status.
Destroy ==
    /\ Running /\ object = "alive" /\ held = {}
    /\ object' = "destroyed"
    /\ IF writer = "null" THEN UNCHANGED <<writer, handle, file>>
       ELSE writer' = "null" /\ (CloseOk \/ CloseFails)
    /\ UNCHANGED <<rowGroups, numRows, process, threadVars, told>>

\* The process ends, with whatever is on the disk then.
ProcessEnds ==
    /\ Running
    /\ process' = "ended"
    /\ IF state = "writing" THEN File!Lose ELSE UNCHANGED file
    /\ UNCHANGED <<objectVars, handle, threadVars, told>>

------------------------------------------------------------------------------
ThreadStep(t) ==
    \/ NextBatch(t) \/ ImportRaises(t)
    \/ WriteRefused(t) \/ WriteImported(t) \/ WriteImportedFails(t)

ThreadCall(t) ==
    \/ \E b \in Batches : WriteBatch(t, b)
    \/ \E batches \in Tables : WriteTable(t, batches)
    \/ Close(t) \/ Exit(t) \/ ExitRaising(t)

Next ==
    \/ Construct \/ ConstructRaises
    \/ \E t \in Threads : ThreadStep(t) \/ ThreadCall(t)
    \/ Destroy \/ ProcessEnds

\* A call that has begun goes on: the imports return, and the interpreter lets every
\* thread run.
Spec == Init /\ [][Next]_vars /\ \A t \in Threads : WF_vars(ThreadStep(t))

------------------------------------------------------------------------------
(* Properties. *)

TypeOK ==
    /\ object \in {"none", "raised", "alive", "destroyed"}
    /\ writer \in {"null", "set"}
    /\ rowGroups \in Nat /\ numRows \in Nat /\ calls \in 0 .. MaxCalls
    /\ handle \in {"none", "open", "unopened", "freed"}
    /\ process \in {"running", "ended", "crashed"}
    /\ held \subseteq Threads
    /\ pc \in [Threads -> {"idle", "table", "import"}]
    /\ arg \in [Threads -> Seq(Batches)]
    /\ \A t \in Threads : pc[t] = "import" => arg[t] # <<>>
    /\ returned \in [Threads -> Seq(Batches)]
    /\ closing \in {"nobody", "raised", "returned"}
    /\ File!TypeOK

\* No thread hands the C ABI a writer that another thread has closed while the
\* batch was imported.
NeverUsesFreed == process # "crashed"

\* writer_ is set exactly as long as the object owns an open C writer, and a
\* destroyed object has had it freed: each C writer of an object that was built is
\* closed once, by close, by the context manager or by the destructor.
ObjectOwnsTheHandle ==
    /\ object = "alive" => (writer = "set" <=> handle = "open")
    /\ object = "destroyed" => handle = "freed"

\* The C writer lives exactly as long as somebody may use it.
HandleOK == NeverUsesFreed /\ ObjectOwnsTheHandle

\* What row_groups tells any thread at any time, also after the writer is
\* closed, is the number of row groups in the file.
CountersMatchTheFile == rowGroups = Len(groups)

\* num_rows is the number of rows in the file.
RowsMatchTheFile ==
    numRows = Sums([i \in DOMAIN groups |-> Rows[groups[i].batch]])[Len(groups)]

\* A file that opens holds, for every thread, the batches whose write_batch returned
\* in that thread, in the order of its calls, and none of those that raised,
\* however the calls of the threads fell between each other.
SealedHoldsWhatReturned ==
    state = "sealed" =>
      \A t \in Threads :
        Picked(groups, {i \in DOMAIN groups : groups[i].by = t})
          = [i \in DOMAIN returned[t] |-> [by |-> t, batch |-> returned[t][i]]]

\* When the call that closes the writer returns, the file opens and holds at least
\* one batch; a writer closed with no batch in it has raised in some thread.
ReturnedCloseIsSealed == closing = "returned" => state = "sealed" /\ groups # <<>>

\* A file that cannot be read, because its disk failed at any time before, was not
\* closed silently: the call that closed its writer has raised, whichever thread
\* made it and whoever had seen an earlier failure.
LossIsTold ==
    state = "lost" /\ process = "running" /\ writer = "null" /\ object = "alive" =>
      closing = "raised"

\* How the closing of the file went is told to the thread that closed it.
CloseIsTold == ReturnedCloseIsSealed /\ LossIsTold

\* Every call of write_batch and write_table ends, also when another thread closes
\* the writer under it.
CallsEnd == \A t \in Threads : pc[t] # "idle" ~> (pc[t] = "idle" \/ process # "running")

\* What the bindings' README says of a writer that nobody closes: the file is left
\* unreadable.  The destructor closes it (n2p_bindings.cpp:130).
SkippedCloseIsUnreadable == state = "sealed" => closing # "nobody"
==============================================================================
