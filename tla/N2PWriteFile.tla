---------------------------- MODULE N2PWriteFile ----------------------------
(***************************************************************************)
(* n2p_write_file: open, one write_batch and close on a writer of its own.  *)
(* Each step is the step of N2PWriter it calls, in the order the function   *)
(* calls them, with what the function does with the status it gets back.    *)
(***************************************************************************)
EXTENDS N2PWriter

VARIABLES
    phase,   \* "open", "batch", "close": the call the function makes next or
             \* is in; "done" when it has returned
    result,  \* the status it returns
    err      \* has it written a message to the caller's err?

fileVars == <<vars, phase, result, err>>

InitFile ==
    /\ Init
    /\ phase = "open" /\ result = "OK" /\ err = FALSE

\* fail: the message of the writer, if there is a writer.
Fail(status) ==
    /\ result' = status
    /\ err' = (handle' # "none" /\ lastError')

OpenFile ==
    /\ phase = "open"
    /\ \/ Open /\ phase' = "batch" /\ UNCHANGED <<result, err>>
       \/ OpenFails /\ phase' = "close" /\ Fail("IO_ERROR")
       \* close of the null writer changes nothing
       \/ OpenNullPath /\ phase' = "done" /\ Fail("INVALID_ARGUMENT")

\* Fault: a refused batch returns without closing the writer.
AfterBatchLeaks ==
    IF pc' # "idle" THEN UNCHANGED <<phase, result, err>>
    ELSE IF ret'.status = "OK" THEN phase' = "close" /\ UNCHANGED <<result, err>>
    ELSE phase' = "done" /\ Fail(ret'.status)
AfterBatch ==
    IF pc' # "idle" THEN UNCHANGED <<phase, result, err>>
    ELSE /\ phase' = "close"
         /\ IF ret'.status = "OK" THEN UNCHANGED <<result, err>> ELSE Fail(ret'.status)

WriteOneBatch ==
    /\ phase = "batch"
    /\ (\E b \in Batches : Batch(b)) \/ BatchStep
    /\ AfterBatch

\* Fault: the status of close is dropped.
AfterCloseDropped ==
    IF handle' # "freed" THEN UNCHANGED <<phase, result>>
    ELSE phase' = "done" /\ UNCHANGED result
\* An earlier failure is the one returned; a failure of close itself finds the
\* writer freed and its message gone.
AfterClose ==
    IF handle' # "freed" THEN UNCHANGED <<phase, result>>
    ELSE /\ phase' = "done"
         /\ result' = IF result # "OK" THEN result ELSE ret'.status

CloseFile ==
    /\ phase = "close"
    /\ CloseUnopened \/ CloseWritesFooter \/ CloseWithoutFooter \/ FlushAndFree
    /\ AfterClose
    /\ UNCHANGED err

Dies == phase # "done" /\ Crash /\ UNCHANGED <<phase, result, err>>

FileStep == OpenFile \/ WriteOneBatch \/ CloseFile
NextFile == FileStep \/ Dies

\* The function is straight-line code over calls that return.
SpecFile == InitFile /\ [][NextFile]_fileVars /\ WF_fileVars(FileStep)

------------------------------------------------------------------------------
FileTypeOK ==
    /\ TypeOK
    /\ phase \in {"open", "batch", "close", "done"}
    /\ result \in Statuses
    /\ err \in BOOLEAN

\* OK means the file is complete on the disk and holds the one batch.
OkHoldsTheBatch ==
    phase = "done" /\ result = "OK" =>
      Complete(Disk) /\ Len(ReadBack(Disk)) = 1 /\ Len(FooterOf(Disk).groups) = 1

\* A failure that came with a message left no row behind: the file may open (the
\* function closes the writer on its way out, and the footer of a refused batch
\* is a good footer) but it is then an empty table, also when the row group had
\* been recorded before the failure was noticed.
FailedBatchLeavesNoRow ==
    err /\ Complete(Disk) => FooterOf(Disk).groups = <<>> /\ FooterOf(Disk).rows = 0

\* The status and the message n2p_write_file leaves its caller with agree with the
\* file it leaves on the disk.
FileMatchesResult == FileTypeOK /\ OkHoldsTheBatch /\ FailedBatchLeavesNoRow

\* The function returns on every path, and on every path it frees its writer.
ReturnsAndFrees == <>(handle = "dead" \/ (phase = "done" /\ handle \in {"none", "freed"}))

\* nanoarrow2parquet.h: "On failure, a human-readable message is written to err"
\* (here for calls with a path: without one there is no writer to take it from).
FailureHasMessage == phase = "done" /\ handle = "freed" /\ result # "OK" => err
==============================================================================
