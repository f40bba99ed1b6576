------------------------ MODULE N2PWriteFile_proofs ------------------------
(***************************************************************************)
(* What the status and the message of n2p_write_file say of the file it      *)
(* leaves, for every batch, every way its three calls may fail, and a crash  *)
(* at any of their steps.                                                    *)
(***************************************************************************)
EXTENDS N2PWriteFile, N2PWriter_proofs

------------------------------------------------------------------------------
(* The invariant. *)

\* Without an accepted batch a good stream has counted no rows, and a footer says so.
RowsInv ==
    /\ ~bad /\ accepted = <<>> => totalRows = 0
    /\ \A k \in 1 .. Len(stream) :
         stream[k].kind = "footer" /\ accepted = <<>> => stream[k].rows = 0

\* What has happened by the time the function makes each of its calls.
PhaseInv ==
    /\ phase = "open" => handle = "none"
    /\ phase = "batch" => handle \in {"open", "dead"}
    /\ phase \in {"open", "batch"} => accepted = <<>> /\ result = "OK" /\ ~err
    /\ phase = "close" =>
         /\ pc # "leaf" /\ handle \in {"open", "unopened", "dead"}
         /\ result = "OK" => Len(accepted) = 1 /\ handle # "unopened"
    /\ phase = "done" /\ result = "OK" =>
         handle = "freed" /\ ret.status = "OK" /\ offset > 0 /\ Len(accepted) = 1
    /\ err => accepted = <<>>

OwnTypeOK ==
    phase \in {"open", "batch", "close", "done"} /\ result \in Statuses /\ err \in BOOLEAN

------------------------------------------------------------------------------
(* The steps are steps of the writer. *)

LEMMA FileSteps == [NextFile]_fileVars => [Next]_vars
BY DEF NextFile, fileVars, FileStep, OpenFile, WriteOneBatch, CloseFile, Dies, Next

LEMMA TotalKept ==
    ASSUME [Next]_vars
    PROVE  FinishBatch \/ totalRows' = totalRows
<1>1. CASE UNCHANGED vars
  BY <1>1 DEF vars, groupVars
<1>2. CASE OpenNullPath \/ Open \/ OpenFails \/ SetUnknown \/ CloseUnopened \/ CloseWithoutFooter
  BY <1>2 DEF OpenNullPath, Open, OpenFails, SetUnknown, CloseUnopened, CloseWithoutFooter, groupVars
<1>3. CASE (\E c \in Codecs : SetCodec(c)) \/ (\E m \in Modes : SetEncoding(m))
  BY <1>3 DEF SetCodec, SetEncoding, groupVars
<1>4. CASE RefuseUnopened \/ \E b \in Batches : Batch(b)
  BY <1>4 DEF RefuseUnopened, Batch, RefuseArguments, RefuseSchema, RefuseShape, StartBatch, Refuse,
     groupVars
<1>5. CASE WriteLeaf \/ RefuseLeaf \/ LeafThrows
  BY <1>5 DEF WriteLeaf, RefuseLeaf, LeafThrows, AbandonBatch, groupVars
<1>6. CASE CloseWritesFooter \/ FlushAndFree \/ Crash
  BY <1>6 DEF CloseWritesFooter, FlushAndFree, Crash, groupVars
<1>7. QED
  BY <1>1, <1>2, <1>3, <1>4, <1>5, <1>6 DEF Next, BatchStep

LEMMA RowsKept ==
    ASSUME TypeOK, IInv, IInv', RowsInv, [Next]_vars
    PROVE  RowsInv'
<1>1. ~bad' => ~bad
  BY BadStays
<1>2. CASE FinishBatch
  <2>1. /\ handle' = "open" /\ pc' = "idle" /\ bad' = bad
        /\ ~bad => accepted' = Append(accepted, [batch |-> current.batch, rows |-> current.rows])
    BY <1>2 DEF FinishBatch, Return, streamVars
  <2>2. accepted \in Seq([batch : Nat, rows : Nat])
        /\ [batch |-> current.batch, rows |-> current.rows] \in [batch : Nat, rows : Nat]
    BY DEF TypeOK
  <2>3. ~bad => accepted' # <<>>
    BY <2>1, <2>2, AppendProperties
  <2>4. \A k \in 1 .. Len(stream') : stream'[k].kind # "footer"
    BY <2>1, NoFooterAfter
  <2>5. QED
    BY <2>1, <2>3, <2>4 DEF RowsInv
<1>3. CASE ~FinishBatch
  <2>1. totalRows' = totalRows
    BY <1>3, TotalKept
  <2>2. CASE Quiet
    BY <1>1, <2>1, <2>2 DEF Quiet, RowsInv
  <2>3. CASE Open \/ (\E b \in Batches : StartBatch(b)) \/ WriteLeaf \/ LeafThrows
    <3>1. handle' = "open" /\ pc' # "flush" /\ accepted' = accepted
      BY <2>3 DEF Open, StartBatch, WriteLeaf, LeafThrows, AtLeaf, AbandonBatch, Return
    <3>2. \A k \in 1 .. Len(stream') : stream'[k].kind # "footer"
      BY <3>1, NoFooterAfter
    <3>3. QED
      BY <1>1, <2>1, <3>1, <3>2 DEF RowsInv
  <2>4. CASE CloseWritesFooter
    <3>1. /\ accepted' = accepted
          /\ \A k \in 1 .. Len(stream') :
               stream'[k].kind = "footer" => stream'[k] = Footer /\ ~bad
      BY <2>4, FooterStep
    <3>2. Footer.rows = totalRows
      BY DEF Footer
    <3>3. QED
      BY <1>1, <2>1, <3>1, <3>2 DEF RowsInv
  <2>5. QED
    BY <1>3, <2>2, <2>3, <2>4, StepKinds
<1>4. QED
  BY <1>2, <1>3

------------------------------------------------------------------------------
(* The calls of the function. *)

LEMMA OpenPhase ==
    ASSUME TypeOK, PhaseInv, OwnTypeOK, OpenFile
    PROVE  PhaseInv' /\ OwnTypeOK'
<1>1. accepted = <<>> /\ result = "OK" /\ ~err /\ phase = "open"
  BY DEF OpenFile, PhaseInv
<1>2. CASE Open /\ phase' = "batch" /\ UNCHANGED <<result, err>>
  BY <1>1, <1>2 DEF Open, Return, PhaseInv, OwnTypeOK, Statuses
<1>3. CASE OpenFails /\ phase' = "close" /\ Fail("IO_ERROR")
  BY <1>1, <1>3 DEF OpenFails, Return, Fail, PhaseInv, OwnTypeOK, Statuses
<1>4. CASE OpenNullPath /\ phase' = "done" /\ Fail("INVALID_ARGUMENT")
  BY <1>1, <1>4 DEF OpenNullPath, Return, Fail, PhaseInv, OwnTypeOK, Statuses
<1>5. QED
  BY <1>2, <1>3, <1>4 DEF OpenFile

LEMMA BatchPhase ==
    ASSUME TypeOK, TypeOK', PhaseInv, OwnTypeOK, WriteOneBatch
    PROVE  PhaseInv' /\ OwnTypeOK'
<1>1. accepted = <<>> /\ result = "OK" /\ ~err /\ phase = "batch" /\ AfterBatch
  BY DEF WriteOneBatch, PhaseInv
<1>2. /\ handle = "open" /\ handle' = "open"
      /\ \/ pc' = "leaf" /\ accepted' = accepted
         \/ pc' = "idle" /\ accepted' = accepted /\ ret'.status # "OK"
         \/ pc' = "idle" /\ ret'.status = "OK" /\ Len(accepted') = 1
  <2>1. CASE \E b \in Batches : StartBatch(b)
    BY <2>1 DEF StartBatch
  <2>2. CASE \E b \in Batches : RefuseArguments(b) \/ RefuseSchema(b) \/ RefuseShape(b)
    BY <2>2 DEF RefuseArguments, RefuseSchema, RefuseShape, Refuse, Return
  <2>3. CASE WriteLeaf
    BY <2>3 DEF WriteLeaf, AtLeaf
  <2>4. CASE RefuseLeaf \/ LeafThrows
    BY <2>4 DEF RefuseLeaf, LeafThrows, AtLeaf, AbandonBatch, Return
  <2>5. CASE FinishBatch
    <3> DEFINE a == [batch |-> current.batch, rows |-> current.rows]
    <3>1. accepted \in Seq([batch : Nat, rows : Nat]) /\ Len(accepted) = 0
          /\ a \in [batch : Nat, rows : Nat]
      BY <1>1 DEF TypeOK
    <3>2. /\ handle = "open" /\ handle' = "open" /\ pc' = "idle"
          /\ \/ accepted' = accepted /\ ret'.status = "IO_ERROR"
             \/ accepted' = Append(accepted, a) /\ ret'.status = "OK"
      BY <2>5 DEF FinishBatch, Return
    <3> HIDE DEF a
    <3>3. Len(Append(accepted, a)) = 1
      BY <3>1, AppendedBatch
    <3>4. QED
      BY <3>2, <3>3
  <2>6. QED
    BY <2>1, <2>2, <2>3, <2>4, <2>5 DEF WriteOneBatch, Batch, BatchStep
<1>3. ret'.status \in Statuses
  BY DEF TypeOK
<1>4. CASE pc' = "leaf"
  BY <1>1, <1>2, <1>4 DEF AfterBatch, PhaseInv, OwnTypeOK
<1>5. CASE pc' = "idle" /\ ret'.status = "OK"
  BY <1>1, <1>2, <1>5 DEF AfterBatch, PhaseInv, OwnTypeOK
<1>6. CASE pc' = "idle" /\ ret'.status # "OK"
  <2>1. phase' = "close" /\ Fail(ret'.status) /\ accepted' = <<>>
    BY <1>1, <1>2, <1>6 DEF AfterBatch
  <2>2. QED
    BY <1>1, <1>2, <1>3, <1>6, <2>1 DEF Fail, PhaseInv, OwnTypeOK
<1>7. QED
  BY <1>2, <1>4, <1>5, <1>6

LEMMA ClosePhase ==
    ASSUME TypeOK, TypeOK', IInv, PhaseInv, OwnTypeOK, CloseFile
    PROVE  PhaseInv' /\ OwnTypeOK'
<1>1. phase = "close" /\ AfterClose /\ err' = err
  BY DEF CloseFile
<1>2. accepted' = accepted /\ ret'.status \in Statuses
  BY DEF CloseFile, CloseUnopened, CloseWritesFooter, CloseWithoutFooter, FlushAndFree, TypeOK
<1>3. CASE CloseUnopened
  <2>1. handle = "unopened" /\ handle' = "freed"
    BY <1>3 DEF CloseUnopened
  <2>2. result # "OK"
    BY <1>1, <2>1 DEF PhaseInv
  <2>3. QED
    BY <1>1, <1>2, <2>1, <2>2 DEF AfterClose, PhaseInv, OwnTypeOK
<1>4. CASE CloseWritesFooter \/ CloseWithoutFooter
  <2>1. handle = "open" /\ handle' = "open" /\ pc' = "flush"
    BY <1>4 DEF CloseWritesFooter, CloseWithoutFooter
  <2>2. QED
    BY <1>1, <1>2, <2>1 DEF AfterClose, PhaseInv, OwnTypeOK
<1>5. CASE FlushAndFree
  <2>1. handle = "open" /\ handle' = "freed" /\ offset' = offset
    BY <1>5 DEF FlushAndFree
  <2>2. offset > 0
    BY <2>1 DEF IInv, OffsetInv
  <2>3. QED
    BY <1>1, <1>2, <2>1, <2>2 DEF AfterClose, PhaseInv, OwnTypeOK
<1>6. QED
  BY <1>3, <1>4, <1>5 DEF CloseFile

LEMMA DiesPhase ==
    ASSUME PhaseInv, OwnTypeOK, Dies
    PROVE  PhaseInv' /\ OwnTypeOK'
<1>1. /\ handle \in {"open", "unopened"} /\ handle' = "dead" /\ phase # "done"
      /\ UNCHANGED <<pc, accepted, phase, result, err>>
  BY DEF Dies, Crash
<1>2. QED
  BY <1>1 DEF PhaseInv, OwnTypeOK

FInv == RowsInv /\ PhaseInv /\ OwnTypeOK

\* n2p_write_file keeps the invariants of the writer it opens, and at each of its three calls
\* knows what has happened so far.
THEOREM FileInvariant == SpecFile => [](TypeOK /\ IInv /\ RInv /\ FInv)
<1>1. InitFile => TypeOK /\ IInv /\ RInv /\ FInv
  <2> SUFFICES ASSUME InitFile PROVE TypeOK /\ IInv /\ RInv /\ FInv
    OBVIOUS
  <2>1. TypeOK /\ IInv /\ RInv
    BY InitTyped, InitInv, InitRefines DEF InitFile
  <2>2. Len(stream) = 0 /\ totalRows = 0
    BY DEF InitFile, Init
  <2>3. RowsInv
    BY <2>2 DEF RowsInv
  <2>4. PhaseInv /\ OwnTypeOK
    BY DEF InitFile, Init, PhaseInv, OwnTypeOK, Statuses
  <2>5. QED
    BY <2>1, <2>3, <2>4 DEF FInv
<1>2. TypeOK /\ IInv /\ RInv /\ FInv /\ [NextFile]_fileVars => TypeOK' /\ IInv' /\ RInv' /\ FInv'
  <2> SUFFICES ASSUME TypeOK, IInv, RInv, FInv, [NextFile]_fileVars
               PROVE  TypeOK' /\ IInv' /\ RInv' /\ FInv'
    OBVIOUS
  <2>1. [Next]_vars
    BY FileSteps
  <2>2. TypeOK'
    BY <2>1, StepTyped
  <2>3. IInv'
    BY <2>1, <2>2, StepInv
  <2>4. RInv'
    BY <2>1, <2>2, <2>3, EndKept, CallsKept DEF RInv
  <2>5. RowsInv'
    BY <2>1, <2>3, RowsKept DEF FInv
  <2>6. PhaseInv' /\ OwnTypeOK'
    <3>1. CASE UNCHANGED fileVars
      BY <3>1 DEF FInv, PhaseInv, OwnTypeOK, fileVars, vars, callVars
    <3>2. CASE NextFile
      BY <2>2, <3>2, OpenPhase, BatchPhase, ClosePhase, DiesPhase DEF FInv, NextFile, FileStep
    <3>3. QED
      BY <3>1, <3>2
  <2>7. QED
    BY <2>2, <2>3, <2>4, <2>5, <2>6 DEF FInv
<1>3. QED
  BY <1>1, <1>2, PTL DEF SpecFile

\* OK means a complete file with the one batch in it, and a failure that came with a
\* message has left no row in the file, whether or not that file can be opened.
THEOREM FileMatchesResultAlways == SpecFile => []FileMatchesResult
<1>1. TypeOK /\ IInv /\ RInv /\ FInv => FileMatchesResult
  <2> SUFFICES ASSUME TypeOK, IInv, RInv, FInv PROVE FileMatchesResult
    OBVIOUS
  <2>1. RowsInv /\ PhaseInv /\ OwnTypeOK /\ EndInv
    BY DEF FInv, RInv
  <2>2. FileTypeOK
    BY <2>1 DEF FileTypeOK, OwnTypeOK
  <2>3. OkHoldsTheBatch
    <3> SUFFICES ASSUME phase = "done", result = "OK"
                 PROVE  Complete(Disk) /\ Len(ReadBack(Disk)) = 1 /\ Len(FooterOf(Disk).groups) = 1
      BY DEF OkHoldsTheBatch
    <3>1. handle = "freed" /\ ret.status = "OK" /\ offset > 0 /\ Len(accepted) = 1
      BY <2>1 DEF PhaseInv
    <3>2. synced = Len(stream) /\ Complete(stream) /\ stream \in Seq(Unit)
      BY <3>1 DEF IInv, CloseInv, TypeOK
    <3>3. Disk = stream
      BY <3>2 DEF Disk
    <3>4. Complete(Disk)
      BY <3>2, <3>3
    <3>5. ReadBack(Disk) = accepted
      BY <3>4, ReadBackIsAccepted DEF SealedIsAccepted
    <3>6. Len(FooterOf(Disk).groups) = Len(accepted)
      BY <3>4, DiskFooter
    <3>7. QED
      BY <3>1, <3>4, <3>5, <3>6
  <2>4. FailedBatchLeavesNoRow
    <3> SUFFICES ASSUME err, Complete(Disk)
                 PROVE  FooterOf(Disk).groups = <<>> /\ FooterOf(Disk).rows = 0
      BY DEF FailedBatchLeavesNoRow
    <3>1. accepted = <<>>
      BY <2>1 DEF PhaseInv
    <3>2. /\ FooterOf(Disk).groups \in Seq([rows : Nat, columns : Seq(FooterChunk)])
          /\ Len(FooterOf(Disk).groups) = 0
      BY <3>1, DiskFooter
    <3>3. /\ FooterOf(Disk) = stream[Len(stream) - 2] /\ FooterOf(Disk).kind = "footer"
          /\ Len(stream) \in Nat /\ Len(stream) >= 4
      BY <2>1, DiskIsStream
    <3>4. FooterOf(Disk).rows = 0
      BY <2>1, <3>1, <3>3 DEF RowsInv
    <3>5. QED
      BY <3>2, <3>4, EmptySeq
  <2>5. QED
    BY <2>2, <2>3, <2>4 DEF FileMatchesResult
<1>2. QED
  BY <1>1, FileInvariant, PTL
==============================================================================
