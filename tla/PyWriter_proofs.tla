---------------------------- MODULE PyWriter_proofs ----------------------------
(***************************************************************************)
(* What ParquetWriter guarantees for any number of threads, batches, tables *)
(* and calls.                                                               *)
(***************************************************************************)
EXTENDS PyWriter, SequenceLoops_lemmas

------------------------------------------------------------------------------
(* The inductive invariant: the file and the C writer change only while       *)
(* writer_ is set, and what a closing call said about the file stays true.    *)

LifeInv ==
    /\ object \in {"none", "raised"} => writer = "null" /\ held = {} /\ closing = "nobody"
    /\ object = "none" => handle = "none"
    /\ object = "alive" => (writer = "set" <=> handle = "open") /\ handle \in {"open", "freed"}
    /\ object = "destroyed" => writer = "null" /\ handle = "freed" /\ held = {}
    /\ process # "crashed"

\* A thread in a call has a reference to the object.
CallInv == \A t \in Threads : pc[t] # "idle" => t \in held

FileInv ==
    /\ rowGroups = Len(groups)
    /\ object = "none" \/ writer = "set" => state # "sealed"
    /\ writer = "set" => closing = "nobody"
    /\ closing = "returned" => state = "sealed" /\ groups # <<>>
    /\ object = "alive" /\ writer = "null" => closing # "nobody"

IInv == LifeInv /\ CallInv /\ FileInv

------------------------------------------------------------------------------
(* Type correctness. *)

LEMMA InitTyped == Init => TypeOK
<1> SUFFICES ASSUME Init PROVE TypeOK
  OBVIOUS
<1>1. <<>> \in Seq(Batches)
  OBVIOUS
<1>2. File!TypeOK
  BY DEF Init, File!Init, File!TypeOK
<1>3. QED
  BY <1>1, <1>2, MaxCallsAssumption DEF Init, TypeOK

\* What happens to the file in any step is a step of ParquetFile, or none.
LEMMA FileStepTyped ==
    ASSUME TypeOK,
           \/ UNCHANGED file \/ File!Seal \/ File!Lose
           \/ \E g \in RowGroup : File!Add(g)
    PROVE  File!TypeOK'
<1>1. File!TypeOK
  BY DEF TypeOK
<1>2. QED
  BY <1>1 DEF file, File!TypeOK, File!Seal, File!Lose, File!Add

\* The part of TypeOK about the calls of the threads.
CallTyped ==
    /\ pc \in [Threads -> {"idle", "table", "import"}]
    /\ arg \in [Threads -> Seq(Batches)]
    /\ \A t \in Threads : pc[t] = "import" => arg[t] # <<>>

LEMMA RaiseTyped ==
    ASSUME TypeOK, NEW t \in Threads, Raise(t)
    PROVE  CallTyped'
<1>1. /\ pc' = [pc EXCEPT ![t] = "idle"]
      /\ arg' = [arg EXCEPT ![t] = <<>>]
  BY DEF Raise
<1>2. arg' \in [Threads -> Seq(Batches)]
  <2>1. <<>> \in Seq(Batches)
    OBVIOUS
  <2>2. QED
    BY <1>1, <2>1 DEF TypeOK
<1>3. ASSUME NEW u \in Threads, pc'[u] = "import" PROVE arg'[u] # <<>>
  <2>1. CASE u = t
    BY <1>1, <1>3, <2>1 DEF TypeOK
  <2>2. CASE u # t
    BY <1>1, <1>3, <2>2 DEF TypeOK
  <2>3. QED
    BY <2>1, <2>2
<1>4. QED
  BY <1>1, <1>2, <1>3 DEF TypeOK, CallTyped

LEMMA EnterTyped ==
    ASSUME TypeOK, NEW t \in Threads, NEW batches \in Seq(Batches), batches # <<>>,
           Enter(t, batches)
    PROVE  CallTyped'
<1>1. CASE writer = "null"
  BY <1>1, RaiseTyped DEF Enter
<1>2. CASE writer # "null"
  <2>1. /\ pc' = [pc EXCEPT ![t] = "import"]
        /\ arg' = [arg EXCEPT ![t] = batches]
    BY <1>2 DEF Enter
  <2>2. arg' \in [Threads -> Seq(Batches)]
    BY <2>1 DEF TypeOK
  <2>3. ASSUME NEW u \in Threads, pc'[u] = "import" PROVE arg'[u] # <<>>
    <3>1. CASE u = t
      BY <2>1, <3>1 DEF TypeOK
    <3>2. CASE u # t
      BY <2>1, <2>3, <3>2 DEF TypeOK
    <3>3. QED
      BY <3>1, <3>2
  <2>4. QED
    BY <2>1, <2>2, <2>3 DEF TypeOK, CallTyped
<1>3. QED
  BY <1>1, <1>2

LEMMA StepTyped == TypeOK /\ [Next]_vars => TypeOK'
<1> SUFFICES ASSUME TypeOK, [Next]_vars PROVE TypeOK'
  OBVIOUS
<1> USE MaxCallsAssumption, TablesAssumption, RowsAssumption
<1>1. CASE Construct
  <2>1. File!TypeOK'
    BY <1>1, FileStepTyped DEF Construct
  <2>2. QED
    BY <1>1, <2>1 DEF Construct, TypeOK, told, file
<1>2. CASE ConstructRaises
  <2>1. File!TypeOK'
    BY <1>2, FileStepTyped DEF ConstructRaises
  <2>2. QED
    BY <1>2, <2>1 DEF ConstructRaises, TypeOK, told, file, threadVars
<1>3. ASSUME NEW t \in Threads, ThreadStep(t) PROVE TypeOK'
  <2> USE DEF TypeOK, told, threadVars, objectVars
  <2>1. CASE NextBatch(t)
    <3>1. File!TypeOK'
      BY <2>1, FileStepTyped DEF NextBatch
    <3>2. CASE arg[t] = <<>>
      BY <2>1, <3>1, <3>2 DEF NextBatch, Raise
    <3>3. CASE arg[t] # <<>>
      <4>1. Enter(t, arg[t])
        BY <2>1, <3>3 DEF NextBatch
      <4>2. CallTyped'
        BY <3>3, <4>1, EnterTyped
      <4>3. QED
        BY <2>1, <3>1, <4>2 DEF NextBatch, CallTyped
    <3>4. QED
      BY <3>2, <3>3
  <2>2. CASE ImportRaises(t)
    <3>1. File!TypeOK'
      BY <2>2, FileStepTyped DEF ImportRaises
    <3>2. QED
      BY <2>2, <3>1 DEF ImportRaises, Raise
  <2>3. CASE WriteRefused(t)
    <3>1. File!TypeOK'
      BY <2>3, FileStepTyped DEF WriteRefused
    <3>2. QED
      BY <2>3, <3>1 DEF WriteRefused, Raise
  <2>4. CASE WriteImported(t)
    <3>1. arg[t] \in Seq(Batches) /\ arg[t] # <<>> /\ Len(arg[t]) \in Nat
      BY <2>4 DEF WriteImported
    <3>2. Head(arg[t]) \in Batches /\ Tail(arg[t]) \in Seq(Batches)
      BY <3>1
    <3>3. Rows[Head(arg[t])] \in Nat
      BY <3>2
    <3>4. [by |-> t, batch |-> Head(arg[t])] \in RowGroup
      BY <3>2 DEF RowGroup
    <3>5. File!TypeOK'
      BY <2>4, <3>4, FileStepTyped DEF WriteImported, WriteOk
    <3>6. returned' \in [Threads -> Seq(Batches)] /\ arg' \in [Threads -> Seq(Batches)]
      BY <2>4, <3>1, <3>2 DEF WriteImported
    <3>7. pc' \in [Threads -> {"idle", "table", "import"}]
      BY <2>4 DEF WriteImported
    <3>8. ASSUME NEW u \in Threads, pc'[u] = "import" PROVE arg'[u] # <<>>
      BY <2>4, <3>8 DEF WriteImported
    <3>9. QED
      BY <2>4, <3>3, <3>5, <3>6, <3>7, <3>8 DEF WriteImported
  <2>5. CASE WriteImportedFails(t)
    <3>1. File!TypeOK'
      BY <2>5, FileStepTyped DEF WriteImportedFails, WriteFails
    <3>2. process' \in {"running", "ended", "crashed"}
      BY <2>5 DEF WriteImportedFails
    <3>3. QED
      BY <2>5, <3>1, <3>2 DEF WriteImportedFails, Raise
  <2>6. QED
    BY <1>3, <2>1, <2>2, <2>3, <2>4, <2>5 DEF ThreadStep
<1>4. ASSUME NEW t \in Threads, ThreadCall(t) PROVE TypeOK'
  <2> USE DEF TypeOK, told, threadVars, objectVars, Idle
  <2>1. ASSUME NEW b \in Batches, WriteBatch(t, b) PROVE TypeOK'
    <3>1. File!TypeOK'
      BY <2>1, FileStepTyped DEF WriteBatch
    <3>2. <<b>> \in Seq(Batches) /\ <<b>> # <<>>
      OBVIOUS
    <3>3. CallTyped'
      BY <2>1, <3>2, EnterTyped DEF WriteBatch
    <3>4. QED
      BY <2>1, <3>1, <3>3 DEF WriteBatch, CallTyped
  <2>2. ASSUME NEW batches \in Tables, WriteTable(t, batches) PROVE TypeOK'
    <3>1. File!TypeOK'
      BY <2>2, FileStepTyped DEF WriteTable
    <3>2. QED
      BY <2>2, <3>1 DEF WriteTable
  <2>3. ASSUME CloseCall, UNCHANGED <<object, rowGroups, numRows, process, pc, arg, calls, returned>>,
               held' \subseteq Threads
        PROVE  TypeOK'
    <3>1. File!TypeOK'
      BY <2>3, FileStepTyped DEF CloseCall, CloseWriter, CloseOk, CloseFails
    <3>2. writer' \in {"null", "set"} /\ handle' \in {"none", "open", "unopened", "freed"}
          /\ closing' \in {"nobody", "raised", "returned"}
      BY <2>3 DEF CloseCall, CloseWriter, CloseOk, CloseFails
    <3>3. QED
      BY <2>3, <3>1, <3>2
  <2>4. CASE Close(t)
    BY <2>3, <2>4 DEF Close
  <2>5. CASE Exit(t)
    BY <2>3, <2>5 DEF Exit
  <2>6. CASE ExitRaising(t)
    <3>1. File!TypeOK'
      BY <2>6, FileStepTyped DEF ExitRaising
    <3>2. QED
      BY <2>6, <3>1 DEF ExitRaising
  <2>7. QED
    BY <1>4, <2>1, <2>2, <2>4, <2>5, <2>6 DEF ThreadCall
<1>5. CASE Destroy
  <2>1. File!TypeOK'
    BY <1>5, FileStepTyped DEF Destroy, CloseOk, CloseFails
  <2>2. writer' \in {"null", "set"} /\ handle' \in {"none", "open", "unopened", "freed"}
    BY <1>5 DEF Destroy, CloseOk, CloseFails, TypeOK
  <2>3. QED
    BY <1>5, <2>1, <2>2 DEF Destroy, TypeOK, told, threadVars
<1>6. CASE ProcessEnds
  <2>1. File!TypeOK'
    BY <1>6, FileStepTyped DEF ProcessEnds
  <2>2. QED
    BY <1>6, <2>1 DEF ProcessEnds, TypeOK, told, threadVars, objectVars
<1>7. CASE UNCHANGED vars
  <2>1. File!TypeOK'
    BY <1>7, FileStepTyped DEF vars
  <2>2. QED
    BY <1>7, <2>1 DEF vars, TypeOK, told, threadVars, objectVars
<1>8. QED
  BY <1>1, <1>2, <1>3, <1>4, <1>5, <1>6, <1>7 DEF Next

\* Every state of the writer is well-typed: the threads' calls, the counters and
\* the file.
THEOREM TypeCorrect == Spec => []TypeOK
BY InitTyped, StepTyped, PTL DEF Spec

------------------------------------------------------------------------------
(* The invariant. *)

LEMMA InitInv == Init => IInv
BY DEF Init, IInv, LifeInv, CallInv, FileInv, File!Init

\* A step that leaves the object, the C writer and the file alone, and starts no call
\* in a thread without a reference.
LEMMA QuietStep ==
    ASSUME IInv,
           UNCHANGED <<objectVars, handle, process, closing, file>>,
           held' = held, CallInv'
    PROVE  IInv'
BY DEF IInv, LifeInv, FileInv, objectVars, file

\* The turns of write_table's loop, and the calls that begin, touch no thread but t.
LEMMA EnterKeepsCalls ==
    ASSUME TypeOK, CallInv, NEW t \in held, NEW batches,
           Enter(t, batches) \/ Raise(t), held' = held
    PROVE  CallInv'
BY DEF TypeOK, CallInv, Enter, Raise

\* close, by a thread or by the destructor: the writer is null, the C writer freed,
\* and the file is no longer written, whatever the status was.
LEMMA CloseSettles ==
    ASSUME TypeOK, writer = "set", NEW how, CloseWriter(how)
    PROVE  /\ writer' = "null" /\ handle' = "freed" /\ groups' = groups
           /\ how \in {"returned", "raised"}
           /\ how = "returned" => state' = "sealed" /\ rowGroups # 0
BY DEF TypeOK, CloseWriter, CloseOk, CloseFails, File!Seal, File!Lose, file, File!TypeOK

LEMMA StepInv == TypeOK /\ TypeOK' /\ IInv /\ [Next]_vars => IInv'
<1> SUFFICES ASSUME TypeOK, TypeOK', IInv, [Next]_vars PROVE IInv'
  OBVIOUS
<1>t. groups \in Seq(RowGroup) /\ rowGroups \in Nat
  BY DEF TypeOK, File!TypeOK
<1>1. CASE Construct
  BY <1>1 DEF Construct, IInv, LifeInv, CallInv, FileInv, told, file, TypeOK
<1>2. CASE ConstructRaises
  BY <1>2 DEF ConstructRaises, IInv, LifeInv, CallInv, FileInv, told, file, threadVars,
     File!Lose, TypeOK
<1>3. ASSUME NEW t \in Threads, ThreadStep(t) PROVE IInv'
  <2>1. pc[t] # "idle" /\ Running
    BY <1>3 DEF ThreadStep, NextBatch, ImportRaises, WriteRefused, WriteImported,
       WriteImportedFails
  <2>2. t \in held
    BY <2>1 DEF IInv, CallInv
  <2>3. CASE NextBatch(t)
    <3>1. CallInv'
      BY <2>2, <2>3, EnterKeepsCalls DEF NextBatch, IInv
    <3>2. QED
      BY <2>3, <3>1, QuietStep DEF NextBatch, told
  <2>4. CASE ImportRaises(t) \/ WriteRefused(t)
    <3>1. CallInv'
      BY <2>2, <2>4, EnterKeepsCalls DEF ImportRaises, WriteRefused, IInv
    <3>2. QED
      BY <2>4, <3>1, QuietStep DEF ImportRaises, WriteRefused, told
  <2>5. CASE WriteImported(t)
    <3>1. CallInv'
      BY <2>2, <2>5 DEF WriteImported, IInv, CallInv, TypeOK
    <3>2. \E g \in RowGroup : groups' = Append(groups, g)
      BY <2>5 DEF WriteImported, WriteOk, File!Add, RowGroup, TypeOK
    <3>3. Len(groups') = Len(groups) + 1
      BY <1>t, <3>2
    <3>4. rowGroups' = Len(groups') /\ state' = state /\ writer = "set"
      BY <2>5, <3>3 DEF WriteImported, WriteOk, File!Add, WriterPassed, IInv, FileInv
    <3>5. FileInv'
      BY <2>5, <3>4 DEF WriteImported, IInv, FileInv
    <3>6. QED
      BY <2>5, <3>1, <3>5 DEF WriteImported, IInv, LifeInv
  <2>6. CASE WriteImportedFails(t)
    <3>1. CallInv'
      BY <2>2, <2>6, EnterKeepsCalls DEF WriteImportedFails, IInv
    <3>2. writer = "set" /\ handle # "freed"
      BY <2>2, <2>6 DEF WriteImportedFails, WriterPassed, IInv, LifeInv, TypeOK
    <3>3. process' = process /\ (UNCHANGED file \/ File!Lose)
      BY <2>6, <3>2 DEF WriteImportedFails, WriteFails
    <3>4. groups' = groups /\ state' \in {state, "lost"}
      BY <3>3 DEF file, File!Lose
    <3>5. QED
      BY <2>6, <3>1, <3>2, <3>3, <3>4
         DEF WriteImportedFails, IInv, LifeInv, FileInv, objectVars, told
  <2>7. QED
    BY <1>3, <2>3, <2>4, <2>5, <2>6 DEF ThreadStep
<1>4. ASSUME NEW t \in Threads, ThreadCall(t) PROVE IInv'
  <2>1. t \in held /\ pc[t] = "idle"
    BY <1>4 DEF ThreadCall, WriteBatch, WriteTable, Close, Exit, ExitRaising, Idle
  <2>2. ASSUME NEW b \in Batches, WriteBatch(t, b) PROVE IInv'
    <3>1. CallInv'
      BY <2>1, <2>2, EnterKeepsCalls DEF WriteBatch, IInv
    <3>2. QED
      BY <2>2, <3>1, QuietStep DEF WriteBatch, told
  <2>3. ASSUME NEW batches \in Tables, WriteTable(t, batches) PROVE IInv'
    <3>1. CallInv'
      BY <2>1, <2>3 DEF WriteTable, IInv, CallInv, TypeOK
    <3>2. QED
      BY <2>3, <3>1, QuietStep DEF WriteTable, told
  <2>4. ASSUME CloseCall, UNCHANGED <<object, rowGroups, numRows, process, pc, arg>>,
               held' \subseteq held, CallInv'
        PROVE  IInv'
    <3>1. object = "alive"
      BY <2>1 DEF IInv, LifeInv, TypeOK
    <3>2. CASE writer = "null"
      BY <2>4, <3>1, <3>2 DEF CloseCall, IInv, LifeInv, FileInv, file
    <3>3. CASE writer = "set"
      <4>1. PICK how \in {"returned", "raised"} : CloseWriter(how) /\ closing' = how
        BY <2>4, <3>3 DEF CloseCall
      <4>2. /\ writer' = "null" /\ handle' = "freed" /\ groups' = groups
            /\ how = "returned" => state' = "sealed" /\ rowGroups # 0
        BY <3>3, <4>1, CloseSettles
      <4>3. how = "returned" => groups' # <<>>
        BY <1>t, <4>2 DEF IInv, FileInv
      <4>4. FileInv'
        BY <2>4, <3>1, <4>1, <4>2, <4>3 DEF IInv, FileInv
      <4>5. QED
        BY <2>4, <3>1, <4>2, <4>4 DEF IInv, LifeInv
    <3>4. QED
      BY <3>2, <3>3 DEF TypeOK
  <2>5. CASE Close(t)
    <3>1. CallInv'
      BY <2>5 DEF Close, threadVars, IInv, CallInv
    <3>2. QED
      BY <2>4, <2>5, <3>1 DEF Close, threadVars
  <2>6. CASE Exit(t)
    <3>1. CallInv'
      BY <2>1, <2>6 DEF Exit, IInv, CallInv
    <3>2. QED
      BY <2>4, <2>6, <3>1 DEF Exit
  <2>7. CASE ExitRaising(t)
    <3>1. CallInv'
      BY <2>1, <2>7 DEF ExitRaising, IInv, CallInv
    <3>2. object = "alive"
      BY <2>1 DEF IInv, LifeInv, TypeOK
    <3>3. QED
      BY <2>7, <3>1, <3>2 DEF ExitRaising, IInv, LifeInv, FileInv, objectVars, told, file
  <2>8. QED
    BY <1>4, <2>2, <2>3, <2>5, <2>6, <2>7 DEF ThreadCall
<1>5. CASE Destroy
  <2>1. CallInv'
    BY <1>5 DEF Destroy, threadVars, IInv, CallInv
  <2>2. CASE writer = "null"
    <3>1. handle = "freed"
      BY <1>5, <2>2 DEF Destroy, IInv, LifeInv
    <3>2. QED
      BY <1>5, <2>1, <2>2, <3>1 DEF Destroy, IInv, LifeInv, FileInv, told, file, threadVars
  <2>3. CASE writer = "set"
    <3>1. writer' = "null" /\ handle' = "freed" /\ groups' = groups
      BY <1>5, <2>3 DEF Destroy, CloseOk, CloseFails, File!Seal, File!Lose, file
    <3>2. QED
      BY <1>5, <2>1, <2>3, <3>1 DEF Destroy, IInv, LifeInv, FileInv, told, threadVars
  <2>4. QED
    BY <2>2, <2>3 DEF TypeOK
<1>6. CASE ProcessEnds
  <2>1. groups' = groups /\ (state' = state \/ (state = "writing" /\ state' = "lost"))
    BY <1>6 DEF ProcessEnds, File!Lose, file
  <2>2. process' = "ended" /\ UNCHANGED <<objectVars, handle, threadVars, told>>
    BY <1>6 DEF ProcessEnds
  <2>3. LifeInv' /\ CallInv'
    BY <2>2 DEF IInv, LifeInv, CallInv, objectVars, threadVars, told
  <2>4. FileInv'
    BY <2>1, <2>2 DEF IInv, FileInv, objectVars, told
  <2>5. QED
    BY <2>3, <2>4 DEF IInv
<1>7. CASE UNCHANGED vars
  BY <1>7 DEF vars, IInv, LifeInv, CallInv, FileInv, objectVars, threadVars, told, file
<1>8. QED
  BY <1>1, <1>2, <1>3, <1>4, <1>5, <1>6, <1>7 DEF Next

\* Through every interleaving of the threads' calls: writer_ is the open C writer, a thread in
\* a call keeps the object, and what a close has told of the file is so.
THEOREM InvariantHolds == Spec => []IInv
BY InitTyped, StepTyped, InitInv, StepInv, PTL DEF Spec

------------------------------------------------------------------------------
(* What the module states, for every number of threads, batches and calls. *)

\* No thread uses the C writer after another thread's close freed it: the pointer
\* passed after the import is the member as it is then (n2p_bindings.cpp, write_batch).
\* The object owns an open C writer exactly while writer_ is set, and the destructor
\* leaves none behind.
THEOREM HandleIsSafe == Spec => []HandleOK
<1>1. IInv => NeverUsesFreed
  BY DEF IInv, LifeInv, NeverUsesFreed
<1>2. IInv => ObjectOwnsTheHandle
  BY DEF IInv, LifeInv, ObjectOwnsTheHandle
<1>3. QED
  BY <1>1, <1>2, InvariantHolds, PTL DEF HandleOK

\* row_groups_ counts the row groups of the file, whatever the threads interleave.
THEOREM CountersAgree == Spec => []CountersMatchTheFile
<1>1. IInv => CountersMatchTheFile
  BY DEF IInv, FileInv, CountersMatchTheFile
<1>2. QED
  BY <1>1, InvariantHolds, PTL

\* A close that returned has sealed a file with a batch in it, and some close raised
\* before a lost file is forgotten (n2p_bindings.cpp, close).
THEOREM ClosesAreTold == Spec => []CloseIsTold
<1>1. IInv => ReturnedCloseIsSealed
  BY DEF IInv, FileInv, ReturnedCloseIsSealed
<1>2. TypeOK /\ IInv => LossIsTold
  BY DEF TypeOK, IInv, FileInv, LossIsTold
<1>3. QED
  BY <1>1, <1>2, TypeCorrect, InvariantHolds, PTL DEF CloseIsTold

------------------------------------------------------------------------------
(* What the counters and the threads know of the file. *)

\* The row groups of one thread, in the file and as the thread was told of them.
InFileOf(t) == Picked(groups, {i \in DOMAIN groups : groups[i].by = t})
ToldOf(t) == [i \in DOMAIN returned[t] |-> [by |-> t, batch |-> returned[t][i]]]

\* Held at every point and not only when the file is sealed: nothing is taken back.
HoldInv == RowsMatchTheFile /\ \A t \in Threads : InFileOf(t) = ToldOf(t)

\* Only a batch that is written changes what is counted, returned and in the file.
LEMMA ContentSteps ==
    ASSUME [Next]_vars
    PROVE  \/ UNCHANGED <<groups, numRows, returned>>
           \/ \E t \in Threads : WriteImported(t)
<1>1. CASE UNCHANGED vars \/ Construct \/ ConstructRaises \/ Destroy \/ ProcessEnds
  BY <1>1 DEF vars, Construct, ConstructRaises, Destroy, ProcessEnds, CloseOk, CloseFails,
     File!Seal, File!Lose, objectVars, told, file
<1>2. ASSUME NEW t \in Threads, ThreadStep(t), ~WriteImported(t)
      PROVE  UNCHANGED <<groups, numRows, returned>>
  BY <1>2 DEF ThreadStep, NextBatch, ImportRaises, WriteRefused, WriteImportedFails, WriteFails,
     File!Lose, objectVars, told, file
<1>3. ASSUME NEW t \in Threads, ThreadCall(t) PROVE UNCHANGED <<groups, numRows, returned>>
  BY <1>3 DEF ThreadCall, WriteBatch, WriteTable, Close, Exit, ExitRaising, CloseCall, CloseWriter,
     CloseOk, CloseFails, File!Seal, File!Lose, objectVars, told, file
<1>4. QED
  BY <1>1, <1>2, <1>3 DEF Next

LEMMA InitHolds == Init => HoldInv
<1> SUFFICES ASSUME Init PROVE HoldInv
  OBVIOUS
<1>1. groups = <<>> /\ numRows = 0 /\ \A t \in Threads : returned[t] = <<>>
  BY DEF Init, File!Init
<1>2. RowsMatchTheFile
  <2>1. [i \in DOMAIN groups |-> Rows[groups[i].batch]] = <<>>
    BY <1>1
  <2>2. <<>> \in Seq(Int) /\ Len(groups) = 0
    BY <1>1
  <2>3. QED
    BY <1>1, <2>1, <2>2, SumsDef DEF RowsMatchTheFile
<1>3. ASSUME NEW t \in Threads PROVE InFileOf(t) = ToldOf(t)
  <2> DEFINE I == {i \in DOMAIN groups : groups[i].by = t}
  <2>1. Picked(groups, I) = <<>>
    <3> HIDE DEF I
    <3>1. QED
      BY <1>1, PickedEmpty
  <2>2. ToldOf(t) = <<>>
    BY <1>1 DEF ToldOf
  <2>3. QED
    BY <2>1, <2>2 DEF InFileOf
<1>4. QED
  BY <1>2, <1>3 DEF HoldInv

LEMMA RowsCounted ==
    ASSUME TypeOK, RowsMatchTheFile, NEW g \in RowGroup, groups' = Append(groups, g),
           numRows' = numRows + Rows[g.batch]
    PROVE  RowsMatchTheFile'
<1> DEFINE s == [i \in DOMAIN groups |-> Rows[groups[i].batch]]
           x == Rows[g.batch]
<1>1. groups \in Seq(RowGroup) /\ Len(groups) \in Nat
  BY DEF TypeOK, File!TypeOK
<1>2. \A h \in RowGroup : Rows[h.batch] \in Nat
  BY RowsAssumption DEF RowGroup
<1>3. s \in Seq(Int) /\ Len(s) = Len(groups) /\ x \in Int
  <2> DEFINE n == Len(groups)
  <2>1. DOMAIN groups = 1 .. n /\ n \in Nat /\ \A i \in 1 .. n : groups[i] \in RowGroup
    BY <1>1
  <2> HIDE DEF n
  <2>2. \A i \in 1 .. n : Rows[groups[i].batch] \in Int
    BY <1>2, <2>1
  <2>3. s = [i \in 1 .. n |-> Rows[groups[i].batch]]
    BY <2>1
  <2> HIDE DEF s
  <2>4. s \in Seq(Int) /\ Len(s) = n
    BY <2>1, <2>2, <2>3
  <2>5. QED
    BY <1>2, <2>4 DEF n
<1>4. [i \in DOMAIN groups' |-> Rows[groups'[i].batch]] = Append(s, x)
  <2>1. groups' \in Seq(RowGroup) /\ Len(groups') = Len(groups) + 1 /\ DOMAIN groups' = 1 .. Len(groups) + 1
    BY <1>1
  <2>2. \A i \in 1 .. Len(groups) + 1 : Rows[groups'[i].batch] = Append(s, x)[i]
    BY <1>1, <1>3
  <2>3. DOMAIN Append(s, x) = 1 .. Len(groups) + 1
    BY <1>3
  <2>4. QED
    BY <2>1, <2>2, <2>3, <1>3
<1>5. Sums(Append(s, x))[Len(s) + 1] = Sums(s)[Len(s)] + x
  <2> HIDE DEF s, x
  <2>1. QED
    BY <1>3, SumsAppend
<1>6. Len(groups') = Len(groups) + 1
  BY <1>1
<1>7. QED
  BY <1>3, <1>4, <1>5, <1>6 DEF RowsMatchTheFile

LEMMA ToldWhatIsIn ==
    ASSUME TypeOK, \A u \in Threads : InFileOf(u) = ToldOf(u),
           NEW t \in Threads, NEW b \in Batches,
           groups' = Append(groups, [by |-> t, batch |-> b]),
           returned' = [returned EXCEPT ![t] = Append(@, b)],
           NEW u \in Threads
    PROVE  (InFileOf(u) = ToldOf(u))'
<1> DEFINE g == [by |-> t, batch |-> b]
           I == {i \in DOMAIN groups : groups[i].by = u}
           J == {i \in DOMAIN groups' : groups'[i].by = u}
           n == Len(groups)
<1>1. groups \in Seq(RowGroup) /\ g \in RowGroup /\ n \in Nat
  BY DEF TypeOK, File!TypeOK, RowGroup
<1>2. /\ groups' = Append(groups, g) /\ DOMAIN groups' = 1 .. n + 1 /\ DOMAIN groups = 1 .. n
      /\ groups'[n + 1] = g /\ \A i \in 1 .. n : groups'[i] = groups[i]
  BY <1>1
<1>3. Picked(groups, J) = Picked(groups, I)
  <2>1. \A i \in 1 .. n : i \in J <=> i \in I
    BY <1>1, <1>2
  <2>2. n <= n /\ n \in 0 .. n
    BY <1>1
  <2> HIDE DEF I, J, g
  <2>3. \A i \in 0 .. n : Picks(groups, J)[i] = Picks(groups, I)[i]
    BY <1>1, <2>1, <2>2, PicksAgree
  <2>4. QED
    BY <2>2, <2>3 DEF Picked
<1>4. Picked(groups', J) = IF n + 1 \in J THEN Append(Picked(groups, J), g) ELSE Picked(groups, J)
  <2> HIDE DEF J, g
  <2>1. QED
    BY <1>1, <1>2, PickedAppend
<1>5. n + 1 \in J <=> u = t
  BY <1>1, <1>2
<1>6. InFileOf(u)' = IF u = t THEN Append(InFileOf(u), g) ELSE InFileOf(u)
  BY <1>3, <1>4, <1>5 DEF InFileOf
<1>7. ToldOf(u)' = IF u = t THEN Append(ToldOf(u), g) ELSE ToldOf(u)
  <2>1. returned[u] \in Seq(Batches)
    BY DEF TypeOK
  <2>2. CASE u # t
    BY <2>2 DEF TypeOK, ToldOf
  <2>3. CASE u = t
    <3> DEFINE r == returned[u]
    <3>1. returned'[u] = Append(r, b) /\ r \in Seq(Batches)
      BY <2>1, <2>3 DEF TypeOK
    <3>2. ToldOf(u) = [i \in 1 .. Len(r) |-> [by |-> u, batch |-> r[i]]]
      BY <2>1 DEF ToldOf
    <3>3. ToldOf(u)' = [i \in 1 .. Len(r) + 1 |-> [by |-> u, batch |-> Append(r, b)[i]]]
      BY <3>1 DEF ToldOf
    <3> HIDE DEF r
    <3>4. QED
      BY <2>3, <3>1, <3>2, <3>3
  <2>4. QED
    BY <2>2, <2>3
<1>8. QED
  BY <1>6, <1>7

LEMMA StepHolds ==
    ASSUME TypeOK, HoldInv, [Next]_vars
    PROVE  HoldInv'
<1>1. CASE UNCHANGED <<groups, numRows, returned>>
  BY <1>1 DEF HoldInv, RowsMatchTheFile, InFileOf, ToldOf
<1>2. ASSUME NEW t \in Threads, WriteImported(t) PROVE HoldInv'
  <2> DEFINE b == Head(arg[t])
             g == [by |-> t, batch |-> b]
  <2>1. /\ groups' = Append(groups, g) /\ numRows' = numRows + Rows[b]
        /\ returned' = [returned EXCEPT ![t] = Append(@, b)]
    BY <1>2 DEF WriteImported, WriteOk, File!Add
  <2>2. b \in Batches
    <3>1. arg[t] \in Seq(Batches) /\ arg[t] # <<>>
      BY <1>2 DEF WriteImported, TypeOK
    <3>2. QED
      BY <3>1
  <2> HIDE DEF b
  <2>3. RowsMatchTheFile'
    <3>1. g \in RowGroup /\ g.batch = b
      BY <2>2 DEF RowGroup
    <3>2. QED
      BY <2>1, <3>1, RowsCounted DEF HoldInv
  <2>4. \A u \in Threads : (InFileOf(u) = ToldOf(u))'
    BY <2>1, <2>2, ToldWhatIsIn DEF HoldInv
  <2>5. QED
    BY <2>3, <2>4 DEF HoldInv
<1>3. QED
  BY <1>1, <1>2, ContentSteps

LEMMA Holds == Spec => []HoldInv
<1>1. TypeOK /\ HoldInv /\ [Next]_vars => HoldInv'
  BY StepHolds
<1>2. QED
  BY <1>1, InitHolds, TypeCorrect, PTL DEF Spec

\* num_rows is at every point the number of rows in the file, whichever threads wrote
\* them and whichever of their batches were refused.
THEOREM RowsAreCounted == Spec => []RowsMatchTheFile
BY Holds, PTL DEF HoldInv

\* The file holds for each thread what its calls returned for, in the order of the
\* calls, and nothing else of it, however the threads' calls fall between each other.
THEOREM ReturnedIsInTheFile == Spec => []SealedHoldsWhatReturned
<1>1. HoldInv => SealedHoldsWhatReturned
  BY DEF HoldInv, InFileOf, ToldOf, SealedHoldsWhatReturned
<1>2. QED
  BY <1>1, Holds, PTL
==============================================================================
