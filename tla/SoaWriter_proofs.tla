--------------------------- MODULE SoaWriter_proofs ---------------------------
(***************************************************************************)
(* What the struct-of-arrays Writer and write_file guarantee for every       *)
(* schema, every set of chunks and any number of calls.                      *)
(***************************************************************************)
EXTENDS SoaWriter, SequenceLoops_lemmas

------------------------------------------------------------------------------
(* The inductive invariant. *)

ProgramInv == program \in Programs /\ caller \in {"free", "write_file"}

\* Nothing has happened before the constructor returns.
FreshInv ==
    ret.op = "none" =>
      w = "null" /\ handle = "none" /\ status = "OK" /\ result = "OK"
      /\ state = "writing" /\ groups = <<>>

\* The Writer points to a C writer as long as there is one, and forgets it when it
\* is freed; one that could not be opened has left its mark in status_.
PointerInv ==
    /\ w = "set" => handle \in {"open", "unopened"}
    /\ w # "set" => handle \in {"none", "freed"}
    /\ handle = "unopened" => status # "OK"
    /\ handle = "freed" /\ w = "null" /\ status = "OK" => state = "sealed"

\* Every chunk write_chunk returned OK for had columns that fit.
ToldInv == \A r \in 1 .. Len(told) : told[r] \in program /\ Fits(told[r])

\* Where write_file is: the call that returned last says what holds of the file.
FlowInv ==
    caller = "write_file" =>
      /\ ret.op \in {"none", "Writer", "write_chunk", "close"}
      /\ ret.op = "Writer" =>
           /\ result = status /\ groups = <<>>
           /\ status = "OK" => w = "set" /\ handle = "open"
      /\ ret.op = "write_chunk" =>
           w = "set" /\ handle = "open" /\ (result = "OK" => Len(groups) = 1)
      /\ ret.op = "close" => w # "set" /\ (result = "OK" => state = "sealed" /\ Len(groups) = 1)
      /\ w = "gone" => ret.op = "close" \/ result # "OK"

IInv == ProgramInv /\ FreshInv /\ PointerInv /\ ToldInv /\ FlowInv

------------------------------------------------------------------------------
(* The calls. *)

LEMMA InitHolds == Init => TypeOK /\ IInv
<1> SUFFICES ASSUME Init PROVE TypeOK /\ IInv
  OBVIOUS
<1>1. TypeOK
  BY MaxCallsAssumption DEF Init, TypeOK, Statuses, File!Init, File!TypeOK
<1>2. IInv
  BY DEF Init, IInv, ProgramInv, FreshInv, PointerInv, ToldInv, FlowInv, File!Init
<1>3. QED
  BY <1>1, <1>2

\* What the calls that write no row group have in common.
LEMMA ToldKept ==
    ASSUME TypeOK, ToldInv, told' = told, program' = program
    PROVE  ToldInv' /\ told' \in Seq(program')
BY DEF TypeOK, ToldInv

LEMMA ConstructKeeps ==
    ASSUME TypeOK, IInv, Construct
    PROVE  TypeOK' /\ IInv'
<1>1. /\ ret.op = "none" /\ caller' = caller /\ program' = program /\ told' = told
      /\ UNCHANGED <<calls, alive, groups>>
      /\ ret' = [op |-> "Writer", status |-> status']
      /\ result' = IF caller = "write_file" /\ result = "OK" THEN status' ELSE result
  BY DEF Construct, Calls, Return, callerVars
<1>2. /\ w = "null" /\ handle = "none" /\ status = "OK" /\ result = "OK"
      /\ state = "writing" /\ groups = <<>>
  BY <1>1 DEF IInv, FreshInv
<1>3. \/ w' = "set" /\ handle' = "open" /\ status' = "OK" /\ state' = state
      \/ w' = "set" /\ handle' = "unopened" /\ status' = "IO_ERROR" /\ state' = "lost"
      \/ w' = "null" /\ status' = "INVALID_ARGUMENT" /\ state' = "lost" /\ handle' = handle
  BY DEF Construct
<1>4. ToldInv' /\ told' \in Seq(program')
  BY <1>1, ToldKept DEF IInv
<1>5. TypeOK'
  BY <1>1, <1>2, <1>3, <1>4 DEF TypeOK, Statuses, File!TypeOK
<1>6. ProgramInv' /\ FreshInv' /\ PointerInv' /\ FlowInv'
  BY <1>1, <1>2, <1>3 DEF IInv, ProgramInv, FreshInv, PointerInv, FlowInv
<1>7. QED
  BY <1>4, <1>5, <1>6 DEF IInv

LEMMA SetOptionKeeps ==
    ASSUME TypeOK, IInv, SetOption
    PROVE  TypeOK' /\ IInv'
<1>1. /\ ret.op # "none" /\ caller # "write_file"
      /\ UNCHANGED <<caller, program, w, handle, status, calls, told, alive, state, groups>>
      /\ result' = result /\ ret'.op = "set" /\ ret'.status \in {"OK", "INVALID_ARGUMENT"}
  <2>1. UNCHANGED <<caller, program, w, handle, status, calls, told, alive, state, groups>>
    BY DEF SetOption, callerVars, objectVars, fileVars
  <2>2. ret.op # "none" /\ caller # "write_file"
    BY DEF SetOption, Calls, NextInWriteFile
  <2>3. result' = result /\ ret'.op = "set" /\ ret'.status \in {"OK", "INVALID_ARGUMENT"}
    BY <2>2 DEF SetOption, Return
  <2>4. QED
    BY <2>1, <2>2, <2>3
<1>2. ToldInv' /\ told' \in Seq(program')
  BY <1>1, ToldKept DEF IInv
<1>3. TypeOK'
  BY <1>1, <1>2 DEF TypeOK, Statuses, File!TypeOK
<1>4. ProgramInv' /\ FreshInv' /\ PointerInv' /\ FlowInv'
  BY <1>1 DEF IInv, ProgramInv, FreshInv, PointerInv, FlowInv
<1>5. QED
  BY <1>2, <1>3, <1>4 DEF IInv

\* Before a chunk of write_file there is an open writer and no row group.
LEMMA AtChunk ==
    ASSUME TypeOK, IInv, NEW chunk \in program, ChunkCall(chunk)
    PROVE  /\ ret.op # "none" /\ calls' = calls + 1 /\ calls' \in 0 .. MaxCalls
           /\ UNCHANGED <<caller, program, w, handle>>
           /\ caller = "write_file" =>
                ret.op = "Writer" /\ result = "OK" /\ groups = <<>> /\ w = "set" /\ handle = "open"
<1>1. /\ ret.op # "none" /\ calls < MaxCalls /\ calls' = calls + 1
      /\ UNCHANGED <<caller, program, w, handle>>
      /\ caller = "write_file" => NextInWriteFile = "write_chunk"
  BY DEF ChunkCall, Calls, callerVars
<1>2. calls' \in 0 .. MaxCalls
  BY <1>1, MaxCallsAssumption DEF TypeOK
<1>3. caller = "write_file" => ret.op = "Writer" /\ status = "OK"
  BY <1>1 DEF NextInWriteFile, IInv, FlowInv
<1>4. QED
  BY <1>1, <1>2, <1>3 DEF IInv, FlowInv

LEMMA ChunkRefusedKeeps ==
    ASSUME TypeOK, IInv, NEW chunk \in program,
           \/ ChunkUnopened(chunk) \/ ChunkOverruns(chunk)
           \/ ChunkDoesNotFit(chunk) \/ ChunkFails(chunk)
    PROVE  TypeOK' /\ IInv'
<1>1. ChunkCall(chunk) /\ told' = told
  BY DEF ChunkUnopened, ChunkOverruns, ChunkDoesNotFit, ChunkFails
<1>2. /\ ret.op # "none" /\ calls' \in 0 .. MaxCalls
      /\ UNCHANGED <<caller, program, w, handle>>
      /\ caller = "write_file" =>
           ret.op = "Writer" /\ result = "OK" /\ groups = <<>> /\ w = "set" /\ handle = "open"
  BY <1>1, AtChunk
<1>3. ToldInv' /\ told' \in Seq(program')
  BY <1>1, <1>2, ToldKept DEF IInv
<1>4. CASE ChunkUnopened(chunk)
  <2>1. /\ w = "null" /\ caller # "write_file" /\ UNCHANGED <<status, alive, state, groups>>
        /\ ret' = [op |-> "write_chunk", status |-> status] /\ result' = result
    BY <1>2, <1>4 DEF ChunkUnopened, Return, fileVars
  <2>2. TypeOK'
    BY <1>2, <1>3, <2>1 DEF TypeOK, File!TypeOK
  <2>3. ProgramInv' /\ FreshInv' /\ PointerInv' /\ FlowInv'
    BY <1>2, <2>1 DEF IInv, ProgramInv, FreshInv, PointerInv, FlowInv
  <2>4. QED
    BY <1>3, <2>2, <2>3 DEF IInv
<1>5. CASE ChunkOverruns(chunk)
  <2>1. UNCHANGED <<status, ret, result, state, groups>> /\ alive' = FALSE
    BY <1>5 DEF ChunkOverruns, fileVars
  <2>2. TypeOK'
    BY <1>2, <1>3, <2>1 DEF TypeOK, File!TypeOK
  <2>3. ProgramInv' /\ FreshInv' /\ PointerInv' /\ FlowInv'
    BY <1>2, <2>1 DEF IInv, ProgramInv, FreshInv, PointerInv, FlowInv
  <2>4. QED
    BY <1>3, <2>2, <2>3 DEF IInv
<1>6. CASE ChunkDoesNotFit(chunk) \/ ChunkFails(chunk)
  <2>1. /\ w = "set" /\ alive' = alive /\ groups' = groups /\ state' \in {state, "lost"}
        /\ status' \in {"INVALID_ARGUMENT", "IO_ERROR"}
        /\ ret' = [op |-> "write_chunk", status |-> status']
        /\ result' = IF caller = "write_file" /\ result = "OK" THEN status' ELSE result
    BY <1>6 DEF ChunkDoesNotFit, ChunkFails, Return, fileVars, File!Lose
  <2>2. TypeOK'
    BY <1>2, <1>3, <2>1 DEF TypeOK, Statuses, File!TypeOK
  <2>3. ProgramInv' /\ FreshInv' /\ PointerInv' /\ FlowInv'
    BY <1>2, <2>1 DEF IInv, ProgramInv, FreshInv, PointerInv, FlowInv
  <2>4. QED
    BY <1>3, <2>2, <2>3 DEF IInv
<1>7. QED
  BY <1>4, <1>5, <1>6

LEMMA ChunkAcceptedKeeps ==
    ASSUME TypeOK, IInv, NEW chunk \in program, ChunkAccepted(chunk)
    PROVE  TypeOK' /\ IInv'
<1> DEFINE RG == {Written(c) : c \in {d \in UNION Programs : Fits(d)}}
<1>1. /\ ret.op # "none" /\ calls' \in 0 .. MaxCalls
      /\ UNCHANGED <<caller, program, w, handle>>
      /\ caller = "write_file" =>
           ret.op = "Writer" /\ result = "OK" /\ groups = <<>> /\ w = "set" /\ handle = "open"
  BY AtChunk DEF ChunkAccepted
<1>2. /\ w = "set" /\ handle = "open" /\ Fits(chunk) /\ status' = "OK" /\ alive' = alive
      /\ state = "writing" /\ state' = state /\ groups' = Append(groups, Written(chunk))
      /\ told' = Append(told, chunk)
      /\ ret' = [op |-> "write_chunk", status |-> "OK"]
      /\ result' = IF caller = "write_file" /\ result = "OK" THEN "OK" ELSE result
  BY DEF ChunkAccepted, Return, File!Add
<1>3. /\ told \in Seq(program) /\ Len(told) \in Nat
      /\ told' \in Seq(program) /\ Len(told') = Len(told) + 1
      /\ told'[Len(told) + 1] = chunk
      /\ \A r \in 1 .. Len(told) : told'[r] = told[r]
  BY <1>2, AppendProperties DEF TypeOK
<1>4. ToldInv'
  <2>1. ASSUME NEW r \in 1 .. Len(told') PROVE told'[r] \in program /\ Fits(told'[r])
    <3>1. CASE r \in 1 .. Len(told)
      BY <1>3, <3>1 DEF IInv, ToldInv
    <3>2. CASE r = Len(told) + 1
      BY <1>2, <1>3, <3>2
    <3>3. QED
      BY <1>3, <3>1, <3>2
  <2>2. QED
    BY <1>1, <2>1 DEF ToldInv
<1>5. Written(chunk) \in RG
  <2>1. chunk \in UNION Programs
    BY DEF IInv, ProgramInv
  <2>2. QED
    BY <1>2, <2>1
<1>6. groups \in Seq(RG)
  BY DEF TypeOK, File!TypeOK
<1> HIDE DEF RG
<1>7. groups' \in Seq(RG) /\ Len(groups') = Len(groups) + 1
  BY <1>2, <1>5, <1>6, AppendProperties
<1>8. TypeOK'
  <2>1. state' \in {"writing", "sealed", "lost"} /\ groups' \in Seq(RG)
    BY <1>2, <1>7
  <2>2. File!TypeOK'
    BY <2>1 DEF File!TypeOK, RG
  <2>3. result' \in Statuses /\ ret'.status \in Statuses
    BY <1>2 DEF TypeOK, Statuses
  <2>4. QED
    BY <1>1, <1>2, <1>3, <2>2, <2>3 DEF TypeOK, Statuses
<1>9. caller = "write_file" => Len(groups') = 1
  BY <1>1, <1>7
<1>10. ProgramInv' /\ FreshInv' /\ PointerInv' /\ FlowInv'
  BY <1>1, <1>2, <1>9 DEF IInv, ProgramInv, FreshInv, PointerInv, FlowInv
<1>11. QED
  BY <1>4, <1>8, <1>10 DEF IInv

\* The close of the C ABI: OK seals an open file, and nothing takes a sealed one back.
LEMMA CCloseFrees ==
    ASSUME TypeOK, NEW s, CClose(s)
    PROVE  /\ handle' = "freed" /\ s \in {"OK", "IO_ERROR"} /\ groups' = groups
           /\ state' \in {"writing", "sealed", "lost"}
           /\ handle = "open" /\ s = "OK" => state' = "sealed"
           /\ s = "IO_ERROR" => handle = "open"
BY DEF CClose, TypeOK, fileVars, File!TypeOK, File!Seal, File!Lose

LEMMA CloseKeeps ==
    ASSUME TypeOK, IInv, Close
    PROVE  TypeOK' /\ IInv'
<1>1. /\ ret.op # "none" /\ UNCHANGED <<caller, program, calls, told, alive>>
      /\ caller = "write_file" => NextInWriteFile = "close"
      /\ w # "gone"
  BY DEF Close, Calls, callerVars
<1>2. caller = "write_file" =>
        ret.op = "write_chunk" /\ w = "set" /\ handle = "open" /\ (result = "OK" => Len(groups) = 1)
  BY <1>1 DEF NextInWriteFile, IInv, FlowInv
<1>3. ToldInv' /\ told' \in Seq(program')
  BY <1>1, ToldKept DEF IInv
<1>4. CASE w = "null"
  <2>1. /\ UNCHANGED <<w, handle, status, state, groups>>
        /\ ret' = [op |-> "close", status |-> status] /\ caller # "write_file" /\ result' = result
    BY <1>2, <1>4 DEF Close, Return, objectVars, fileVars
  <2>2. TypeOK'
    BY <1>1, <1>3, <2>1 DEF TypeOK, File!TypeOK
  <2>3. ProgramInv' /\ FreshInv' /\ PointerInv' /\ FlowInv'
    BY <1>1, <2>1 DEF IInv, ProgramInv, FreshInv, PointerInv, FlowInv
  <2>4. QED
    BY <1>3, <2>2, <2>3 DEF IInv
<1>5. CASE w = "set"
  <2>1. PICK s \in Statuses :
          /\ CClose(s) /\ status' = (IF status = "OK" THEN s ELSE status)
          /\ ret' = [op |-> "close", status |-> s]
          /\ result' = IF caller = "write_file" /\ result = "OK" THEN s ELSE result
    BY <1>5 DEF Close, Return
  <2>2. /\ handle' = "freed" /\ s \in {"OK", "IO_ERROR"} /\ groups' = groups /\ w' = "null"
        /\ state' \in {"writing", "sealed", "lost"}
        /\ handle = "open" /\ s = "OK" => state' = "sealed"
    BY <1>5, <2>1, CCloseFrees DEF Close
  <2>3. TypeOK'
    BY <1>1, <1>3, <2>1, <2>2 DEF TypeOK, Statuses, File!TypeOK
  <2>4. PointerInv'
    BY <1>5, <2>1, <2>2 DEF IInv, PointerInv
  <2>5. ProgramInv' /\ FreshInv' /\ FlowInv'
    BY <1>1, <1>2, <2>1, <2>2 DEF IInv, ProgramInv, FreshInv, FlowInv
  <2>6. QED
    BY <1>3, <2>3, <2>4, <2>5 DEF IInv
<1>6. QED
  BY <1>1, <1>4, <1>5 DEF TypeOK

LEMMA DestroyKeeps ==
    ASSUME TypeOK, IInv, Destroy
    PROVE  TypeOK' /\ IInv'
<1>1. /\ ret.op # "none" /\ w # "gone" /\ w' = "gone"
      /\ UNCHANGED <<caller, program, status, ret, result, calls, told, alive>>
      /\ caller = "write_file" => NextInWriteFile = "~Writer"
  BY DEF Destroy, Calls, callerVars
<1>2. caller = "write_file" => ret.op = "close" \/ (ret.op = "Writer" /\ result # "OK")
  BY <1>1 DEF NextInWriteFile, IInv, FlowInv
<1>3. ToldInv' /\ told' \in Seq(program')
  BY <1>1, ToldKept DEF IInv
<1>4. CASE w = "null"
  <2>1. UNCHANGED <<handle, state, groups>>
    BY <1>4 DEF Destroy, fileVars
  <2>2. TypeOK'
    BY <1>1, <1>3, <2>1 DEF TypeOK, File!TypeOK
  <2>3. ProgramInv' /\ FreshInv' /\ PointerInv' /\ FlowInv'
    BY <1>1, <1>2, <1>4, <2>1 DEF IInv, ProgramInv, FreshInv, PointerInv, FlowInv
  <2>4. QED
    BY <1>3, <2>2, <2>3 DEF IInv
<1>5. CASE w = "set"
  <2>1. PICK s \in Statuses : CClose(s)
    BY <1>5 DEF Destroy
  <2>2. /\ handle' = "freed" /\ groups' = groups /\ state' \in {"writing", "sealed", "lost"}
    BY <2>1, CCloseFrees
  <2>3. TypeOK'
    BY <1>1, <1>3, <2>2 DEF TypeOK, File!TypeOK
  <2>4. ProgramInv' /\ FreshInv' /\ PointerInv'
    BY <1>1, <2>2 DEF IInv, ProgramInv, FreshInv, PointerInv
  \* The writer of write_file has been closed already, or never was a good one.
  <2>5. FlowInv'
    <3>1. CASE caller # "write_file"
      BY <1>1, <3>1 DEF FlowInv
    <3>2. CASE caller = "write_file" /\ ret.op = "close"
      BY <1>1, <1>5, <2>2, <3>2 DEF IInv, FlowInv
    <3>3. CASE caller = "write_file" /\ ret.op = "Writer" /\ result # "OK"
      BY <1>1, <2>2, <3>3 DEF IInv, FlowInv
    <3>4. QED
      BY <1>2, <3>1, <3>2, <3>3
  <2>6. QED
    BY <1>3, <2>3, <2>4, <2>5 DEF IInv
<1>6. QED
  BY <1>1, <1>4, <1>5 DEF TypeOK

\* After any calls the pointer and status_ fit the C writer, accepted chunks fit their schema,
\* and write_file is where its last call left it (soa.hpp, Writer and write_file).
THEOREM InvariantHolds == Spec => [](TypeOK /\ IInv)
<1>1. TypeOK /\ IInv /\ [Next]_vars => TypeOK' /\ IInv'
  <2> SUFFICES ASSUME TypeOK, IInv, [Next]_vars PROVE TypeOK' /\ IInv'
    OBVIOUS
  <2>1. CASE UNCHANGED vars
    BY <2>1 DEF vars, callerVars, objectVars, fileVars, TypeOK, File!TypeOK,
       IInv, ProgramInv, FreshInv, PointerInv, ToldInv, FlowInv
  <2>2. CASE Construct
    BY <2>2, ConstructKeeps
  <2>3. CASE SetOption
    BY <2>3, SetOptionKeeps
  <2>4. ASSUME NEW chunk \in program, WriteChunk(chunk) PROVE TypeOK' /\ IInv'
    BY <2>4, ChunkRefusedKeeps, ChunkAcceptedKeeps DEF WriteChunk
  <2>5. CASE Close
    BY <2>5, CloseKeeps
  <2>6. CASE Destroy
    BY <2>6, DestroyKeeps
  <2>7. QED
    BY <2>1, <2>2, <2>3, <2>4, <2>5, <2>6 DEF Next
<1>2. QED
  BY <1>1, InitHolds, PTL DEF Spec

------------------------------------------------------------------------------
(* What the callers rely on. *)

\* The pointer never outlives the C writer, the C writer never outlives the Writer, and
\* every field keeps its type, in any order of construction, calls, close and destruction.
THEOREM HandleKeepsStep == Spec => []HandleOK
<1>1. TypeOK /\ IInv => HandleOK
  BY DEF HandleOK, FreedOnce, IInv, PointerInv, TypeOK
<1>2. QED
  BY <1>1, InvariantHolds, PTL

\* close on a Writer that stays ok() has sealed the file, and write_file returns OK only
\* for a sealed file with its one row group.
THEOREM StatusIsTrue == Spec => []StatusIsTold
<1>1. TypeOK /\ IInv => StatusIsTold
  <2> SUFFICES ASSUME TypeOK, IInv PROVE StatusIsTold
    OBVIOUS
  <2>1. StatusOkIsSealed
    BY DEF StatusOkIsSealed, IInv, PointerInv
  <2>2. WriteFileOkIsSealed
    BY DEF WriteFileOkIsSealed, IInv, FlowInv
  <2>3. QED
    BY <2>1, <2>2 DEF StatusIsTold
<1>2. QED
  BY <1>1, InvariantHolds, PTL

\* A chunk write_chunk returns OK for has as many rows in every column, and in the mask
\* of every group, as in its first column.
THEOREM AcceptedIsRectangularAlways == Spec => []AcceptedIsRectangular
<1>1. TypeOK /\ IInv => AcceptedIsRectangular
  <2> SUFFICES ASSUME TypeOK, IInv, NEW r \in DOMAIN told
               PROVE  \E n \in {told[r][k].size : k \in Leaves(told[r])} :
                        \A k \in DOMAIN told[r] :
                          IF k \in Leaves(told[r]) THEN told[r][k].size = n
                          ELSE told[r][k].supply = "mask" => Len(told[r][k].mask) = n
    BY DEF AcceptedIsRectangular
  <2>1. r \in 1 .. Len(told) /\ program \in Programs
    BY DEF TypeOK, IInv, ProgramInv
  <2>2. told[r] \in program /\ Fits(told[r])
    BY <2>1 DEF IInv, ToldInv
  <2>3. WellTyped(told[r])
    BY <2>1, <2>2, ProgramsAssumption
  <2> DEFINE chunk == told[r]
  <2> HIDE DEF chunk
  <2>4. chunk \in Seq(Column) /\ chunk # <<>> /\ DOMAIN chunk = 1 .. Len(chunk) /\ Len(chunk) \in Nat
    BY <2>3 DEF WellTyped, chunk
  <2>5. Len(chunk) \in DOMAIN chunk
    BY <2>4, EmptySeq
  \* The last node of a schema is a leaf: a group is followed by its first member.
  <2>6. Len(chunk) \in Leaves(chunk)
    BY <2>3, <2>4, <2>5 DEF WellTyped, Leaves, chunk
  <2>7. /\ \A k \in Leaves(chunk) : chunk[k].size = RowsOf(chunk)
        /\ \A k \in Groups(chunk) : chunk[k].supply = "mask" => Len(chunk[k].mask) = RowsOf(chunk)
    BY <2>2 DEF Fits, chunk
  <2>8. RowsOf(chunk) \in {chunk[k].size : k \in Leaves(chunk)}
    BY <2>6, <2>7
  <2>9. ASSUME NEW k \in DOMAIN chunk
        PROVE  IF k \in Leaves(chunk) THEN chunk[k].size = RowsOf(chunk)
               ELSE chunk[k].supply = "mask" => Len(chunk[k].mask) = RowsOf(chunk)
    BY <2>7 DEF Groups
  <2>10. QED
    BY <2>8, <2>9 DEF chunk
<1>2. QED
  BY <1>1, InvariantHolds, PTL

------------------------------------------------------------------------------
(* What is in the file. *)

\* The offsets of the columns a caller may write have room for their bytes.
OffsetsFit ==
    \A chunk \in UNION Programs : Fits(chunk) =>
      \A k \in Strings(chunk) : chunk[k].kind = "string" =>
        Sums(Lengths(chunk, k))[RowsOf(chunk)] <= MaxInt32

\* An offset that fits is written as it is.
LEMMA NotWrapped ==
    ASSUME NEW column, NEW n \in Nat, column.kind # "large" => n <= MaxInt32
    PROVE  Wrapped(column, n) = n
<1>1. CASE column.kind = "large"
  BY <1>1 DEF Wrapped
<1>2. CASE column.kind # "large"
  <2>1. n + MaxInt32 + 1 \in 0 .. 2 * (MaxInt32 + 1) - 1
    BY <1>2, MaxInt32Assumption
  <2>2. (n + MaxInt32 + 1) % (2 * (MaxInt32 + 1)) = n + MaxInt32 + 1
    BY <2>1, MaxInt32Assumption
  <2>3. QED
    BY <1>2, <2>2, MaxInt32Assumption DEF Wrapped
<1>3. QED
  BY <1>1, <1>2

\* The last node of a schema is a leaf, so there is a first one, whose rows count.
LEMMA RowsAreCounted ==
    ASSUME NEW chunk, WellTyped(chunk), Fits(chunk)
    PROVE  /\ RowsOf(chunk) \in Nat
           /\ \A k \in Leaves(chunk) : chunk[k].size = RowsOf(chunk) /\ k \in 1 .. Len(chunk)
<1>1. /\ chunk \in Seq(Column) /\ chunk # <<>>
      /\ DOMAIN chunk = 1 .. Len(chunk) /\ Len(chunk) \in Nat
  BY DEF WellTyped
<1>2. Len(chunk) \in DOMAIN chunk
  BY <1>1, EmptySeq
<1>3. Len(chunk) \in Leaves(chunk) /\ Leaves(chunk) \subseteq 1 .. Len(chunk)
  BY <1>1, <1>2 DEF WellTyped, Leaves
<1>4. Min(Leaves(chunk)) \in Leaves(chunk)
  BY <1>1, <1>3, MinOf
<1>5. chunk[Min(Leaves(chunk))] \in Column
  BY <1>1, <1>3, <1>4
<1>6. QED
  BY <1>3, <1>5 DEF RowsOf, Fits, Column

\* A leaf is on its own path.
LEMMA PathHasItsLeaf ==
    ASSUME NEW chunk, WellTyped(chunk), NEW k \in 1 .. Len(chunk)
    PROVE  k \in Path(chunk, k)
<1> DEFINE V == SUBSET Nat
           up == [j \in 1 .. k |-> chunk[j].up]
           F == [j \in 1 .. k |-> [v \in V |-> {j} \cup v]]
           Defines(f) == f = [j \in 0 .. k |-> IF j = 0 THEN {} ELSE {j} \cup f[chunk[j].up]]
<1>1. k \in Nat /\ up \in Upward(k) /\ \A j \in 1 .. k : up[j] = chunk[j].up /\ up[j] \in 0 .. k
  <2>1. chunk \in Seq(Column) /\ DOMAIN chunk = 1 .. Len(chunk)
    BY DEF WellTyped
  <2>2. ASSUME NEW j \in 1 .. k PROVE chunk[j].up \in Nat /\ chunk[j].up < j
    <3>1. j \in DOMAIN chunk /\ chunk[j] \in Column
      BY <2>1
    <3>2. QED
      BY <3>1 DEF WellTyped, Column
  <2>3. QED
    BY <2>2 DEF Upward
<1>2. F \in Steps(k, V) /\ {} \in V
  BY DEF Steps
<1>3. PICK f : Climbs(f, k, V, {}, up, F)
  <2> HIDE DEF V, up, F
  <2>1. QED
    BY <1>1, <1>2, TreeRecursion
<1>4. f \in [0 .. k -> V] /\ f[0] = {} /\ \A j \in 1 .. k : f[j] = F[j][f[up[j]]]
  <2> HIDE DEF V, up, F
  <2>1. QED
    BY <1>3 DEF Climbs
<1>5. Defines(f)
  <2>1. ASSUME NEW j \in 0 .. k
        PROVE  f[j] = IF j = 0 THEN {} ELSE {j} \cup f[chunk[j].up]
    <3>1. CASE j = 0
      BY <1>4, <3>1
    <3>2. CASE j # 0
      <4>1. j \in 1 .. k /\ up[j] \in 0 .. k /\ up[j] = chunk[j].up
        BY <1>1, <3>2
      <4>2. f[up[j]] \in V
        BY <1>4, <4>1
      <4>3. f[j] = F[j][f[up[j]]]
        <5> HIDE DEF F, up, V
        <5>1. QED
          BY <1>4, <4>1
      <4>4. QED
        BY <3>2, <4>1, <4>2, <4>3
    <3>3. QED
      BY <3>1, <3>2
  <2>2. f = [j \in 0 .. k |-> f[j]]
    <3> HIDE DEF V, up, F
    <3>1. QED
      BY <1>4
  <2>3. QED
    BY <2>1, <2>2
<1> DEFINE g == CHOOSE h : Defines(h)
<1>6. Defines(g)
  <2> HIDE DEF Defines
  <2>1. QED
    BY <1>5
<1>7. Path(chunk, k) = g[k]
  BY DEF Path
<1>8. g[k] = {k} \cup g[chunk[k].up]
  <2>1. k \in 0 .. k /\ k # 0
    BY <1>1
  <2> HIDE DEF g
  <2>2. QED
    BY <1>6, <2>1
<1>9. QED
  BY <1>7, <1>8

\* The bitmap says of an element what the caller marked.
LEMMA ValidIsMarked ==
    ASSUME NEW chunk, NEW a, NEW i \in Elements(chunk)
    PROVE  i \in Validity(chunk, a) <=> Marked(chunk[a], i)
<1>1. CASE chunk[a].supply = "plain"
  BY <1>1 DEF Validity, Marked
<1>2. CASE chunk[a].supply = "bits" /\ chunk[a].mask = <<>>
  BY <1>2 DEF Validity, Marked
<1>3. CASE chunk[a].supply # "plain" /\ ~(chunk[a].supply = "bits" /\ chunk[a].mask = <<>>)
  BY <1>3 DEF Validity, Marked
<1>4. QED
  BY <1>1, <1>2, <1>3

\* Between its two offsets a string that is present finds its own bytes.
LEMMA StringReadsBack ==
    ASSUME OffsetsFit, NEW chunk \in UNION Programs, WellTyped(chunk), Fits(chunk),
           NEW k \in Strings(chunk), NEW i \in Elements(chunk), i \in Validity(chunk, k)
    PROVE  ValueAt(chunk, k, i) = [b \in 1 .. chunk[k].lens[i + 1] |-> i]
<1> DEFINE n == RowsOf(chunk)
           L == Lengths(chunk, k)
           ss == [j \in 1 .. n |-> [b \in 1 .. L[j] |-> j - 1]]
           P == Sums(L)
           l == chunk[k].lens
<1>1. n \in Nat /\ k \in Leaves(chunk) /\ chunk[k].size = n /\ k \in 1 .. Len(chunk)
  <2>1. k \in Leaves(chunk)
    BY DEF Strings, Leaves
  <2>2. QED
    BY <2>1, RowsAreCounted
<1>2. l \in Seq(Nat) /\ Len(l) = n
  <2>1. chunk[k] \in Column
    BY <1>1 DEF WellTyped
  <2>2. Len(l) = chunk[k].size
    BY <1>1 DEF WellTyped, Strings
  <2>3. QED
    BY <1>1, <2>1, <2>2 DEF Column
<1>3. i + 1 \in 1 .. n /\ i \in 0 .. n /\ (i + 1) - 1 = i /\ i \in Nat
  BY <1>1 DEF Elements
<1>4. L \in Seq(Nat) /\ Len(L) = n /\ L[i + 1] = l[i + 1] /\ l[i + 1] \in Nat
  <2>1. \A j \in 1 .. n : l[j] \in Nat
    BY <1>2
  <2>2. L \in [1 .. n -> Nat]
    BY <2>1 DEF Lengths
  <2>3. L[i + 1] = l[i + 1]
    BY <1>3 DEF Lengths
  <2>4. L \in Seq(Nat) /\ Len(L) = n
    <3> HIDE DEF L, n
    <3>1. QED
      BY <1>1, <2>2
  <2>5. QED
    BY <1>3, <2>1, <2>3, <2>4
<1>5. P[i + 1] = P[i] + L[i + 1] /\ P[i] \in Nat /\ P[i + 1] \in Nat /\ P[i + 1] <= P[n] /\ P[i] <= P[n]
  <2>1. L \in Seq(Int)
    BY <1>4
  <2>2. P[i + 1] = P[i] + L[i + 1]
    <3> HIDE DEF L, n
    <3>1. QED
      BY <1>3, <1>4, <2>1, SumsDef
  <2>3. P[i] \in Nat /\ P[i] <= P[n]
    <3> HIDE DEF L, n
    <3>1. i \in 0 .. Len(L) /\ n \in i .. Len(L)
      BY <1>1, <1>3, <1>4
    <3>2. QED
      BY <1>4, <3>1, SumsGrow
  <2>4. P[i + 1] \in Nat /\ P[i + 1] <= P[n]
    <3> HIDE DEF L, n
    <3>1. i + 1 \in 0 .. Len(L) /\ n \in i + 1 .. Len(L)
      BY <1>1, <1>3, <1>4
    <3>2. QED
      BY <1>4, <3>1, SumsGrow
  <2>5. QED
    BY <2>2, <2>3, <2>4
<1>6. Offset(chunk, k, i) = P[i] /\ Offset(chunk, k, i + 1) = P[i + 1]
  <2>1. chunk[k].kind \in {"string", "large"}
    BY DEF Strings
  <2>2. chunk[k].kind # "large" => P[n] <= MaxInt32
    BY <2>1 DEF OffsetsFit
  <2>3. chunk[k].kind # "large" => P[i] <= MaxInt32 /\ P[i + 1] <= MaxInt32
    <3> HIDE DEF P, n
    <3>1. P[n] \in Int
      <4>1. n \in 0 .. Len(L) /\ L \in Seq(Int)
        BY <1>1, <1>4
      <4>2. QED
        BY <4>1, SumsDef DEF P
    <3>2. QED
      BY <1>5, <2>2, <3>1, MaxInt32Assumption
  <2>4. Wrapped(chunk[k], P[i]) = P[i] /\ Wrapped(chunk[k], P[i + 1]) = P[i + 1]
    <3> HIDE DEF P
    <3>1. QED
      BY <1>5, <2>3, NotWrapped
  <2>5. QED
    BY <2>4 DEF Offset
<1>7. ss \in Seq(Seq(Nat)) /\ Len(ss) = n /\ \A j \in 1 .. n : Len(ss[j]) = L[j]
  <2> HIDE DEF n, L
  <2>1. \A j \in 1 .. n : L[j] \in Nat
    BY <1>4
  <2>2. ASSUME NEW j \in 1 .. n PROVE ss[j] \in Seq(Nat) /\ Len(ss[j]) = L[j]
    BY <1>1, <2>1
  <2>3. ss \in [1 .. n -> Seq(Nat)]
    BY <2>2
  <2> HIDE DEF ss
  <2>4. QED
    BY <1>1, <2>2, <2>3
<1>8. /\ Data(chunk, k) = FlattenSeq(ss)
      /\ \A j \in 1 .. n : \A b \in 1 .. L[j] : FlattenSeq(ss)[P[j - 1] + b] = ss[j][b]
      /\ Len(FlattenSeq(ss)) = P[n] /\ FlattenSeq(ss) \in Seq(Nat)
  <2>1. Data(chunk, k) = FlattenSeq(ss)
    BY DEF Data
  <2> DEFINE T == Nat
  <2>2. ss \in Seq(Seq(T)) /\ L \in Seq(Nat) /\ Len(L) = Len(ss) /\ Len(ss) = n
          /\ \A j \in 1 .. Len(ss) : Len(ss[j]) = L[j]
    BY <1>4, <1>7
  <2> HIDE DEF ss, L, n, T
  <2>3. FlattenSeq(ss) \in Seq(T)
    BY <2>2, FlattenTyped
  <2>4. /\ Len(FlattenSeq(ss)) = Sums(L)[Len(ss)]
        /\ \A j \in 1 .. Len(ss) : \A b \in 1 .. L[j] :
             FlattenSeq(ss)[Sums(L)[j - 1] + b] = ss[j][b]
    BY <2>2, FlattenAt
  <2>5. QED
    BY <2>1, <2>2, <2>3, <2>4 DEF T
<1>9. \A b \in 1 .. l[i + 1] : Data(chunk, k)[P[i] + b] = i
  <2>1. ASSUME NEW b \in 1 .. l[i + 1] PROVE Data(chunk, k)[P[i] + b] = i
    <3>1. i + 1 \in 1 .. n /\ b \in 1 .. L[i + 1]
      BY <1>3, <1>4
    <3>2. FlattenSeq(ss)[P[i] + b] = ss[i + 1][b]
      <4> HIDE DEF ss, L, P, n
      <4>1. QED
        BY <1>3, <1>8, <3>1
    <3>3. ss[i + 1][b] = i
      <4> HIDE DEF L, n
      <4>1. QED
        BY <1>3, <3>1
    <3>4. QED
      BY <1>8, <3>2, <3>3
  <2>2. QED
    BY <2>1
<1>10. SubSeq(Data(chunk, k), P[i] + 1, P[i + 1]) = [b \in 1 .. l[i + 1] |-> i]
  <2> DEFINE d == Data(chunk, k)
             from == P[i]
             m == l[i + 1]
  <2>1. from \in Nat /\ m \in Nat /\ P[i + 1] = from + m
    BY <1>4, <1>5
  <2>2. \A b \in 1 .. m : d[from + b] = i
    BY <1>9
  <2> HIDE DEF d, from, m
  <2>3. SubSeq(d, from + 1, from + m) = [b \in 1 .. m |-> d[from + b]]
    BY <2>1
  <2>4. QED
    BY <2>1, <2>2, <2>3 DEF d, from, m
<1>11. QED
  <2> DEFINE from == P[i]
             to == P[i + 1]
  <2>1. 0 <= from /\ from <= to
    BY <1>4, <1>5
  <2>2. SubSeq(Data(chunk, k), from + 1, to) = [b \in 1 .. chunk[k].lens[i + 1] |-> i]
    BY <1>10
  <2>3. Offset(chunk, k, i) = from /\ Offset(chunk, k, i + 1) = to
    BY <1>6
  <2> HIDE DEF from, to
  <2>4. QED
    BY <2>1, <2>2, <2>3 DEF ValueAt

\* The row group the C ABI makes of a chunk is what the caller meant.
LEMMA WrittenIsMeant ==
    ASSUME OffsetsFit, NEW chunk \in UNION Programs, WellTyped(chunk), Fits(chunk)
    PROVE  Written(chunk) = Meant(chunk)
<1>1. ASSUME NEW k \in Leaves(chunk), NEW i \in Elements(chunk)
      PROVE  (IF \A a \in Path(chunk, k) : i \in Validity(chunk, a)
              THEN Value(ValueAt(chunk, k, i)) ELSE Null)
             = (IF ~\A a \in Path(chunk, k) : Marked(chunk[a], i) THEN Null
                ELSE Value(IF k \in Strings(chunk) THEN [b \in 1 .. chunk[k].lens[i + 1] |-> i]
                           ELSE <<i>>))
  <2>1. (\A a \in Path(chunk, k) : i \in Validity(chunk, a))
          <=> (\A a \in Path(chunk, k) : Marked(chunk[a], i))
    BY ValidIsMarked
  <2>2. CASE ~\A a \in Path(chunk, k) : i \in Validity(chunk, a)
    BY <2>1, <2>2
  <2>3. CASE \A a \in Path(chunk, k) : i \in Validity(chunk, a)
    <3>1. k \in 1 .. Len(chunk)
      BY RowsAreCounted
    <3>2. i \in Validity(chunk, k)
      BY <2>3, <3>1, PathHasItsLeaf
    <3>3. CASE k \in Strings(chunk)
      <4>1. ValueAt(chunk, k, i) = [b \in 1 .. chunk[k].lens[i + 1] |-> i]
        BY <3>2, <3>3, StringReadsBack
      <4>2. QED
        BY <2>1, <2>3, <3>3, <4>1
    <3>4. CASE k \notin Strings(chunk)
      BY <2>1, <2>3, <3>4 DEF ValueAt
    <3>5. QED
      BY <3>3, <3>4
  <2>4. QED
    BY <2>2, <2>3
<1>2. \A k \in Leaves(chunk) : Elements(chunk) = 0 .. chunk[k].size - 1
  BY RowsAreCounted DEF Elements
<1>3. QED
  BY <1>1, <1>2, Zenon DEF Written, Meant

ContentInv == groups = [r \in DOMAIN told |-> Written(told[r])]

\* Only a chunk that is accepted touches the row groups, or what the caller was told.
LEMMA ContentSteps ==
    ASSUME [Next]_vars
    PROVE  \/ UNCHANGED <<groups, told>>
           \/ \E chunk \in program : ChunkAccepted(chunk)
BY DEF Next, vars, callerVars, objectVars, fileVars, Construct, SetOption, WriteChunk, ChunkUnopened,
   ChunkOverruns, ChunkDoesNotFit, ChunkFails, File!Lose, Close, Destroy, CClose, File!Seal

LEMMA ContentKept ==
    ASSUME TypeOK, ContentInv, [Next]_vars
    PROVE  ContentInv'
<1>1. CASE UNCHANGED <<groups, told>>
  BY <1>1 DEF ContentInv
<1>2. ASSUME NEW chunk \in program, ChunkAccepted(chunk) PROVE ContentInv'
  <2>1. groups' = Append(groups, Written(chunk)) /\ told' = Append(told, chunk)
    BY <1>2 DEF ChunkAccepted, File!Add
  <2>2. told \in Seq(program)
    BY DEF TypeOK
  <2>3. groups = [r \in 1 .. Len(told) |-> Written(told[r])] /\ Len(told) \in Nat
    BY <2>2 DEF ContentInv
  <2>4. /\ DOMAIN told' = 1 .. Len(told) + 1 /\ told'[Len(told) + 1] = chunk
        /\ \A r \in 1 .. Len(told) : told'[r] = told[r]
    BY <2>1, <2>2
  <2>5. groups' = [r \in 1 .. Len(told) + 1 |-> IF r = Len(told) + 1 THEN Written(chunk)
                                                 ELSE Written(told[r])]
    BY <2>1, <2>3
  <2>6. \A r \in 1 .. Len(told) + 1 : Written(told'[r]) = IF r = Len(told) + 1 THEN Written(chunk)
                                                          ELSE Written(told[r])
    BY <2>3, <2>4
  <2>7. QED
    BY <2>4, <2>5, <2>6, Zenon DEF ContentInv
<1>3. QED
  BY <1>1, <1>2, ContentSteps

\* A file that opens holds the chunks write_chunk returned OK for, every string and every
\* null where the caller put it, as long as the bytes of a string column with 32-bit
\* offsets can be counted in 32 bits.
THEOREM FileHoldsTheChunks == OffsetsFit => (Spec => []SealedHoldsTheChunks)
<1> SUFFICES ASSUME OffsetsFit PROVE Spec => []SealedHoldsTheChunks
  OBVIOUS
<1>1. Init => ContentInv
  BY DEF Init, ContentInv, File!Init
<1>2. TypeOK /\ ContentInv /\ [Next]_vars => ContentInv'
  BY ContentKept
<1>3. TypeOK /\ IInv /\ ContentInv => SealedHoldsTheChunks
  <2> SUFFICES ASSUME TypeOK, IInv, ContentInv
               PROVE  groups = [r \in DOMAIN told |-> Meant(told[r])]
    BY DEF SealedHoldsTheChunks
  <2>1. ASSUME NEW r \in DOMAIN told PROVE Written(told[r]) = Meant(told[r])
    <3>1. r \in 1 .. Len(told) /\ program \in Programs
      BY DEF TypeOK, IInv, ProgramInv
    <3>2. told[r] \in program /\ Fits(told[r]) /\ told[r] \in UNION Programs
      BY <3>1 DEF IInv, ToldInv
    <3>3. WellTyped(told[r])
      BY <3>1, <3>2, ProgramsAssumption
    <3>4. QED
      BY <3>2, <3>3, WrittenIsMeant
  <2>2. QED
    BY <2>1, Zenon DEF ContentInv
<1>4. QED
  BY <1>1, <1>2, <1>3, InvariantHolds, PTL DEF Spec
==============================================================================
