-------------------------- MODULE N2PWriter_proofs --------------------------
(***************************************************************************)
(* What N2PWriter guarantees for every set of batches, every number of      *)
(* calls and both codec disciplines; and, at the end, that it implements    *)
(* ParquetFile: a file is added to, then sealed once or lost, and neither   *)
(* end is ever left.                                                        *)
(***************************************************************************)
EXTENDS N2PWriter, SequenceTheorems, TLAPS

------------------------------------------------------------------------------
(* The inductive invariant behind the theorems below: as long                *)
(* as the stream is good, the offsets the writer counts are positions of the *)
(* stream, so the metadata it collects describes what the stream holds; and  *)
(* a footer enters the stream only then.                                     *)

\* Row group g is batch a: a chunk per leaf, all of its pages among the first
\* n units of the file.
GroupMatchesPages(file, n, g, a, width) ==
    /\ g.rows = a.rows
    /\ Len(g.columns) = width
    /\ \A i \in 1 .. Len(g.columns) : ChunkMatchesPages(file, n, g.columns[i], i, a.batch)

OffsetInv ==
    /\ handle \in {"none", "unopened"} => pc = "idle" /\ offset = 0 /\ stream = <<>>
    /\ ~bad => offset = Len(stream)
    /\ handle = "open" => offset > 0
    /\ stream # <<>> => stream[1].kind = "magic"

SchemaInv ==
    /\ schemaLocked => leaves # <<>>
    /\ ~schemaLocked => pc # "leaf" /\ rowGroups = <<>> /\ accepted = <<>>

CurrentInv ==
    pc = "leaf" =>
      /\ Len(current.columns) <= Len(leaves)
      /\ ~bad => \A i \in 1 .. Len(current.columns) :
                   ChunkMatchesPages(stream, Len(stream), current.columns[i], i, current.batch)

GroupsInv ==
    ~bad => /\ Len(rowGroups) = Len(accepted)
            /\ \A r \in 1 .. Len(rowGroups) :
                 GroupMatchesPages(stream, Len(stream), rowGroups[r], accepted[r], Len(leaves))

FooterInv ==
    \A k \in 1 .. Len(stream) : stream[k].kind = "footer" =>
      /\ handle = "open" => pc = "flush"
      /\ stream[k].leaves = leaves
      /\ Len(stream[k].groups) = Len(accepted)
      /\ \A r \in 1 .. Len(accepted) :
           GroupMatchesPages(stream, k - 1, stream[k].groups[r], accepted[r], Len(leaves))

CloseInv ==
    /\ handle = "open" /\ pc = "flush" /\ closing = "OK" /\ ~bad => Complete(stream)
    /\ handle = "freed" /\ ret.status = "OK" /\ offset > 0 =>
         ~bad /\ synced = Len(stream) /\ Complete(stream)

IInv == OffsetInv /\ SchemaInv /\ CurrentInv /\ GroupsInv /\ FooterInv /\ CloseInv

------------------------------------------------------------------------------
(* The operators the writer is built from. *)

\* Every layout build_byte_array_pages and encode_fixed_values choose is an
\* encoding, and a leaf always has one.
LEMMA LayoutsAreEncodings ==
    ASSUME NEW kind, NEW mode \in Modes
    PROVE  Layouts(kind, mode) \subseteq Encodings
BY DEF Layouts, Encodings, Modes

\* A leaf writes one page or two, and they are units of the file.
LEMMA PagesAreUnits ==
    ASSUME TypeOK, NEW enc \in Encodings
    PROVE  /\ Pages(enc) \in Seq(Unit)
           /\ Len(Pages(enc)) = IF enc = "RLE_DICTIONARY" THEN 2 ELSE 1
<1>1. Page("dict", "PLAIN") \in Unit /\ Page("data", enc) \in Unit
  <2>1. Len(current.columns) + 1 \in Nat /\ current.batch \in Nat
    BY DEF TypeOK
  <2>2. QED
    BY <2>1 DEF TypeOK, Page, Unit, Encodings
<1>2. QED
  BY <1>1 DEF Pages

\* The metadata of a chunk is well formed whatever layout its pages have.
LEMMA ChunkForTyped ==
    ASSUME TypeOK, NEW enc \in Encodings
    PROVE  ChunkFor(enc) \in Chunk
<1>1. Len(current.columns) + 1 \in Nat /\ offset \in Nat /\ offset + 1 \in Nat
  BY DEF TypeOK
<1>2. Len(Pages(enc)) \in Nat
  BY PagesAreUnits
<1>3. QED
  BY <1>1, <1>2 DEF ChunkFor, Chunk

\* The footer of a well-typed writer is a unit of the file.
LEMMA FooterIsUnit ==
    ASSUME TypeOK
    PROVE  /\ Footer \in Unit
           /\ Footer.kind = "footer"
           /\ DOMAIN Footer.groups = 1 .. Len(rowGroups)
           /\ Len(Footer.groups) = Len(rowGroups)
<1> DEFINE FG == [rows : Nat, columns : Seq(FooterChunk)]
<1>1. ASSUME NEW c \in Chunk PROVE FooterColumn(c) \in FooterChunk
  BY <1>1 DEF FooterColumn, Chunk, FooterChunk, TypeOK
<1>2. ASSUME NEW g \in [rows : Nat, columns : Seq(Chunk)] PROVE FooterGroup(g) \in FG
  <2>1. g.columns \in Seq(Chunk) /\ DOMAIN g.columns = 1 .. Len(g.columns)
    BY <1>2
  <2>2. \A i \in 1 .. Len(g.columns) : FooterColumn(g.columns[i]) \in FooterChunk
    BY <1>1, <2>1
  <2>3. [i \in 1 .. Len(g.columns) |-> FooterColumn(g.columns[i])] \in Seq(FooterChunk)
    BY <2>1, <2>2
  <2>4. QED
    BY <1>2, <2>1, <2>3 DEF FooterGroup
<1>3. rowGroups \in Seq([rows : Nat, columns : Seq(Chunk)]) /\ DOMAIN rowGroups = 1 .. Len(rowGroups)
  BY DEF TypeOK
<1>4. [r \in 1 .. Len(rowGroups) |-> FooterGroup(rowGroups[r])] \in Seq(FG)
  <2> HIDE DEF FG
  <2>1. ASSUME NEW r \in 1 .. Len(rowGroups) PROVE FooterGroup(rowGroups[r]) \in FG
    <3>1. rowGroups[r] \in [rows : Nat, columns : Seq(Chunk)]
      BY <1>3, ElementOfSeq
    <3>2. QED
      BY <1>2, <3>1
  <2>2. QED
    BY <1>3, <2>1
<1>5. leaves \in Seq(LeafKinds) /\ totalRows \in Nat
  BY DEF TypeOK
<1>6. QED
  BY <1>3, <1>4, <1>5 DEF Footer, Unit

\* What write_bytes leaves behind: the stream has grown by a prefix of the
\* units, by all of them unless it has failed; the offset has grown by all.
LEMMA WriteBytesExtends ==
    ASSUME TypeOK, NEW units \in Seq(Unit), WriteBytes(units)
    PROVE  /\ stream' \in Seq(Unit) /\ synced' \in 0 .. Len(stream')
           /\ bad' \in BOOLEAN /\ offset' \in Nat
           /\ synced <= synced'
           /\ offset' = offset + Len(units)
           /\ Len(stream) <= Len(stream') /\ Len(stream') <= Len(stream) + Len(units)
           /\ \A k \in 1 .. Len(stream) : stream'[k] = stream[k]
           /\ \A k \in Len(stream) + 1 .. Len(stream') : stream'[k] = units[k - Len(stream)]
           /\ ~bad' => ~bad /\ Len(stream') = Len(stream) + Len(units)
           /\ bad => stream' = stream /\ bad'
<1>1. Len(units) \in Nat /\ offset' = offset + Len(units) /\ offset' \in Nat
  BY DEF WriteBytes, TypeOK
<1>2. CASE bad /\ UNCHANGED streamVars
  <2>1. stream' = stream /\ synced' = synced /\ bad' = bad /\ bad
    BY <1>2 DEF streamVars
  <2>2. stream \in Seq(Unit) /\ Len(stream) \in Nat /\ synced \in 0 .. Len(stream) /\ bad \in BOOLEAN
    BY DEF TypeOK
  <2>3. Len(stream) + 1 .. Len(stream') = {}
    BY <2>1, <2>2
  <2>4. QED
    BY <1>1, <2>1, <2>2, <2>3
<1>3. CASE ~bad /\ \E j \in 0 .. Len(units) : /\ Took(SubSeq(units, 1, j))
                                              /\ bad' \in BOOLEAN
                                              /\ ~bad' => j = Len(units)
  <2>1. PICK j \in 0 .. Len(units) : /\ Took(SubSeq(units, 1, j))
                                     /\ bad' \in BOOLEAN
                                     /\ ~bad' => j = Len(units)
    BY <1>3
  <2> DEFINE taken == SubSeq(units, 1, j)
  <2>2. taken \in Seq(Unit) /\ Len(taken) = j /\ \A i \in 1 .. j : taken[i] = units[i]
    BY SubSeqProperties
  <2>3. stream \in Seq(Unit) /\ Len(stream) \in Nat /\ synced \in 0 .. Len(stream)
    BY DEF TypeOK
  <2>4. stream' = stream \o taken /\ synced' \in synced .. Len(stream')
    BY <2>1 DEF Took
  <2> HIDE DEF taken
  <2>5. /\ stream' \in Seq(Unit) /\ Len(stream') = Len(stream) + j
        /\ \A k \in 1 .. Len(stream) + j :
             stream'[k] = IF k <= Len(stream) THEN stream[k] ELSE taken[k - Len(stream)]
    <3>1. /\ stream \o taken \in Seq(Unit)
          /\ Len(stream \o taken) = Len(stream) + Len(taken)
          /\ \A k \in 1 .. Len(stream) + Len(taken) :
               (stream \o taken)[k] = IF k <= Len(stream) THEN stream[k] ELSE taken[k - Len(stream)]
      BY <2>2, <2>3, ConcatProperties
    <3>2. QED
      BY <2>2, <2>4, <3>1
  <2>6. ASSUME NEW k \in Len(stream) + 1 .. Len(stream')
        PROVE  stream'[k] = units[k - Len(stream)]
    <3>1. k \in 1 .. Len(stream) + j /\ ~(k <= Len(stream)) /\ k - Len(stream) \in 1 .. j
      BY <2>3, <2>5
    <3>2. stream'[k] = taken[k - Len(stream)]
      BY <2>5, <3>1
    <3>3. taken[k - Len(stream)] = units[k - Len(stream)]
      BY <2>2, <3>1
    <3>4. QED
      BY <3>2, <3>3
  <2>7. /\ Len(stream') = Len(stream) + j /\ j \in Nat /\ j <= Len(units)
        /\ synced' \in 0 .. Len(stream') /\ synced <= synced'
    BY <1>1, <2>1, <2>3, <2>4, <2>5
  <2>8. \A k \in 1 .. Len(stream) : stream'[k] = stream[k]
    BY <2>3, <2>5, <2>7
  <2>9. Len(stream) <= Len(stream') /\ Len(stream') <= Len(stream) + Len(units)
    BY <1>1, <2>3, <2>7
  <2>10. ~bad' => Len(stream') = Len(stream) + Len(units)
    BY <2>1, <2>7
  <2>11. QED
    BY <1>1, <1>3, <2>1, <2>5, <2>6, <2>7, <2>8, <2>9, <2>10
<1>4. ASSUME ~bad, Took(units), UNCHANGED bad
      PROVE  \E j \in 0 .. Len(units) : /\ Took(SubSeq(units, 1, j))
                                        /\ bad' \in BOOLEAN
                                        /\ ~bad' => j = Len(units)
  <2>1. SubSeq(units, 1, Len(units)) = units
    BY SubSeqFull
  <2>2. Took(SubSeq(units, 1, Len(units))) /\ bad' \in BOOLEAN
    BY <1>4, <2>1 DEF TypeOK
  <2>3. Len(units) \in 0 .. Len(units)
    BY <1>1
  <2>4. QED
    BY <2>2, <2>3
<1>5. QED
  BY <1>2, <1>3, <1>4 DEF WriteBytes, Put

------------------------------------------------------------------------------
(* Type correctness. *)

LEMMA InitTyped == Init => TypeOK
<1> SUFFICES ASSUME Init PROVE TypeOK
  OBVIOUS
<1>1. current \in [batch : Nat, rows : Nat, columns : Seq(Chunk)]
  BY DEF Init, NoBatch
<1>2. /\ accepted \in Seq([batch : Nat, rows : Nat])
      /\ leaves \in Seq(LeafKinds)
      /\ rowGroups \in Seq([rows : Nat, columns : Seq(Chunk)])
      /\ stream \in Seq(Unit) /\ Len(stream) = 0
  BY DEF Init
<1>3. /\ handle \in {"none", "open", "unopened", "freed", "dead"}
      /\ pc \in {"idle", "leaf", "flush"}
      /\ closing \in Statuses /\ ret.status \in Statuses
      /\ codec \in Codecs /\ encoding \in Modes
  BY DEF Init, Statuses, Codecs, Modes
<1>4. schemaLocked \in BOOLEAN /\ lastError \in BOOLEAN /\ bad \in BOOLEAN
  BY DEF Init
<1>5. calls \in Nat /\ offset \in Nat /\ topChildren \in Nat /\ totalRows \in Nat
  BY DEF Init
<1>6. synced \in 0 .. Len(stream)
  BY <1>2 DEF Init
<1>7. QED
  BY <1>1, <1>2, <1>3, <1>4, <1>5, <1>6 DEF TypeOK

\* Every step of the writer keeps its fields, the stream and the caller's view
\* of them well typed.
LEMMA StepTyped == TypeOK /\ [Next]_vars => TypeOK'
<1> SUFFICES ASSUME TypeOK, [Next]_vars PROVE TypeOK'
  OBVIOUS
<1> USE DEF callVars, schemaVars, groupVars, Return
<1>1. ASSUME UNCHANGED vars PROVE TypeOK'
  BY <1>1 DEF TypeOK, vars, streamVars
<1>2. ASSUME OpenNullPath \/ OpenFails PROVE TypeOK'
  <2>1. CASE OpenNullPath
    BY <2>1 DEF TypeOK, OpenNullPath, streamVars, Statuses
  <2>2. CASE OpenFails
    BY <2>2 DEF TypeOK, OpenFails, streamVars, Statuses
  <2>3. QED
    BY <1>2, <2>1, <2>2
<1>3. ASSUME Open PROVE TypeOK'
  <2>1. <<Magic>> \in Seq(Unit)
    BY DEF Magic, Unit
  <2>2. WriteBytes(<<Magic>>)
    BY <1>3 DEF Open
  <2> HIDE DEF Return
  <2>3. stream' \in Seq(Unit) /\ synced' \in 0 .. Len(stream') /\ bad' \in BOOLEAN /\ offset' \in Nat
    BY <2>1, <2>2, WriteBytesExtends
  <2>4. QED
    BY <1>3, <2>3 DEF TypeOK, Open, Return, Statuses
<1>4. ASSUME NEW c \in Codecs, SetCodec(c) PROVE TypeOK'
  BY <1>4 DEF TypeOK, SetCodec, streamVars, Statuses
<1>5. ASSUME NEW m \in Modes, SetEncoding(m) PROVE TypeOK'
  BY <1>5 DEF TypeOK, SetEncoding, streamVars, Statuses
<1>6. ASSUME SetUnknown PROVE TypeOK'
  BY <1>6 DEF TypeOK, SetUnknown, streamVars, Statuses
<1>7. ASSUME NEW status \in Statuses, Refuse(status) PROVE TypeOK'
  BY <1>7 DEF TypeOK, Refuse, BatchCall, streamVars
<1>8. ASSUME NEW b \in Batches, StartBatch(b) PROVE TypeOK'
  <2>1. b \in BatchArgument
    BY BatchesAssumption
  <2>2. b.rows \in Nat /\ b.columns \in Nat /\ b.leaves \in Seq(LeafKinds)
    BY <2>1 DEF BatchArgument
  <2>3. calls' \in Nat
    BY <1>8 DEF StartBatch, BatchCall, TypeOK
  <2>4. current' \in [batch : Nat, rows : Nat, columns : Seq(Chunk)]
    BY <1>8, <2>2, <2>3 DEF StartBatch
  <2>5. schemaLocked' \in BOOLEAN /\ leaves' \in Seq(LeafKinds) /\ topChildren' \in Nat
    BY <1>8, <2>2 DEF StartBatch, LockSchema, TypeOK
  <2>6. QED
    BY <1>8, <2>3, <2>4, <2>5 DEF StartBatch, TypeOK, streamVars
<1>9. ASSUME WriteLeaf PROVE TypeOK'
  <2>1. PICK enc \in CurrentLayouts :
          WriteBytes(Pages(enc)) /\ current' = [current EXCEPT !.columns = Append(@, ChunkFor(enc))]
    BY <1>9 DEF WriteLeaf
  <2>2. enc \in Encodings
    BY <2>1, LayoutsAreEncodings DEF CurrentLayouts, TypeOK
  <2>3. stream' \in Seq(Unit) /\ synced' \in 0 .. Len(stream') /\ bad' \in BOOLEAN /\ offset' \in Nat
    BY <2>1, <2>2, PagesAreUnits, WriteBytesExtends
  <2>4. ChunkFor(enc) \in Chunk
    BY <2>2, ChunkForTyped
  <2>5. current' \in [batch : Nat, rows : Nat, columns : Seq(Chunk)]
    <3>1. current \in [batch : Nat, rows : Nat, columns : Seq(Chunk)]
      BY DEF TypeOK
    <3>2. Append(current.columns, ChunkFor(enc)) \in Seq(Chunk)
      BY <2>4, <3>1
    <3>3. QED
      BY <2>1, <3>1, <3>2
  <2>6. QED
    BY <1>9, <2>3, <2>5 DEF WriteLeaf, TypeOK
<1>10. ASSUME RefuseLeaf PROVE TypeOK'
  BY <1>10 DEF TypeOK, RefuseLeaf, AbandonBatch, NoBatch, streamVars, Statuses
<1>11. ASSUME LeafThrows PROVE TypeOK'
  <2>1. PICK enc \in CurrentLayouts : \E n \in 0 .. Len(Pages(enc)) - 1 :
          WriteBytes(SubSeq(Pages(enc), 1, n))
    BY <1>11 DEF LeafThrows
  <2>2. enc \in Encodings
    BY <2>1, LayoutsAreEncodings DEF CurrentLayouts, TypeOK
  <2>3. PICK n \in 0 .. Len(Pages(enc)) - 1 : WriteBytes(SubSeq(Pages(enc), 1, n))
    BY <2>1
  <2>4. SubSeq(Pages(enc), 1, n) \in Seq(Unit)
    BY <2>2, PagesAreUnits, SubSeqProperties
  <2>5. stream' \in Seq(Unit) /\ synced' \in 0 .. Len(stream') /\ bad' \in BOOLEAN /\ offset' \in Nat
    BY <2>3, <2>4, WriteBytesExtends
  <2>6. QED
    BY <1>11, <2>5 DEF LeafThrows, AbandonBatch, TypeOK, NoBatch, Statuses
<1>12. ASSUME FinishBatch PROVE TypeOK'
  <2>1. current.batch \in Nat /\ current.rows \in Nat /\ current.columns \in Seq(Chunk)
    BY DEF TypeOK
  <2>2. rowGroups' \in Seq([rows : Nat, columns : Seq(Chunk)])
    BY <1>12, <2>1 DEF FinishBatch, TypeOK
  <2>3. accepted' \in Seq([batch : Nat, rows : Nat])
    <3>1. [batch |-> current.batch, rows |-> current.rows] \in [batch : Nat, rows : Nat]
      BY <2>1
    <3>2. accepted \in Seq([batch : Nat, rows : Nat])
      BY DEF TypeOK
    <3>3. accepted' = accepted
          \/ accepted' = Append(accepted, [batch |-> current.batch, rows |-> current.rows])
      BY <1>12 DEF FinishBatch
    <3>4. Append(accepted, [batch |-> current.batch, rows |-> current.rows])
            \in Seq([batch : Nat, rows : Nat])
      BY <3>1, <3>2, AppendProperties
    <3>5. QED
      BY <3>2, <3>3, <3>4
  <2>4. totalRows' \in Nat
    BY <1>12, <2>1 DEF FinishBatch, TypeOK
  <2>5. current' \in [batch : Nat, rows : Nat, columns : Seq(Chunk)]
    BY <1>12 DEF FinishBatch, NoBatch
  <2>6. pc' = "idle" /\ ret'.status \in Statuses /\ lastError' \in BOOLEAN
    <3>1. \/ lastError' = TRUE /\ Return("write_batch", "IO_ERROR")
          \/ Return("write_batch", "OK") /\ lastError' = lastError
      BY <1>12 DEF FinishBatch
    <3>2. lastError \in BOOLEAN
      BY DEF TypeOK
    <3>3. lastError' = TRUE \/ lastError' = lastError
      BY <3>1
    <3>4. lastError' \in BOOLEAN
      BY <3>2, <3>3
    <3>5. pc' = "idle" /\ ret'.status \in Statuses
      BY <3>1 DEF Return, Statuses
    <3>6. QED
      BY <3>4, <3>5
  <2>7. UNCHANGED <<handle, closing, calls, offset, codec, encoding, schemaVars, streamVars>>
    BY <1>12 DEF FinishBatch
  <2>8. QED
    BY <2>2, <2>3, <2>4, <2>5, <2>6, <2>7 DEF TypeOK, streamVars
<1>13. ASSUME CloseUnopened PROVE TypeOK'
  BY <1>13 DEF TypeOK, CloseUnopened, streamVars, Statuses
<1>14. ASSUME CloseWritesFooter PROVE TypeOK'
  <2>1. <<Footer, FooterLength, Magic>> \in Seq(Unit)
    BY FooterIsUnit DEF FooterLength, Magic, Unit
  <2>2. WriteBytes(<<Footer, FooterLength, Magic>>)
    BY <1>14 DEF CloseWritesFooter
  <2>3. stream' \in Seq(Unit) /\ synced' \in 0 .. Len(stream') /\ bad' \in BOOLEAN /\ offset' \in Nat
    BY <2>1, <2>2, WriteBytesExtends
  <2>4. QED
    BY <1>14, <2>3 DEF TypeOK, CloseWritesFooter
<1>15. ASSUME CloseWithoutFooter PROVE TypeOK'
  BY <1>15 DEF TypeOK, CloseWithoutFooter, streamVars, Statuses
<1>16. ASSUME FlushAndFree PROVE TypeOK'
  <2>1. synced' \in 0 .. Len(stream') /\ bad' \in BOOLEAN
    <3>1. stream' = stream /\ Len(stream) \in Nat /\ synced \in 0 .. Len(stream) /\ bad \in BOOLEAN
      BY <1>16 DEF FlushAndFree, TypeOK
    <3>2. Flush
      BY <1>16 DEF FlushAndFree
    <3>3. bad' \in BOOLEAN
      BY <3>1, <3>2 DEF Flush
    <3>4. synced' = Len(stream) \/ synced' \in synced .. Len(stream)
      BY <3>2 DEF Flush
    <3>5. synced' \in 0 .. Len(stream)
      BY <3>1, <3>4
    <3>6. QED
      BY <3>1, <3>3, <3>5
  <2>2. ret'.status \in Statuses
    BY <1>16, <2>1 DEF FlushAndFree, TypeOK, Statuses
  <2>3. QED
    BY <1>16, <2>1, <2>2 DEF FlushAndFree, TypeOK
<1>17. ASSUME Crash PROVE TypeOK'
  BY <1>17 DEF TypeOK, Crash
<1>18. QED
  BY <1>1, <1>2, <1>3, <1>4, <1>5, <1>6, <1>7, <1>8, <1>9, <1>10, <1>11, <1>12, <1>13,
     <1>14, <1>15, <1>16, <1>17
     DEF Next, Batch, BatchStep, RefuseUnopened, RefuseArguments, RefuseSchema, RefuseShape,
         Statuses

\* The writer's state has its type in every state of every behaviour.
THEOREM TypeCorrect == Spec => []TypeOK
<1>1. QED
  BY InitTyped, StepTyped, PTL DEF Spec

------------------------------------------------------------------------------
(* What the metadata says stays true while the file grows. *)

\* A chunk whose pages are in a file is still described by its metadata in any
\* file that begins with the same units.
LEMMA ChunkKept ==
    ASSUME NEW f1, NEW f2, NEW n1 \in Nat, NEW n2 \in Nat, n1 <= n2,
           \A k \in 1 .. n1 : f2[k] = f1[k],
           NEW c, c.dataAt \in Nat, c.dictAt \in Nat, NEW i, NEW b,
           ChunkMatchesPages(f1, n1, c, i, b)
    PROVE  ChunkMatchesPages(f2, n2, c, i, b)
<1>1. c.dataAt + 1 \in 1 .. n1 /\ f2[c.dataAt + 1] = f1[c.dataAt + 1]
  BY DEF ChunkMatchesPages
<1>2. c.dictAt # 0 => c.dictAt + 1 \in 1 .. n1 /\ f2[c.dictAt + 1] = f1[c.dictAt + 1]
  BY DEF ChunkMatchesPages
<1>3. QED
  BY <1>1, <1>2 DEF ChunkMatchesPages

\* The same for a row group.
LEMMA GroupKept ==
    ASSUME NEW f1, NEW f2, NEW n1 \in Nat, NEW n2 \in Nat, n1 <= n2,
           \A k \in 1 .. n1 : f2[k] = f1[k],
           NEW g, g.columns \in Seq(Chunk), NEW a, NEW width,
           GroupMatchesPages(f1, n1, g, a, width)
    PROVE  GroupMatchesPages(f2, n2, g, a, width)
<1>1. ASSUME NEW i \in 1 .. Len(g.columns)
      PROVE  ChunkMatchesPages(f2, n2, g.columns[i], i, a.batch)
  <2>1. g.columns[i] \in Chunk
    BY ElementOfSeq
  <2>2. g.columns[i].dataAt \in Nat /\ g.columns[i].dictAt \in Nat
    BY <2>1 DEF Chunk
  <2>3. ChunkMatchesPages(f1, n1, g.columns[i], i, a.batch)
    BY DEF GroupMatchesPages
  <2> DEFINE c == g.columns[i]
  <2>4. c.dataAt \in Nat /\ c.dictAt \in Nat /\ ChunkMatchesPages(f1, n1, c, i, a.batch)
    BY <2>2, <2>3
  <2> HIDE DEF c
  <2>5. ChunkMatchesPages(f2, n2, c, i, a.batch)
    BY <2>4, ChunkKept
  <2>6. QED
    BY <2>5 DEF c
<1>2. QED
  BY <1>1 DEF GroupMatchesPages

\* serialize_footer copies the metadata of a row group.
LEMMA FooterGroupMatches ==
    ASSUME NEW file, NEW n \in Nat, NEW g, g.columns \in Seq(Chunk), NEW a, NEW width,
           GroupMatchesPages(file, n, g, a, width)
    PROVE  GroupMatchesPages(file, n, FooterGroup(g), a, width)
<1> DEFINE h == FooterGroup(g)
<1>1. h.rows = g.rows /\ h.columns = [i \in 1 .. Len(g.columns) |-> FooterColumn(g.columns[i])]
  BY DEF FooterGroup
<1>2. Len(h.columns) = Len(g.columns)
  BY <1>1
<1>3. ASSUME NEW i \in 1 .. Len(g.columns)
      PROVE  ChunkMatchesPages(file, n, h.columns[i], i, a.batch)
  <2>1. h.columns[i] = FooterColumn(g.columns[i])
    BY <1>1
  <2>2. ChunkMatchesPages(file, n, g.columns[i], i, a.batch)
    BY DEF GroupMatchesPages
  <2> HIDE DEF h
  <2>3. QED
    BY <2>1, <2>2 DEF ChunkMatchesPages, FooterColumn
<1> HIDE DEF h
<1>4. GroupMatchesPages(file, n, h, a, width)
  BY <1>1, <1>2, <1>3 DEF GroupMatchesPages
<1>5. QED
  BY <1>4 DEF h

\* Growing the stream keeps what is known of the recorded row groups.
LEMMA GroupsKept ==
    ASSUME TypeOK, GroupsInv, UNCHANGED <<rowGroups, accepted, leaves>>,
           stream' \in Seq(Unit), Len(stream) <= Len(stream'),
           \A k \in 1 .. Len(stream) : stream'[k] = stream[k], ~bad' => ~bad
    PROVE  GroupsInv'
<1> SUFFICES ASSUME ~bad'
             PROVE  /\ Len(rowGroups) = Len(accepted)
                    /\ \A r \in 1 .. Len(rowGroups) :
                         GroupMatchesPages(stream', Len(stream'), rowGroups[r], accepted[r], Len(leaves))
  BY DEF GroupsInv
<1>1. /\ Len(rowGroups) = Len(accepted)
      /\ \A r \in 1 .. Len(rowGroups) :
           GroupMatchesPages(stream, Len(stream), rowGroups[r], accepted[r], Len(leaves))
  BY DEF GroupsInv
<1>2. ASSUME NEW r \in 1 .. Len(rowGroups)
      PROVE  GroupMatchesPages(stream', Len(stream'), rowGroups[r], accepted[r], Len(leaves))
  <2>1. rowGroups[r] \in [rows : Nat, columns : Seq(Chunk)]
    BY ElementOfSeq DEF TypeOK
  <2>2. rowGroups[r].columns \in Seq(Chunk)
    BY <2>1
  <2>3. Len(stream) \in Nat /\ Len(stream') \in Nat
    BY DEF TypeOK
  <2>4. QED
    BY <1>1, <2>2, <2>3, GroupKept
<1>3. QED
  BY <1>1, <1>2

\* The chunk of a leaf describes the pages just written: the writer's offset
\* was the length of the stream.
LEMMA NewChunkMatches ==
    ASSUME TypeOK, OffsetInv, NEW enc \in Encodings, WriteBytes(Pages(enc)), ~bad', offset > 0
    PROVE  ChunkMatchesPages(stream', Len(stream'), ChunkFor(enc), Len(current.columns) + 1,
                             current.batch)
<1> DEFINE i == Len(current.columns) + 1
           c == ChunkFor(enc)
           L == Len(stream)
<1>1. /\ ~bad /\ Len(stream') = L + Len(Pages(enc))
      /\ \A k \in L + 1 .. Len(stream') : stream'[k] = Pages(enc)[k - L]
  BY PagesAreUnits, WriteBytesExtends
<1>2. offset = L /\ L \in Nat /\ L > 0
  BY <1>1 DEF OffsetInv, TypeOK
<1>3. c.leaf = i /\ c.enc = enc
  BY DEF ChunkFor
<1>4. CASE enc = "RLE_DICTIONARY"
  <2>1. c.dictAt = L /\ c.dataAt = L + 1
    BY <1>2, <1>4 DEF ChunkFor
  <2>2. Len(stream') = L + 2
    BY <1>1, <1>4, PagesAreUnits
  <2>3. stream'[L + 1] = Page("dict", "PLAIN") /\ stream'[L + 2] = Page("data", enc)
    BY <1>1, <1>2, <1>4, <2>2 DEF Pages
  <2>4. QED
    BY <1>2, <1>3, <1>4, <2>1, <2>2, <2>3 DEF ChunkMatchesPages, Page
<1>5. CASE enc # "RLE_DICTIONARY"
  <2>1. c.dictAt = 0 /\ c.dataAt = L
    BY <1>2, <1>5 DEF ChunkFor
  <2>2. Len(stream') = L + 1
    BY <1>1, <1>5, PagesAreUnits
  <2>3. stream'[L + 1] = Page("data", enc)
    BY <1>1, <1>2, <1>5, <2>2 DEF Pages
  <2>4. QED
    BY <1>2, <1>3, <1>5, <2>1, <2>2, <2>3 DEF ChunkMatchesPages, Page
<1>6. QED
  BY <1>4, <1>5

------------------------------------------------------------------------------
(* The invariant is inductive. *)

LEMMA InitInv == Init => IInv
<1> SUFFICES ASSUME Init PROVE IInv
  OBVIOUS
<1>1. Len(stream) = 0 /\ Len(rowGroups) = 0 /\ Len(accepted) = 0
  BY DEF Init
<1>2. OffsetInv /\ SchemaInv /\ CurrentInv /\ CloseInv
  BY <1>1 DEF Init, OffsetInv, SchemaInv, CurrentInv, CloseInv
<1>3. GroupsInv /\ FooterInv
  BY <1>1 DEF GroupsInv, FooterInv
<1>4. QED
  BY <1>2, <1>3 DEF IInv

\* Before close there is no footer in the stream.
LEMMA NoFooterYet ==
    ASSUME FooterInv, handle = "open", pc # "flush"
    PROVE  \A k \in 1 .. Len(stream) : stream[k].kind # "footer"
BY DEF FooterInv

\* Calls that touch neither the stream nor the row groups.
LEMMA QuietStep ==
    ASSUME TypeOK, IInv, handle # "freed",
           UNCHANGED <<handle, pc, current, closing, accepted, offset, schemaVars, groupVars,
                       streamVars>>
    PROVE  IInv'
<1>1. OffsetInv' /\ SchemaInv' /\ CurrentInv' /\ GroupsInv' /\ FooterInv'
  BY DEF IInv, OffsetInv, SchemaInv, CurrentInv, GroupsInv, FooterInv,
         schemaVars, groupVars, streamVars
<1>2. CloseInv'
  BY DEF IInv, CloseInv, streamVars
<1>3. QED
  BY <1>1, <1>2 DEF IInv

\* The pages a leaf writes, all of them or a part, while its batch goes on or
\* is given up, disturb none of the row groups recorded before.
LEMMA PagesStep ==
    ASSUME TypeOK, IInv, handle = "open", pc = "leaf",
           NEW units \in Seq(Unit), \A k \in 1 .. Len(units) : units[k].kind # "footer",
           WriteBytes(units),
           UNCHANGED <<handle, schemaVars, groupVars, accepted, closing>>
    PROVE  /\ pc' \in {"idle", "leaf"} => OffsetInv'
           /\ pc' \in {"idle", "leaf"} => CloseInv'
           /\ GroupsInv' /\ FooterInv'
<1>1. /\ stream' \in Seq(Unit) /\ offset' = offset + Len(units)
      /\ Len(stream) <= Len(stream')
      /\ \A k \in 1 .. Len(stream) : stream'[k] = stream[k]
      /\ \A k \in Len(stream) + 1 .. Len(stream') : stream'[k] = units[k - Len(stream)]
      /\ Len(stream') <= Len(stream) + Len(units)
      /\ ~bad' => ~bad /\ Len(stream') = Len(stream) + Len(units)
  BY WriteBytesExtends
<1>2. Len(units) \in Nat /\ Len(stream) \in Nat /\ offset \in Nat /\ Len(stream') \in Nat
  BY <1>1 DEF TypeOK
<1>3. GroupsInv'
  BY <1>1, GroupsKept DEF IInv, schemaVars, groupVars
<1>4. \A k \in 1 .. Len(stream') : stream'[k].kind # "footer"
  <2>1. \A k \in 1 .. Len(stream) : stream'[k].kind # "footer"
    BY <1>1, NoFooterYet DEF IInv
  <2>2. ASSUME NEW k \in Len(stream) + 1 .. Len(stream') PROVE stream'[k].kind # "footer"
    BY <1>1, <1>2
  <2>3. QED
    BY <1>2, <2>1, <2>2
<1>5. FooterInv'
  BY <1>4 DEF FooterInv
<1>6. ASSUME pc' \in {"idle", "leaf"} PROVE OffsetInv' /\ CloseInv'
  <2>1. stream' # <<>> => stream'[1].kind = "magic"
    <3>1. offset > 0 /\ (~bad => offset = Len(stream)) /\ (stream # <<>> => stream[1].kind = "magic")
      BY DEF IInv, OffsetInv
    <3>2. CASE stream # <<>>
      <4>1. 1 \in 1 .. Len(stream)
        BY <1>2, <3>2, EmptySeq DEF TypeOK
      <4>2. QED
        BY <1>1, <3>1, <3>2, <4>1
    <3>3. CASE stream = <<>>
      <4>1. bad
        BY <3>1, <3>3
      <4>2. QED
        BY <3>3, <4>1, WriteBytesExtends
    <3>4. QED
      BY <3>2, <3>3
  <2>2. ~bad' => offset' = Len(stream')
    BY <1>1, <1>2 DEF IInv, OffsetInv
  <2>3. offset' > 0
    BY <1>1, <1>2 DEF IInv, OffsetInv
  <2>4. QED
    BY <1>6, <2>1, <2>2, <2>3 DEF OffsetInv, CloseInv
<1>7. QED
  BY <1>3, <1>5, <1>6

\* Every step of the writer keeps the invariant.
LEMMA StepInv == TypeOK /\ TypeOK' /\ IInv /\ [Next]_vars => IInv'
<1> SUFFICES ASSUME TypeOK, TypeOK', IInv, [Next]_vars PROVE IInv'
  OBVIOUS
<1>1. ASSUME UNCHANGED vars PROVE IInv'
  BY <1>1 DEF vars, callVars, schemaVars, groupVars, streamVars, IInv, OffsetInv, SchemaInv,
     CurrentInv, GroupsInv, FooterInv, CloseInv
<1>2. ASSUME OpenNullPath PROVE IInv'
  <2>1. pc = "idle" /\ handle = "none"
    BY <1>2 DEF OpenNullPath, IInv, OffsetInv
  <2>2. UNCHANGED <<handle, pc, current, closing, accepted, offset, schemaVars, groupVars, streamVars>>
    BY <1>2, <2>1 DEF OpenNullPath, Return
  <2>3. QED
    BY <2>1, <2>2, QuietStep
<1>3. ASSUME Open PROVE IInv'
  <2>1. /\ handle = "none" /\ stream = <<>> /\ offset = 0 /\ Len(stream) = 0
    BY <1>3 DEF Open, IInv, OffsetInv
  <2>2. <<Magic>> \in Seq(Unit) /\ Len(<<Magic>>) = 1
    BY DEF Magic, Unit
  <2>3. WriteBytes(<<Magic>>)
    BY <1>3 DEF Open
  <2>4. /\ stream' \in Seq(Unit) /\ offset' = 1
        /\ Len(stream') <= 1
        /\ \A k \in 1 .. Len(stream') : stream'[k] = Magic
        /\ ~bad' => ~bad /\ Len(stream') = 1
    BY <2>1, <2>2, <2>3, WriteBytesExtends
  <2>5. /\ handle' = "open" /\ pc' = "idle"
        /\ UNCHANGED <<accepted, schemaVars, groupVars>>
    BY <1>3 DEF Open, Return
  <2>6. stream' # <<>> => stream'[1].kind = "magic"
    BY <2>4, EmptySeq DEF Magic
  <2>7. \A k \in 1 .. Len(stream') : stream'[k].kind # "footer"
    BY <2>4 DEF Magic
  <2>8. GroupsInv'
    BY <2>1, <2>4, <2>5, GroupsKept DEF IInv, schemaVars, groupVars
  <2>9. QED
    BY <2>4, <2>5, <2>6, <2>7, <2>8
       DEF IInv, OffsetInv, SchemaInv, CurrentInv, FooterInv, CloseInv, schemaVars, groupVars
<1>4. ASSUME OpenFails PROVE IInv'
  <2>1. /\ handle = "none" /\ handle' = "unopened" /\ pc' = "idle"
        /\ UNCHANGED <<current, closing, accepted, offset, schemaVars, groupVars, streamVars>>
    BY <1>4 DEF OpenFails, Return
  <2>2. offset = 0 /\ stream = <<>> /\ pc = "idle" /\ Len(stream) = 0
    BY <2>1 DEF IInv, OffsetInv
  <2>3. QED
    BY <2>1, <2>2 DEF IInv, OffsetInv, SchemaInv, CurrentInv, GroupsInv, FooterInv, CloseInv,
       schemaVars, groupVars, streamVars
<1>5. ASSUME NEW c \in Codecs, SetCodec(c) PROVE IInv'
  BY <1>5, QuietStep DEF SetCodec, Usable, Return
<1>6. ASSUME NEW m \in Modes, SetEncoding(m) PROVE IInv'
  BY <1>6, QuietStep DEF SetEncoding, Usable, Return
<1>7. ASSUME SetUnknown PROVE IInv'
  BY <1>7, QuietStep DEF SetUnknown, Usable, Return
<1>8. ASSUME NEW status \in Statuses, Refuse(status), handle \in {"open", "unopened"} PROVE IInv'
  BY <1>8, QuietStep DEF Refuse, BatchCall, Return
<1>9. ASSUME NEW b \in Batches, StartBatch(b) PROVE IInv'
  <2>1. /\ handle = "open" /\ pc = "idle" /\ pc' = "leaf"
        /\ current'.columns = <<>>
        /\ UNCHANGED <<handle, closing, accepted, offset, groupVars, streamVars>>
    BY <1>9 DEF StartBatch, BatchCall
  <2>2. schemaLocked' /\ leaves' # <<>>
    BY <1>9 DEF StartBatch, LockSchema, IInv, SchemaInv, schemaVars
  <2>3. Len(current'.columns) = 0 /\ Len(leaves') >= 0
    BY <2>1 DEF TypeOK
  <2>4. OffsetInv' /\ CurrentInv' /\ CloseInv' /\ SchemaInv'
    BY <2>1, <2>2, <2>3 DEF IInv, OffsetInv, SchemaInv, CurrentInv, CloseInv, groupVars, streamVars
  <2>5. GroupsInv'
    <3>1. CASE schemaLocked
      <4>1. leaves' = leaves
        BY <1>9, <3>1 DEF StartBatch, LockSchema, schemaVars
      <4>2. QED
        BY <2>1, <4>1 DEF IInv, GroupsInv, groupVars, streamVars
    <3>2. CASE ~schemaLocked
      <4>1. rowGroups = <<>> /\ accepted = <<>> /\ Len(rowGroups) = 0 /\ Len(accepted) = 0
        BY <3>2 DEF IInv, SchemaInv
      <4>2. QED
        BY <2>1, <4>1 DEF GroupsInv, groupVars
    <3>3. QED
      BY <3>1, <3>2 DEF TypeOK
  <2>6. FooterInv'
    BY <2>1, NoFooterYet DEF IInv, FooterInv, streamVars
  <2>7. QED
    BY <2>4, <2>5, <2>6 DEF IInv
<1>10. ASSUME WriteLeaf PROVE IInv'
  <2>1. PICK enc \in CurrentLayouts :
          WriteBytes(Pages(enc)) /\ current' = [current EXCEPT !.columns = Append(@, ChunkFor(enc))]
    BY <1>10 DEF WriteLeaf
  <2>2. enc \in Encodings
    BY <2>1, LayoutsAreEncodings DEF CurrentLayouts, TypeOK
  <2>3. /\ handle = "open" /\ pc = "leaf" /\ pc' = "leaf" /\ Len(current.columns) < Len(leaves)
        /\ UNCHANGED <<handle, schemaVars, groupVars, accepted, closing>>
    BY <1>10 DEF WriteLeaf, AtLeaf
  <2>4. Pages(enc) \in Seq(Unit) /\ \A k \in 1 .. Len(Pages(enc)) : Pages(enc)[k].kind # "footer"
    BY <2>2, PagesAreUnits DEF Pages, Page
  <2>5. OffsetInv' /\ CloseInv' /\ GroupsInv' /\ FooterInv'
    BY <2>1, <2>3, <2>4, PagesStep
  <2>6. SchemaInv'
    BY <2>3 DEF IInv, SchemaInv, schemaVars, groupVars
  <2>7. CurrentInv'
    <3> DEFINE n == Len(current.columns)
    <3>1. current.columns \in Seq(Chunk) /\ n \in Nat /\ Len(leaves) \in Nat
      <4>1. current \in [batch : Nat, rows : Nat, columns : Seq(Chunk)] /\ leaves \in Seq(LeafKinds)
        BY DEF TypeOK
      <4>2. QED
        BY <4>1
    <3>2. ChunkFor(enc) \in Chunk
      BY <2>2, ChunkForTyped
    <3>3. /\ current'.columns = Append(current.columns, ChunkFor(enc))
          /\ current'.batch = current.batch
      BY <2>1 DEF TypeOK
    <3>4. /\ Len(current'.columns) = n + 1
          /\ \A i \in 1 .. n : current'.columns[i] = current.columns[i]
          /\ current'.columns[n + 1] = ChunkFor(enc)
      BY <3>1, <3>2, <3>3, AppendProperties
    <3>5. ASSUME ~bad', NEW i \in 1 .. n + 1
          PROVE  ChunkMatchesPages(stream', Len(stream'), current'.columns[i], i, current'.batch)
      <4>1. CASE i = n + 1
        <5>1. offset > 0
          BY <2>3 DEF IInv, OffsetInv
        <5>2. ChunkMatchesPages(stream', Len(stream'), ChunkFor(enc), n + 1, current.batch)
          BY <2>1, <2>2, <3>5, <5>1, NewChunkMatches DEF IInv
        <5>3. QED
          BY <3>3, <3>4, <4>1, <5>2
      <4>2. CASE i # n + 1
        <5>1. i \in 1 .. n
          BY <3>1, <4>2
        <5>2. /\ ~bad /\ Len(stream) \in Nat /\ Len(stream') \in Nat /\ Len(stream) <= Len(stream')
              /\ \A k \in 1 .. Len(stream) : stream'[k] = stream[k]
          <6>1. /\ ~bad /\ stream' \in Seq(Unit) /\ Len(stream) <= Len(stream')
                /\ \A k \in 1 .. Len(stream) : stream'[k] = stream[k]
            BY <2>1, <2>4, <3>5, WriteBytesExtends
          <6>2. stream \in Seq(Unit)
            BY DEF TypeOK
          <6>3. QED
            BY <6>1, <6>2
        <5>3. ChunkMatchesPages(stream, Len(stream), current.columns[i], i, current.batch)
          BY <2>3, <5>1, <5>2 DEF IInv, CurrentInv
        <5>4. current.columns[i].dataAt \in Nat /\ current.columns[i].dictAt \in Nat
          <6>1. current.columns[i] \in Chunk
            BY <3>1, <5>1, ElementOfSeq
          <6>2. QED
            BY <6>1 DEF Chunk
        <5>5. ChunkMatchesPages(stream', Len(stream'), current.columns[i], i, current.batch)
          <6> DEFINE c == current.columns[i]
                     b == current.batch
          <6>1. c.dataAt \in Nat /\ c.dictAt \in Nat /\ ChunkMatchesPages(stream, Len(stream), c, i, b)
            BY <5>3, <5>4
          <6> HIDE DEF c, b
          <6>2. ChunkMatchesPages(stream', Len(stream'), c, i, b)
            BY <5>2, <6>1, ChunkKept, ZenonT(30)
          <6>3. QED
            BY <6>2 DEF c, b
        <5>6. current'.columns[i] = current.columns[i]
          BY <3>4, <5>1
        <5>7. current'.batch = current.batch
          BY <3>3
        <5>8. QED
          BY <5>5, <5>6, <5>7
      <4>3. QED
        BY <4>1, <4>2
    <3>6. Len(current'.columns) <= Len(leaves')
      BY <2>3, <3>1, <3>4 DEF schemaVars
    <3>7. QED
      BY <3>4, <3>5, <3>6 DEF CurrentInv
  <2>8. QED
    BY <2>5, <2>6, <2>7 DEF IInv
<1>11. ASSUME RefuseLeaf PROVE IInv'
  <2>1. /\ handle = "open" /\ pc = "leaf" /\ pc' = "idle"
        /\ UNCHANGED <<handle, closing, accepted, offset, schemaVars, groupVars, streamVars>>
    BY <1>11 DEF RefuseLeaf, AtLeaf, AbandonBatch, Return
  <2>2. FooterInv'
    BY <2>1, NoFooterYet DEF IInv, FooterInv, streamVars
  <2>3. QED
    BY <2>1, <2>2 DEF IInv, OffsetInv, SchemaInv, CurrentInv, GroupsInv, CloseInv,
       schemaVars, groupVars, streamVars
<1>12. ASSUME LeafThrows PROVE IInv'
  <2>1. PICK enc \in CurrentLayouts : \E n \in 0 .. Len(Pages(enc)) - 1 :
          WriteBytes(SubSeq(Pages(enc), 1, n))
    BY <1>12 DEF LeafThrows
  <2>2. enc \in Encodings
    BY <2>1, LayoutsAreEncodings DEF CurrentLayouts, TypeOK
  <2>3. PICK n \in 0 .. Len(Pages(enc)) - 1 : WriteBytes(SubSeq(Pages(enc), 1, n))
    BY <2>1
  <2> DEFINE units == SubSeq(Pages(enc), 1, n)
  <2>4. /\ Pages(enc) \in Seq(Unit) /\ n \in Nat
        /\ \A k \in 1 .. Len(Pages(enc)) : Pages(enc)[k].kind # "footer"
    BY <2>2, PagesAreUnits DEF Pages, Page
  <2>5. units \in Seq(Unit) /\ \A k \in 1 .. Len(units) : units[k].kind # "footer"
    BY <2>4, PagesAreUnits, SubSeqProperties
  <2>6. /\ handle = "open" /\ pc = "leaf" /\ pc' = "idle"
        /\ UNCHANGED <<handle, schemaVars, groupVars, accepted, closing>>
    BY <1>12 DEF LeafThrows, AtLeaf, AbandonBatch, Return
  <2> HIDE DEF units
  <2>7. OffsetInv' /\ CloseInv' /\ GroupsInv' /\ FooterInv'
    BY <2>3, <2>5, <2>6, PagesStep DEF units
  <2>8. QED
    BY <2>6, <2>7 DEF IInv, SchemaInv, CurrentInv, schemaVars, groupVars
<1>13. ASSUME FinishBatch PROVE IInv'
  <2> DEFINE g == [rows |-> current.rows, columns |-> current.columns]
             a == [batch |-> current.batch, rows |-> current.rows]
             n == Len(rowGroups)
  <2>1. /\ handle = "open" /\ pc = "leaf" /\ pc' = "idle"
        /\ Len(current.columns) = Len(leaves)
        /\ rowGroups' = Append(rowGroups, g)
        /\ UNCHANGED <<handle, closing, offset, schemaVars, streamVars>>
        /\ ~bad => accepted' = Append(accepted, a)
    BY <1>13 DEF FinishBatch, Return
  <2>2. schemaLocked
    BY <2>1 DEF IInv, SchemaInv
  <2>3. OffsetInv' /\ SchemaInv' /\ CurrentInv' /\ CloseInv'
    BY <2>1, <2>2 DEF IInv, OffsetInv, SchemaInv, CurrentInv, CloseInv, schemaVars, streamVars
  <2>4. FooterInv'
    BY <2>1, NoFooterYet DEF IInv, FooterInv, streamVars
  <2>5. ASSUME ~bad
        PROVE  /\ Len(rowGroups') = Len(accepted')
               /\ \A r \in 1 .. Len(rowGroups') :
                    GroupMatchesPages(stream, Len(stream), rowGroups'[r], accepted'[r], Len(leaves))
    <3>1. /\ g \in [rows : Nat, columns : Seq(Chunk)] /\ a \in [batch : Nat, rows : Nat]
          /\ rowGroups \in Seq([rows : Nat, columns : Seq(Chunk)])
          /\ accepted \in Seq([batch : Nat, rows : Nat])
      BY DEF TypeOK
    <3>2. /\ Len(accepted) = n /\ n \in Nat
          /\ \A r \in 1 .. n :
               GroupMatchesPages(stream, Len(stream), rowGroups[r], accepted[r], Len(leaves))
      BY <2>5, <3>1 DEF IInv, GroupsInv
    <3>3. GroupMatchesPages(stream, Len(stream), g, a, Len(leaves))
      BY <2>1, <2>5 DEF IInv, CurrentInv, GroupMatchesPages
    <3> HIDE DEF g, a
    <3>4. /\ Len(rowGroups') = n + 1 /\ rowGroups'[n + 1] = g
          /\ \A r \in 1 .. n : rowGroups'[r] = rowGroups[r]
      BY <2>1, <3>1, AppendProperties
    <3>5. /\ Len(accepted') = n + 1 /\ accepted'[n + 1] = a
          /\ \A r \in 1 .. n : accepted'[r] = accepted[r]
      <4>1. accepted' = Append(accepted, a)
        BY <2>1, <2>5
      <4>2. /\ Len(Append(accepted, a)) = Len(accepted) + 1
            /\ Append(accepted, a)[Len(accepted) + 1] = a
            /\ \A r \in 1 .. Len(accepted) : Append(accepted, a)[r] = accepted[r]
        BY <3>1, AppendProperties
      <4>3. QED
        BY <3>2, <4>1, <4>2
    <3>6. QED
      BY <3>2, <3>3, <3>4, <3>5
  <2>6. GroupsInv'
    BY <2>1, <2>5 DEF GroupsInv, schemaVars, streamVars
  <2>7. QED
    BY <2>3, <2>4, <2>6 DEF IInv
<1>14. ASSUME CloseUnopened PROVE IInv'
  <2>1. /\ handle = "unopened" /\ handle' = "freed" /\ pc' = "idle" /\ pc = "idle"
        /\ UNCHANGED <<current, closing, accepted, offset, schemaVars, groupVars, streamVars>>
    BY <1>14 DEF CloseUnopened, Return
  <2>2. offset = 0
    BY <2>1 DEF IInv, OffsetInv
  <2>3. QED
    BY <2>1, <2>2 DEF IInv, OffsetInv, SchemaInv, CurrentInv, GroupsInv, FooterInv, CloseInv,
       schemaVars, groupVars, streamVars
<1>15. ASSUME CloseWritesFooter PROVE IInv'
  <2> DEFINE units == <<Footer, FooterLength, Magic>>
             L == Len(stream)
  <2>1. /\ handle = "open" /\ pc = "idle" /\ pc' = "flush" /\ WriteBytes(units)
        /\ UNCHANGED <<handle, current, closing, accepted, schemaVars, groupVars>>
    BY <1>15 DEF CloseWritesFooter
  <2>2. /\ units \in Seq(Unit) /\ Len(units) = 3
        /\ units[1] = Footer /\ units[2] = FooterLength /\ units[3] = Magic
    BY FooterIsUnit DEF FooterLength, Magic, Unit
  <2> HIDE DEF units
  <2>3. /\ stream' \in Seq(Unit) /\ offset' = offset + 3
        /\ L <= Len(stream') /\ Len(stream') <= L + 3
        /\ \A k \in 1 .. L : stream'[k] = stream[k]
        /\ \A k \in L + 1 .. Len(stream') : stream'[k] = units[k - L]
        /\ ~bad' => ~bad /\ Len(stream') = L + 3
        /\ bad => stream' = stream
    BY <2>1, <2>2, WriteBytesExtends
  <2>4. L \in Nat /\ Len(stream') \in Nat /\ offset \in Nat /\ offset > 0
    <3>1. L \in Nat /\ offset \in Nat
      BY DEF TypeOK
    <3>2. Len(stream') \in Nat
      BY <2>3
    <3>3. offset > 0
      BY <2>1 DEF IInv, OffsetInv
    <3>4. QED
      BY <3>1, <3>2, <3>3
  <2>5. ~bad => offset = L /\ stream # <<>> /\ stream[1].kind = "magic" /\ 1 \in 1 .. L
    <3>1. SUFFICES ASSUME ~bad PROVE offset = L /\ stream # <<>> /\ stream[1].kind = "magic" /\ 1 \in 1 .. L
      OBVIOUS
    <3>2. offset = L
      BY <3>1 DEF IInv, OffsetInv
    <3>3. stream # <<>>
      BY <2>4, <3>2
    <3>4. QED
      BY <2>4, <3>2, <3>3 DEF IInv, OffsetInv
  <2>6. GroupsInv'
    BY <2>1, <2>3, GroupsKept DEF IInv, schemaVars, groupVars
  <2>7. FooterInv'
    <3>1. ASSUME NEW k \in 1 .. Len(stream'), stream'[k].kind = "footer"
          PROVE  /\ stream'[k].leaves = leaves
                 /\ Len(stream'[k].groups) = Len(accepted)
                 /\ \A r \in 1 .. Len(accepted) :
                      GroupMatchesPages(stream', k - 1, stream'[k].groups[r], accepted[r], Len(leaves))
      <4>1. ~(k \in 1 .. L)
        BY <2>1, <2>3, <3>1, NoFooterYet DEF IInv
      <4>2. k = L + 1
        <5>1. k \in L + 1 .. Len(stream') /\ k - L \in 1 .. 3 /\ stream'[k] = units[k - L]
          BY <2>3, <2>4, <4>1
        <5>2. FooterLength.kind # "footer" /\ Magic.kind # "footer"
          BY DEF FooterLength, Magic
        <5>3. k - L # 2 /\ k - L # 3
          BY <2>2, <3>1, <5>1, <5>2
        <5>4. QED
          BY <2>4, <5>1, <5>3
      <4>3. stream'[k] = Footer
        BY <2>2, <2>3, <2>4, <4>2
      <4>4. ~bad
        BY <2>3, <2>4, <4>2
      <4>5. /\ Len(rowGroups) = Len(accepted)
            /\ \A r \in 1 .. Len(rowGroups) :
                 GroupMatchesPages(stream, L, rowGroups[r], accepted[r], Len(leaves))
        BY <4>4 DEF IInv, GroupsInv
      <4>6. Footer.leaves = leaves /\ Len(Footer.groups) = Len(rowGroups)
        BY FooterIsUnit DEF Footer
      <4>7. ASSUME NEW r \in 1 .. Len(rowGroups)
            PROVE  GroupMatchesPages(stream', L, Footer.groups[r], accepted[r], Len(leaves))
        <5>1. Footer.groups[r] = FooterGroup(rowGroups[r])
          BY FooterIsUnit DEF Footer
        <5>2. rowGroups[r] \in [rows : Nat, columns : Seq(Chunk)]
          BY ElementOfSeq DEF TypeOK
        <5>3. rowGroups[r].columns \in Seq(Chunk)
          BY <5>2
        <5>4. GroupMatchesPages(stream', L, rowGroups[r], accepted[r], Len(leaves))
          <6>1. GroupMatchesPages(stream, L, rowGroups[r], accepted[r], Len(leaves))
            BY <4>5
          <6>2. L <= L /\ \A j \in 1 .. L : stream'[j] = stream[j]
            BY <2>3, <2>4
          <6> HIDE DEF L
          <6>3. QED
            BY <2>4, <5>3, <6>1, <6>2, GroupKept
        <5>5. QED
          BY <2>4, <5>1, <5>3, <5>4, FooterGroupMatches
      <4>8. k - 1 = L
        BY <2>4, <4>2
      <4>9. QED
        BY <4>3, <4>5, <4>6, <4>7, <4>8
    <3>2. QED
      BY <2>1, <3>1 DEF FooterInv, schemaVars
  <2>8. stream' # <<>> => stream'[1].kind = "magic"
    <3>1. CASE bad
      BY <2>3, <3>1 DEF IInv, OffsetInv
    <3>2. CASE ~bad
      BY <2>3, <2>5, <3>2
    <3>3. QED
      BY <3>1, <3>2
  <2>9. ~bad' => offset' = Len(stream')
    BY <2>3, <2>5
  <2>10. OffsetInv'
    BY <2>1, <2>3, <2>4, <2>8, <2>9 DEF OffsetInv
  <2>11. ASSUME ~bad' PROVE Complete(stream')
    <3>1. /\ ~bad /\ Len(stream') = L + 3
          /\ stream'[L + 1] = Footer /\ stream'[L + 2] = FooterLength /\ stream'[L + 3] = Magic
      BY <2>2, <2>3, <2>4, <2>11
    <3>2. stream'[1].kind = "magic"
      BY <2>3, <2>5, <3>1
    <3>3. L >= 1
      BY <2>5, <3>1
    <3>4. Len(stream') - 2 = L + 1 /\ Len(stream') - 1 = L + 2
      BY <2>4, <3>1
    <3>5. QED
      BY <2>4, <3>1, <3>2, <3>3, <3>4, FooterIsUnit DEF Complete, FooterLength, Magic
  <2>12. SchemaInv' /\ CurrentInv' /\ CloseInv'
    BY <2>1, <2>11 DEF IInv, SchemaInv, CurrentInv, CloseInv, schemaVars, groupVars
  <2>13. QED
    BY <2>6, <2>7, <2>10, <2>12 DEF IInv
<1>16. ASSUME CloseWithoutFooter PROVE IInv'
  <2>1. /\ handle = "open" /\ pc = "idle" /\ pc' = "flush" /\ closing' = "IO_ERROR"
        /\ UNCHANGED <<handle, current, accepted, offset, schemaVars, groupVars, streamVars>>
    BY <1>16 DEF CloseWithoutFooter
  <2>2. QED
    BY <2>1 DEF IInv, OffsetInv, SchemaInv, CurrentInv, GroupsInv, FooterInv, CloseInv,
       schemaVars, groupVars, streamVars
<1>17. ASSUME FlushAndFree PROVE IInv'
  <2>1. /\ handle = "open" /\ pc = "flush" /\ handle' = "freed" /\ pc' = "idle"
        /\ ret'.status = IF bad' THEN "IO_ERROR" ELSE closing
        /\ Flush
        /\ UNCHANGED <<current, closing, accepted, offset, schemaVars, groupVars, stream>>
    BY <1>17 DEF FlushAndFree, Return
  <2>2. ~bad' => ~bad /\ synced' = Len(stream)
    BY <2>1 DEF Flush
  <2>3. OffsetInv' /\ SchemaInv' /\ CurrentInv' /\ FooterInv'
    BY <2>1, <2>2 DEF IInv, OffsetInv, SchemaInv, CurrentInv, FooterInv, schemaVars, groupVars
  <2>4. GroupsInv'
    BY <2>1, <2>2 DEF IInv, GroupsInv, schemaVars, groupVars
  <2>5. CloseInv'
    BY <2>1, <2>2 DEF IInv, CloseInv
  <2>6. QED
    BY <2>3, <2>4, <2>5 DEF IInv
<1>18. ASSUME Crash PROVE IInv'
  <2>1. /\ handle' = "dead"
        /\ UNCHANGED <<pc, current, closing, accepted, offset, schemaVars, groupVars, stream, bad>>
    BY <1>18 DEF Crash
  <2>2. QED
    BY <2>1 DEF IInv, OffsetInv, SchemaInv, CurrentInv, GroupsInv, FooterInv, CloseInv,
       schemaVars, groupVars
<1>19. QED
  BY <1>1, <1>2, <1>3, <1>4, <1>5, <1>6, <1>7, <1>8, <1>9, <1>10, <1>11, <1>12, <1>13,
     <1>14, <1>15, <1>16, <1>17, <1>18
     DEF Next, Batch, BatchStep, RefuseUnopened, RefuseArguments, RefuseSchema, RefuseShape,
         Statuses

------------------------------------------------------------------------------
(* The theorems. *)

\* Whatever the caller, the disk and the process do, the metadata the writer
\* collects describes what a good stream holds.
THEOREM InvariantHolds == Spec => [](TypeOK /\ IInv)
<1>1. Init => TypeOK /\ IInv
  BY InitTyped, InitInv
<1>2. TypeOK /\ IInv /\ [Next]_vars => TypeOK' /\ IInv'
  BY StepTyped, StepInv
<1>3. QED
  BY <1>1, <1>2, PTL DEF Spec

\* The footer of a complete file on the disk, and what FooterInv says of it
\* carried over from the stream to the part of it that is on the disk.
LEMMA DiskFooter ==
    ASSUME TypeOK, IInv, Complete(Disk)
    PROVE  LET f == FooterOf(Disk)
           IN /\ f.leaves = leaves
              /\ f.groups \in Seq([rows : Nat, columns : Seq(FooterChunk)])
              /\ Len(f.groups) = Len(accepted)
              /\ \A r \in 1 .. Len(accepted) :
                   /\ GroupMatchesPages(Disk, Len(Disk) - 3, f.groups[r], accepted[r], Len(leaves))
                   /\ Len(f.groups[r].columns) > 0
<1> DEFINE k == synced - 2
           u == stream[k]
<1>1. /\ stream \in Seq(Unit) /\ synced \in 0 .. Len(stream) /\ Len(stream) \in Nat
      /\ synced \in Nat
  BY DEF TypeOK
<1>2. Len(Disk) = synced /\ \A j \in 1 .. synced : Disk[j] = stream[j]
  BY <1>1, SubSeqProperties DEF Disk
<1>3. synced >= 4 /\ k \in 1 .. Len(stream) /\ k \in 1 .. synced
  BY <1>1, <1>2 DEF Complete
<1>4. FooterOf(Disk) = u /\ u.kind = "footer"
  BY <1>2, <1>3 DEF Complete, FooterOf
<1>5. /\ u.leaves = leaves /\ Len(u.groups) = Len(accepted)
      /\ \A r \in 1 .. Len(accepted) :
           GroupMatchesPages(stream, k - 1, u.groups[r], accepted[r], Len(leaves))
  BY <1>3, <1>4 DEF IInv, FooterInv
<1>6. u.groups \in Seq([rows : Nat, columns : Seq(FooterChunk)])
  <2>1. u \in Unit
    BY <1>1, <1>3, ElementOfSeq
  <2> HIDE DEF u
  <2>2. QED
    BY <1>4, <2>1 DEF Unit
<1> HIDE DEF u
<1>7. ASSUME NEW r \in 1 .. Len(accepted)
      PROVE  /\ GroupMatchesPages(Disk, Len(Disk) - 3, u.groups[r], accepted[r], Len(leaves))
             /\ Len(u.groups[r].columns) > 0
  <2> DEFINE g == u.groups[r]
  <2>1. GroupMatchesPages(stream, k - 1, g, accepted[r], Len(leaves))
    BY <1>5
  <2>2. g \in [rows : Nat, columns : Seq(FooterChunk)]
    BY <1>5, <1>6, ElementOfSeq
  <2> HIDE DEF g
  <2>3. g.columns \in Seq(FooterChunk)
    BY <2>2
  <2>4. k - 1 \in Nat /\ Len(Disk) - 3 = k - 1 /\ \A j \in 1 .. k - 1 : Disk[j] = stream[j]
    BY <1>1, <1>2, <1>3
  <2>5. ASSUME NEW i \in 1 .. Len(g.columns)
        PROVE  ChunkMatchesPages(Disk, Len(Disk) - 3, g.columns[i], i, accepted[r].batch)
    <3>1. g.columns[i] \in FooterChunk
      BY <2>3, ElementOfSeq
    <3>2. g.columns[i].dataAt \in Nat /\ g.columns[i].dictAt \in Nat
      BY <3>1 DEF FooterChunk
    <3>3. ChunkMatchesPages(stream, k - 1, g.columns[i], i, accepted[r].batch)
      BY <2>1 DEF GroupMatchesPages
    <3> DEFINE n == k - 1
    <3>4. n \in Nat /\ n <= n /\ Len(Disk) - 3 = n /\ \A j \in 1 .. n : Disk[j] = stream[j]
      BY <2>4
    <3>5. ChunkMatchesPages(stream, n, g.columns[i], i, accepted[r].batch)
      BY <3>3
    <3> HIDE DEF n
    <3>6. ChunkMatchesPages(Disk, n, g.columns[i], i, accepted[r].batch)
      <4> DEFINE c == g.columns[i]
      <4>1. c.dataAt \in Nat /\ c.dictAt \in Nat
        BY <3>2
      <4>2. ChunkMatchesPages(stream, n, c, i, accepted[r].batch)
        BY <3>5
      <4> HIDE DEF c
      <4>3. ChunkMatchesPages(Disk, n, c, i, accepted[r].batch)
        <5>1. c.dataAt + 1 \in 1 .. n /\ (c.dictAt # 0 => c.dictAt + 1 \in 1 .. n)
          BY <3>4, <4>1, <4>2 DEF ChunkMatchesPages
        <5>2. /\ Disk[c.dataAt + 1] = stream[c.dataAt + 1]
              /\ c.dictAt # 0 => Disk[c.dictAt + 1] = stream[c.dictAt + 1]
          BY <3>4, <5>1
        <5>3. QED
          BY <4>2, <5>2 DEF ChunkMatchesPages
      <4>4. QED
        BY <4>3 DEF c
    <3>7. QED
      BY <3>4, <3>6
  <2>6. g.rows = accepted[r].rows /\ Len(g.columns) = Len(leaves)
    BY <2>1 DEF GroupMatchesPages
  <2>7. Len(leaves) > 0
    <3>1. accepted # <<>>
      BY DEF TypeOK
    <3>2. leaves # <<>>
      BY <3>1 DEF IInv, SchemaInv, TypeOK
    <3>3. QED
      BY <3>2, EmptySeq DEF TypeOK
  <2>8. GroupMatchesPages(Disk, Len(Disk) - 3, g, accepted[r], Len(leaves))
    BY <2>5, <2>6 DEF GroupMatchesPages
  <2>9. QED
    BY <2>6, <2>7, <2>8 DEF g
<1>8. QED
  BY <1>4, <1>5, <1>6, <1>7

\* What a reader decodes from the row groups of a complete file are the batches
\* that were accepted.
LEMMA ReadBackIsAccepted == TypeOK /\ IInv => SealedIsAccepted
<1> SUFFICES ASSUME TypeOK, IInv, Complete(Disk) PROVE ReadBack(Disk) = accepted
  BY DEF SealedIsAccepted
<1> DEFINE f == FooterOf(Disk)
<1>1. /\ f.groups \in Seq([rows : Nat, columns : Seq(FooterChunk)])
      /\ Len(f.groups) = Len(accepted)
      /\ \A r \in 1 .. Len(accepted) :
           /\ GroupMatchesPages(Disk, Len(Disk) - 3, f.groups[r], accepted[r], Len(leaves))
           /\ Len(f.groups[r].columns) > 0
  BY DiskFooter
<1> HIDE DEF f
<1>2. accepted \in Seq([batch : Nat, rows : Nat]) /\ DOMAIN accepted = 1 .. Len(accepted)
  BY DEF TypeOK
<1>3. DOMAIN f.groups = 1 .. Len(accepted)
  BY <1>1
<1>4. ASSUME NEW r \in 1 .. Len(accepted)
      PROVE  [batch |-> Disk[f.groups[r].columns[1].dataAt + 1].batch, rows |-> f.groups[r].rows]
               = accepted[r]
  <2>1. f.groups[r].rows = accepted[r].rows
    BY <1>1 DEF GroupMatchesPages
  <2>2. f.groups[r] \in [rows : Nat, columns : Seq(FooterChunk)]
    BY <1>1, ElementOfSeq
  <2>3. 1 \in 1 .. Len(f.groups[r].columns)
    BY <1>1, <2>2
  <2>4. Disk[f.groups[r].columns[1].dataAt + 1].batch = accepted[r].batch
    BY <1>1, <2>3 DEF GroupMatchesPages, ChunkMatchesPages
  <2>5. accepted[r] \in [batch : Nat, rows : Nat]
    BY <1>2, ElementOfSeq
  <2>6. QED
    BY <2>1, <2>4, <2>5
<1>5. ReadBack(Disk) =
        [r \in 1 .. Len(accepted) |->
           [batch |-> Disk[f.groups[r].columns[1].dataAt + 1].batch, rows |-> f.groups[r].rows]]
  BY <1>3 DEF ReadBack, f
<1>6. ReadBack(Disk) = [r \in 1 .. Len(accepted) |-> accepted[r]]
  BY <1>4, <1>5
<1>7. QED
  BY <1>2, <1>6

\* A file a reader can open holds exactly the batches write_batch accepted, in
\* order: no batch that failed, none lost, for every sequence of calls, disk
\* failures and crashes.
THEOREM SealedIsAcceptedAlways == Spec => []SealedIsAccepted
<1>1. QED
  BY ReadBackIsAccepted, InvariantHolds, PTL

\* The footer of a file a reader can open describes the pages that are there.
THEOREM FooterMatchesPagesAlways == Spec => []FooterMatchesPages
<1>1. TypeOK /\ IInv => FooterMatchesPages
  <2> SUFFICES ASSUME TypeOK, IInv, Complete(Disk),
                      NEW r \in DOMAIN FooterOf(Disk).groups
               PROVE  LET columns == FooterOf(Disk).groups[r].columns
                      IN /\ Len(columns) = Len(FooterOf(Disk).leaves)
                         /\ \A i \in DOMAIN columns :
                              ChunkMatchesPages(Disk, Len(Disk) - 3, columns[i], i,
                                                ReadBack(Disk)[r].batch)
    BY DEF FooterMatchesPages
  <2> DEFINE f == FooterOf(Disk)
             g == f.groups[r]
  <2>1. /\ f.leaves = leaves
        /\ f.groups \in Seq([rows : Nat, columns : Seq(FooterChunk)])
        /\ Len(f.groups) = Len(accepted)
        /\ \A q \in 1 .. Len(accepted) :
             /\ GroupMatchesPages(Disk, Len(Disk) - 3, f.groups[q], accepted[q], Len(leaves))
             /\ Len(f.groups[q].columns) > 0
    BY DiskFooter
  <2>2. r \in 1 .. Len(accepted)
    BY <2>1
  <2>3. GroupMatchesPages(Disk, Len(Disk) - 3, g, accepted[r], Len(leaves)) /\ Len(g.columns) > 0
    BY <2>1, <2>2
  <2>4. g \in [rows : Nat, columns : Seq(FooterChunk)]
    BY <2>1, <2>2, ElementOfSeq
  <2>5. ReadBack(Disk)[r].batch = Disk[g.columns[1].dataAt + 1].batch
    BY DEF ReadBack
  <2> HIDE DEF g, f
  <2>6. g.columns \in Seq(FooterChunk) /\ 1 \in 1 .. Len(g.columns)
        /\ DOMAIN g.columns = 1 .. Len(g.columns)
    BY <2>3, <2>4
  <2>7. ReadBack(Disk)[r].batch = accepted[r].batch
    BY <2>3, <2>5, <2>6 DEF GroupMatchesPages, ChunkMatchesPages
  <2>8. Len(g.columns) = Len(f.leaves)
    BY <2>1, <2>3 DEF GroupMatchesPages
  <2>9. \A i \in DOMAIN g.columns :
          ChunkMatchesPages(Disk, Len(Disk) - 3, g.columns[i], i, ReadBack(Disk)[r].batch)
    BY <2>3, <2>6, <2>7 DEF GroupMatchesPages
  <2>10. QED
    BY <2>8, <2>9 DEF f, g
<1>2. QED
  BY <1>1, InvariantHolds, PTL

\* When close returns OK on a file that was opened, every byte the writer
\* counted is on the disk and the file is complete.
THEOREM CloseOkIsDurableAlways == Spec => []CloseOkIsDurable
<1>1. TypeOK /\ IInv => CloseOkIsDurable
  <2> SUFFICES ASSUME TypeOK, IInv, handle = "freed", ret.status = "OK", offset > 0
               PROVE  Complete(Disk) /\ Len(Disk) = offset
    BY DEF CloseOkIsDurable
  <2>1. ~bad /\ synced = Len(stream) /\ Complete(stream)
    BY DEF IInv, CloseInv
  <2>2. offset = Len(stream)
    BY <2>1 DEF IInv, OffsetInv
  <2>3. Disk = stream
    BY <2>1, SubSeqFull DEF Disk, TypeOK
  <2>4. QED
    BY <2>1, <2>2, <2>3
<1>2. QED
  BY <1>1, InvariantHolds, PTL

------------------------------------------------------------------------------
(* What the refinement needs beyond IInv. *)

\* The batch in progress is one the caller passed, under the number of its call.
CallsInv ==
    /\ calls <= MaxBatches
    /\ pc = "leaf" => /\ current.batch \in 1 .. MaxBatches
                      /\ current.rows \in {b.rows : b \in Batches}

\* At most the footer length and the magic follow a footer in the stream.
EndInv ==
    \A k \in 1 .. Len(stream) : stream[k].kind = "footer" => Len(stream) <= k + 2

RInv == CallsInv /\ EndInv

LEMMA InitRefines == Init => RInv
BY MaxBatchesAssumption DEF Init, RInv, CallsInv, EndInv

\* Only close writes once a footer is possible; whatever else touches the stream
\* leaves the writer open and not yet closing.
LEMMA StreamSteps ==
    ASSUME [Next]_vars
    PROVE  \/ stream' = stream
           \/ handle' = "open" /\ pc' # "flush"
           \/ CloseWritesFooter
<1>1. CASE UNCHANGED vars
  BY <1>1 DEF vars, streamVars
<1>2. CASE OpenNullPath \/ OpenFails \/ SetUnknown \/ CloseUnopened \/ CloseWithoutFooter
  BY <1>2 DEF OpenNullPath, OpenFails, SetUnknown, CloseUnopened, CloseWithoutFooter, streamVars
<1>3. CASE Open
  BY <1>3 DEF Open, Return
<1>4. CASE \E c \in Codecs : SetCodec(c)
  BY <1>4 DEF SetCodec, streamVars
<1>5. CASE \E m \in Modes : SetEncoding(m)
  BY <1>5 DEF SetEncoding, streamVars
<1>6. CASE RefuseUnopened \/ \E b \in Batches : Batch(b)
  BY <1>6 DEF RefuseUnopened, Batch, RefuseArguments, RefuseSchema, RefuseShape, StartBatch, Refuse,
     streamVars
<1>7. CASE BatchStep
  BY <1>7 DEF BatchStep, WriteLeaf, RefuseLeaf, LeafThrows, FinishBatch, AbandonBatch, AtLeaf, Return,
     streamVars
<1>8. CASE FlushAndFree \/ Crash
  BY <1>8 DEF FlushAndFree, Crash
<1>9. QED
  BY <1>1, <1>2, <1>3, <1>4, <1>5, <1>6, <1>7, <1>8 DEF Next

\* The footer, once in the stream, is followed by two units at most.
LEMMA EndKept ==
    ASSUME TypeOK, TypeOK', IInv, IInv', EndInv, [Next]_vars
    PROVE  EndInv'
<1>1. CASE stream' = stream
  BY <1>1 DEF EndInv
<1>2. CASE handle' = "open" /\ pc' # "flush"
  BY <1>2 DEF IInv, FooterInv, EndInv
<1>3. CASE CloseWritesFooter
  <2> DEFINE units == <<Footer, FooterLength, Magic>>
             L == Len(stream)
  <2>1. units \in Seq(Unit) /\ Len(units) = 3
    BY FooterIsUnit DEF FooterLength, Magic, Unit
  <2>2. handle = "open" /\ pc = "idle" /\ WriteBytes(units)
    BY <1>3 DEF CloseWritesFooter
  <2> HIDE DEF units
  <2>3. /\ stream' \in Seq(Unit) /\ Len(stream') <= L + 3
        /\ \A k \in 1 .. L : stream'[k] = stream[k]
    BY <2>1, <2>2, WriteBytesExtends
  <2>4. L \in Nat /\ Len(stream') \in Nat
    <3>1. stream \in Seq(Unit)
      BY DEF TypeOK
    <3>2. QED
      BY <2>3, <3>1
  <2>5. \A k \in 1 .. L : stream[k].kind # "footer"
    BY <2>2, NoFooterYet DEF IInv
  <2>6. ASSUME NEW k \in 1 .. Len(stream'), stream'[k].kind = "footer"
        PROVE  Len(stream') <= k + 2
    <3>1. ~(k \in 1 .. L)
      BY <2>3, <2>5, <2>6
    <3>2. QED
      BY <2>3, <2>4, <3>1
  <2>7. QED
    BY <2>6 DEF EndInv
<1>4. QED
  BY <1>1, <1>2, <1>3, StreamSteps

\* A call counts itself before it takes its batch.
LEMMA CallsKept ==
    ASSUME TypeOK, CallsInv, [Next]_vars
    PROVE  CallsInv'
<1>1. CASE UNCHANGED vars
  BY <1>1 DEF vars, callVars, CallsInv
<1>2. CASE OpenNullPath \/ Open \/ OpenFails \/ SetUnknown \/ CloseUnopened
           \/ CloseWritesFooter \/ CloseWithoutFooter \/ FlushAndFree \/ Crash
  BY <1>2 DEF OpenNullPath, Open, OpenFails, SetUnknown, CloseUnopened, CloseWritesFooter,
     CloseWithoutFooter, FlushAndFree, Crash, Return, CallsInv
<1>3. CASE (\E c \in Codecs : SetCodec(c)) \/ (\E m \in Modes : SetEncoding(m))
  BY <1>3 DEF SetCodec, SetEncoding, Return, CallsInv
<1>4. ASSUME NEW status, Refuse(status) PROVE CallsInv'
  BY <1>4, MaxBatchesAssumption DEF Refuse, BatchCall, Return, CallsInv, TypeOK
<1>5. ASSUME NEW b \in Batches, StartBatch(b) PROVE CallsInv'
  <2>1. calls < MaxBatches /\ calls' = calls + 1 /\ calls \in Nat /\ MaxBatches \in Nat
    BY <1>5, MaxBatchesAssumption DEF StartBatch, BatchCall, TypeOK
  <2>2. current' = [batch |-> calls', rows |-> b.rows, columns |-> <<>>]
    BY <1>5 DEF StartBatch
  <2>3. QED
    BY <2>1, <2>2 DEF CallsInv
<1>6. CASE WriteLeaf
  <2>1. PICK enc \in CurrentLayouts : current' = [current EXCEPT !.columns = Append(@, ChunkFor(enc))]
    BY <1>6 DEF WriteLeaf
  <2>2. current'.batch = current.batch /\ current'.rows = current.rows
    BY <2>1 DEF TypeOK
  <2>3. QED
    BY <1>6, <2>2 DEF WriteLeaf, CallsInv
<1>7. CASE RefuseLeaf \/ LeafThrows \/ FinishBatch
  BY <1>7 DEF RefuseLeaf, LeafThrows, FinishBatch, AbandonBatch, Return, CallsInv
<1>8. QED
  BY <1>1, <1>2, <1>3, <1>4, <1>5, <1>6, <1>7 DEF Next, Batch, BatchStep, RefuseUnopened,
     RefuseArguments, RefuseSchema, RefuseShape

LEMMA RefinesInvariant == Spec => [](TypeOK /\ IInv /\ RInv)
<1>1. Init => TypeOK /\ IInv /\ RInv
  BY InitTyped, InitInv, InitRefines
<1>2. TypeOK /\ IInv /\ RInv /\ [Next]_vars => TypeOK' /\ IInv' /\ RInv'
  BY StepTyped, StepInv, EndKept, CallsKept DEF RInv
<1>3. QED
  BY <1>1, <1>2, PTL DEF Spec

------------------------------------------------------------------------------
(* Neither end of a file is left, and nothing is added after it. *)

\* A file that is complete on the disk has all of the stream there.
LEMMA CompleteIsAll ==
    ASSUME TypeOK, EndInv, Complete(Disk)
    PROVE  /\ synced = Len(stream)
           /\ synced - 2 \in 1 .. Len(stream) /\ stream[synced - 2].kind = "footer"
<1>1. stream \in Seq(Unit) /\ synced \in 0 .. Len(stream) /\ Len(stream) \in Nat
  BY DEF TypeOK
<1>2. Len(Disk) = synced /\ \A j \in 1 .. synced : Disk[j] = stream[j]
  BY <1>1, SubSeqProperties DEF Disk
<1>3. synced >= 4 /\ synced - 2 \in 1 .. synced /\ synced - 2 \in 1 .. Len(stream)
  BY <1>1, <1>2 DEF Complete
<1>4. stream[synced - 2].kind = "footer"
  BY <1>2, <1>3 DEF Complete
<1>5. Len(stream) <= synced
  BY <1>1, <1>3, <1>4 DEF EndInv
<1>6. QED
  BY <1>1, <1>3, <1>4, <1>5

\* What a closed writer, or one whose footer is out, may still do.
LEMMA FooterIsLast ==
    ASSUME TypeOK, IInv, EndInv, Complete(Disk), [Next]_vars
    PROVE  stream' = stream /\ accepted' = accepted /\ synced' = synced
<1>1. /\ synced = Len(stream) /\ synced \in Nat
      /\ synced - 2 \in 1 .. Len(stream) /\ stream[synced - 2].kind = "footer"
  BY CompleteIsAll DEF TypeOK
<1>2. handle \in {"freed", "dead"} \/ (handle = "open" /\ pc = "flush")
  <2>1. stream # <<>>
    BY <1>1, EmptySeq DEF TypeOK
  <2>2. handle \notin {"none", "unopened"}
    BY <2>1 DEF IInv, OffsetInv
  <2>3. handle = "open" => pc = "flush"
    BY <1>1 DEF IInv, FooterInv
  <2>4. QED
    BY <2>2, <2>3 DEF TypeOK
<1>3. UNCHANGED vars \/ FlushAndFree \/ Crash
  BY <1>2 DEF Next, OpenNullPath, Open, OpenFails, SetCodec, SetEncoding, SetUnknown, Usable,
     RefuseUnopened, Batch, RefuseArguments, RefuseSchema, RefuseShape, Refuse, StartBatch, BatchCall,
     BatchStep, WriteLeaf, RefuseLeaf, LeafThrows, AtLeaf, FinishBatch, CloseUnopened,
     CloseWritesFooter, CloseWithoutFooter
<1>4. CASE UNCHANGED vars
  BY <1>4 DEF vars, callVars, streamVars
<1>5. CASE FlushAndFree
  BY <1>1, <1>5 DEF FlushAndFree, Flush
<1>6. CASE Crash
  BY <1>1, <1>6 DEF Crash
<1>7. QED
  BY <1>3, <1>4, <1>5, <1>6

\* A stream that has failed takes nothing more, and no batch is accepted then.
LEMMA BadStays ==
    ASSUME bad, [Next]_vars
    PROVE  bad' /\ stream' = stream /\ accepted' = accepted
<1>1. ASSUME NEW units, WriteBytes(units) PROVE bad' /\ stream' = stream
  BY <1>1 DEF WriteBytes, Put, streamVars
<1>2. CASE UNCHANGED vars
  BY <1>2 DEF vars, callVars, streamVars
<1>3. CASE OpenNullPath \/ OpenFails \/ SetUnknown \/ CloseUnopened \/ CloseWithoutFooter
  BY <1>3 DEF OpenNullPath, OpenFails, SetUnknown, CloseUnopened, CloseWithoutFooter, streamVars
<1>4. CASE Open \/ CloseWritesFooter
  BY <1>1, <1>4 DEF Open, CloseWritesFooter
<1>5. CASE (\E c \in Codecs : SetCodec(c)) \/ (\E m \in Modes : SetEncoding(m))
  BY <1>5 DEF SetCodec, SetEncoding, streamVars
<1>6. CASE RefuseUnopened \/ \E b \in Batches : Batch(b)
  BY <1>6 DEF RefuseUnopened, Batch, RefuseArguments, RefuseSchema, RefuseShape, StartBatch, Refuse,
     streamVars
<1>7. CASE WriteLeaf
  BY <1>1, <1>7 DEF WriteLeaf
<1>8. CASE RefuseLeaf \/ FinishBatch
  BY <1>8 DEF RefuseLeaf, FinishBatch, AbandonBatch, streamVars
<1>9. CASE LeafThrows
  BY <1>1, <1>9 DEF LeafThrows, AbandonBatch
<1>10. CASE FlushAndFree \/ Crash
  BY <1>10 DEF FlushAndFree, Flush, Crash
<1>11. QED
  BY <1>2, <1>3, <1>4, <1>5, <1>6, <1>7, <1>8, <1>9, <1>10 DEF Next, BatchStep

\* Nothing follows the free of the writer, or the death of the process.
LEMMA EndStays ==
    ASSUME handle \in {"freed", "dead"}, [Next]_vars
    PROVE  UNCHANGED vars
BY DEF Next, OpenNullPath, Open, OpenFails, SetCodec, SetEncoding, SetUnknown, Usable,
     RefuseUnopened, Batch, RefuseArguments, RefuseSchema, RefuseShape, Refuse, StartBatch, BatchCall,
     BatchStep, WriteLeaf, RefuseLeaf, LeafThrows, AtLeaf, FinishBatch, CloseUnopened,
     CloseWritesFooter, CloseWithoutFooter, FlushAndFree, Crash

\* A batch is accepted by FinishBatch on a good stream and in no other way.
LEMMA AcceptedSteps ==
    ASSUME [Next]_vars, accepted' # accepted
    PROVE  /\ FinishBatch /\ ~bad
           /\ accepted' = Append(accepted, [batch |-> current.batch, rows |-> current.rows])
<1>1. FinishBatch
  BY DEF Next, vars, callVars, OpenNullPath, Open, OpenFails, SetCodec, SetEncoding, SetUnknown,
     RefuseUnopened, Batch, RefuseArguments, RefuseSchema, RefuseShape, Refuse, StartBatch,
     BatchStep, WriteLeaf, RefuseLeaf, LeafThrows, AbandonBatch, CloseUnopened,
     CloseWritesFooter, CloseWithoutFooter, FlushAndFree, Crash
<1>2. QED
  BY <1>1 DEF FinishBatch

------------------------------------------------------------------------------
(* The refinement. *)

\* Under the mapping, the row groups of the abstract file are the accepted batches.
MappedGroups == IF Complete(Disk) THEN ReadBack(Disk) ELSE accepted

LEMMA GroupsAreAccepted ==
    ASSUME TypeOK, IInv
    PROVE  MappedGroups = accepted
BY ReadBackIsAccepted DEF MappedGroups, SealedIsAccepted

\* Before a footer is in the stream the file is not complete.
LEMMA IncompleteWithoutFooter ==
    ASSUME TypeOK, EndInv, ~FooterTaken
    PROVE  ~Complete(Disk)
<1> SUFFICES ASSUME Complete(Disk) PROVE FALSE
  OBVIOUS
<1>1. synced - 2 \in 1 .. Len(stream) /\ stream[synced - 2].kind = "footer"
  BY CompleteIsAll
<1>2. stream \in Seq(Unit)
  BY DEF TypeOK
<1>3. stream # <<>> /\ synced - 2 \in DOMAIN stream
  BY <1>1, <1>2, EmptySeq
<1>4. QED
  BY <1>1, <1>3 DEF FooterTaken

\* Every step of the writer is a step of the abstract file, or leaves it alone.
LEMMA StepRefines ==
    ASSUME TypeOK, TypeOK', IInv, IInv', RInv, RInv', [Next]_vars
    PROVE  [File!Next]_File!vars
<1>1. MappedGroups = accepted /\ MappedGroups' = accepted'
  <2>1. MappedGroups = accepted
    BY GroupsAreAccepted
  <2>2. MappedGroups' = accepted'
    <3>1. (TypeOK /\ IInv => SealedIsAccepted)'
      BY ReadBackIsAccepted, PTL
    <3>2. QED
      BY <3>1 DEF MappedGroups, SealedIsAccepted
  <2>3. QED
    BY <2>1, <2>2
<1>2. FileState \in {"writing", "sealed", "lost"} /\ FileState' \in {"writing", "sealed", "lost"}
  BY DEF FileState
<1>3. CASE accepted' # accepted
  <2>1. /\ FinishBatch /\ ~bad
        /\ accepted' = Append(accepted, [batch |-> current.batch, rows |-> current.rows])
    BY <1>3, AcceptedSteps
  <2>2. /\ handle = "open" /\ handle' = "open" /\ pc = "leaf"
        /\ stream' = stream /\ synced' = synced /\ ~bad'
    BY <2>1 DEF FinishBatch, streamVars
  <2>3. ~FooterTaken
    <3>1. \A k \in 1 .. Len(stream) : stream[k].kind # "footer"
      BY <2>2, NoFooterYet DEF IInv
    <3>2. DOMAIN stream = 1 .. Len(stream)
      BY DEF TypeOK
    <3>3. QED
      BY <3>1, <3>2 DEF FooterTaken
  <2>4. ~Complete(Disk)
    BY <2>3, IncompleteWithoutFooter DEF RInv
  <2>5. Disk' = Disk
    BY <2>2 DEF Disk
  <2>6. FileState = "writing" /\ FileState' = "writing"
    BY <2>1, <2>2, <2>4, <2>5 DEF FileState, Complete
  <2> DEFINE g == [batch |-> current.batch, rows |-> current.rows]
  <2>7. g \in [batch : 1 .. MaxBatches, rows : {b.rows : b \in Batches}]
    BY <2>2 DEF RInv, CallsInv
  <2>8. File!Add(g)
    BY <1>1, <2>1, <2>6 DEF File!Add, MappedGroups
  <2>9. QED
    BY <2>7, <2>8 DEF File!Next
<1>4. CASE accepted' = accepted /\ FileState = "writing"
  BY <1>1, <1>2, <1>4 DEF File!Next, File!Seal, File!Lose, File!vars, MappedGroups
<1>5. CASE accepted' = accepted /\ FileState = "sealed"
  <2>1. Complete(Disk)
    BY <1>5 DEF FileState
  <2>2. Disk' = Disk
    BY <2>1, FooterIsLast DEF Disk, RInv
  <2>3. FileState' = "sealed"
    BY <2>1, <2>2 DEF FileState, Complete
  <2>4. QED
    BY <1>1, <1>5, <2>3 DEF File!vars, MappedGroups
<1>6. CASE accepted' = accepted /\ FileState = "lost"
  <2>1. FileState' = "lost"
    <3>1. CASE handle \in {"freed", "dead"}
      <4>1. UNCHANGED vars
        BY <3>1, EndStays
      <4>2. handle' = handle /\ Disk' = Disk
        BY <4>1 DEF vars, callVars, streamVars, Disk
      <4>3. QED
        BY <1>6, <3>1, <4>2 DEF FileState, Complete
    <3>2. CASE bad /\ ~FooterTaken
      <4>1. bad' /\ stream' = stream
        BY <3>2, BadStays
      <4>2. ~FooterTaken'
        BY <3>2, <4>1 DEF FooterTaken
      <4>3. ~Complete(Disk)'
        <5>1. (TypeOK /\ EndInv /\ ~FooterTaken => ~Complete(Disk))'
          BY IncompleteWithoutFooter, PTL
        <5>2. QED
          BY <4>2, <5>1 DEF RInv
      <4>4. QED
        BY <4>1, <4>2, <4>3 DEF FileState
    <3>3. QED
      BY <1>6, <3>1, <3>2 DEF FileState
  <2>2. QED
    BY <1>1, <1>6, <2>1 DEF File!vars, MappedGroups
<1>7. QED
  BY <1>2, <1>3, <1>4, <1>5, <1>6

LEMMA InitImplements == Init => File!Init
<1> SUFFICES ASSUME Init PROVE File!Init
  OBVIOUS
<1>1. TypeOK /\ IInv /\ RInv
  BY InitTyped, InitInv, InitRefines
<1>2. ~FooterTaken
  BY DEF Init, FooterTaken
<1>3. ~Complete(Disk)
  BY <1>1, <1>2, IncompleteWithoutFooter DEF RInv
<1>4. QED
  BY <1>3 DEF Init, File!Init, FileState

\* The writer keeps the promise of a Parquet file: once sealed a file stays as it
\* is, once lost it is never opened, and what a reader sees was accepted.
THEOREM Refinement == Spec => ImplementsParquetFile
<1>1. TypeOK /\ IInv /\ RInv /\ TypeOK' /\ IInv' /\ RInv' /\ [Next]_vars => [File!Next]_File!vars
  BY StepRefines
<1>2. QED
  BY <1>1, InitImplements, RefinesInvariant, PTL DEF Spec, ImplementsParquetFile, File!Spec

------------------------------------------------------------------------------
(* What the column chunks of a complete file cover: the pages of the         *)
(* accepted batches and no others, each page by one chunk; and the codec     *)
(* they are stamped with, for a caller that selects it before the first      *)
(* batch.                                                                    *)

IsPage(u) == u.kind \in {"dict", "data"}

------------------------------------------------------------------------------
(* The invariant. *)

\* Between the magic and the footer there are pages, of batches that have begun.
PagesInv ==
    /\ \A k \in 1 .. Len(stream) : IsPage(stream[k]) => stream[k].batch <= calls
    /\ handle = "open" /\ pc # "flush" => \A k \in 2 .. Len(stream) : IsPage(stream[k])
    /\ \A k \in 1 .. Len(stream) : stream[k].kind = "footer" =>
         \A j \in 2 .. k - 1 : IsPage(stream[j])

\* A batch goes by the number of its call, and is accepted once.
BatchInv ==
    /\ pc = "leaf" => current.batch = calls
    /\ \A r \in 1 .. Len(accepted) :
         accepted[r].batch <= calls /\ (pc = "leaf" => accepted[r].batch # calls)
    /\ \A q, r \in 1 .. Len(accepted) : accepted[q].batch = accepted[r].batch => q = r

\* A chunk goes from its first page to its data page.
Whole(c) ==
    /\ c.at = IF c.dictAt # 0 THEN c.dictAt ELSE c.dataAt
    /\ c.at + c.size = c.dataAt + 1
    /\ c.dictAt # 0 => c.dataAt = c.dictAt + 1
AllWhole(columns) == \A i \in 1 .. Len(columns) : Whole(columns[i])

WholeInv ==
    /\ pc = "leaf" => AllWhole(current.columns)
    /\ \A r \in 1 .. Len(rowGroups) : AllWhole(rowGroups[r].columns)
    /\ \A k \in 1 .. Len(stream) : stream[k].kind = "footer" =>
         \A r \in 1 .. Len(stream[k].groups) : AllWhole(stream[k].groups[r].columns)

\* Every page of batch b among the first n units lies in one of the chunks.
Covered(file, n, b, columns) ==
    \A k \in 1 .. n : IsPage(file[k]) /\ file[k].batch = b =>
      \E i \in 1 .. Len(columns) : InChunk(columns[i], k - 1)

CoverInv ==
    /\ pc = "leaf" /\ ~bad => Covered(stream, Len(stream), current.batch, current.columns)
    /\ ~bad => \A r \in 1 .. Len(accepted) :
                 Covered(stream, Len(stream), accepted[r].batch, rowGroups[r].columns)
    /\ \A k \in 1 .. Len(stream) : stream[k].kind = "footer" =>
         \A r \in 1 .. Len(accepted) :
           Covered(stream, k - 1, accepted[r].batch, stream[k].groups[r].columns)

TInv == PagesInv /\ BatchInv /\ WholeInv /\ CoverInv

Inv == TypeOK /\ IInv /\ RInv

------------------------------------------------------------------------------
(* The steps, by what they do to pages and chunks. *)

Quiet ==
    /\ UNCHANGED <<stream, rowGroups, accepted>>
    /\ calls <= calls'
    /\ pc' = "leaf" => pc = "leaf" /\ current' = current /\ calls' = calls
    /\ handle' = "open" /\ pc' # "flush" => handle = "open" /\ pc # "flush"
    /\ bad => bad'
    /\ codec' = codec \/ (pc = "idle" /\ handle \in {"open", "unopened"} /\ (CodecAnyTime \/ calls = 0))

LEMMA StepKinds ==
    ASSUME TypeOK, [Next]_vars
    PROVE  \/ Quiet \/ Open \/ (\E b \in Batches : StartBatch(b))
           \/ WriteLeaf \/ LeafThrows \/ FinishBatch \/ CloseWritesFooter
<1>1. calls \in Nat
  BY DEF TypeOK
<1>2. CASE UNCHANGED vars
  BY <1>1, <1>2 DEF vars, callVars, streamVars, groupVars, Quiet
<1>3. CASE OpenNullPath \/ OpenFails \/ SetUnknown \/ CloseUnopened \/ CloseWithoutFooter
  BY <1>1, <1>3 DEF OpenNullPath, OpenFails, SetUnknown, CloseUnopened, CloseWithoutFooter, Usable,
     Return, streamVars, groupVars, Quiet
<1>4. CASE \E c \in Codecs : SetCodec(c)
  BY <1>1, <1>4 DEF SetCodec, Usable, Return, streamVars, groupVars, Quiet
<1>5. CASE \E m \in Modes : SetEncoding(m)
  BY <1>1, <1>5 DEF SetEncoding, Usable, Return, streamVars, groupVars, Quiet
<1>6. ASSUME NEW status, Refuse(status) PROVE Quiet
  BY <1>1, <1>6 DEF Refuse, BatchCall, Return, streamVars, groupVars, Quiet
<1>7. CASE RefuseLeaf
  BY <1>1, <1>7 DEF RefuseLeaf, AtLeaf, AbandonBatch, Return, streamVars, groupVars, Quiet
<1>8. CASE FlushAndFree
  BY <1>1, <1>8 DEF FlushAndFree, Flush, Return, groupVars, Quiet
<1>9. CASE Crash
  BY <1>1, <1>9 DEF Crash, groupVars, Quiet
<1>10. QED
  BY <1>2, <1>3, <1>4, <1>5, <1>6, <1>7, <1>8, <1>9 DEF Next, Batch, BatchStep, RefuseUnopened,
     RefuseArguments, RefuseSchema, RefuseShape

\* The pages of a leaf name its batch and the codec.
LEMMA PagesOfBatch ==
    ASSUME TypeOK, NEW enc \in Encodings
    PROVE  \A k \in 1 .. Len(Pages(enc)) :
             /\ IsPage(Pages(enc)[k]) /\ Pages(enc)[k].kind # "footer"
             /\ Pages(enc)[k].batch = current.batch /\ Pages(enc)[k].codec = codec
BY PagesAreUnits DEF Pages, Page, IsPage

\* serialize_footer copies the places of the chunks and stamps the codec.
LEMMA FooterGroupCopies ==
    ASSUME NEW g, g.columns \in Seq(Chunk)
    PROVE  LET h == FooterGroup(g)
           IN /\ Len(h.columns) = Len(g.columns)
              /\ \A i \in 1 .. Len(g.columns) :
                   /\ h.columns[i].at = g.columns[i].at /\ h.columns[i].size = g.columns[i].size
                   /\ h.columns[i].dictAt = g.columns[i].dictAt
                   /\ h.columns[i].dataAt = g.columns[i].dataAt
                   /\ h.columns[i].codec = codec
<1> DEFINE h == FooterGroup(g)
<1>1. h.columns = [i \in 1 .. Len(g.columns) |-> FooterColumn(g.columns[i])]
  BY DEF FooterGroup
<1>2. Len(h.columns) = Len(g.columns)
  BY <1>1
<1>3. ASSUME NEW i \in 1 .. Len(g.columns)
      PROVE  /\ h.columns[i].at = g.columns[i].at /\ h.columns[i].size = g.columns[i].size
             /\ h.columns[i].dictAt = g.columns[i].dictAt
             /\ h.columns[i].dataAt = g.columns[i].dataAt
             /\ h.columns[i].codec = codec
  <2>1. h.columns[i] = FooterColumn(g.columns[i])
    BY <1>1
  <2> HIDE DEF h
  <2>2. QED
    BY <2>1 DEF FooterColumn
<1>4. QED
  BY <1>2, <1>3

\* What close puts into a stream: nothing before the footer changes, and a footer
\* that is in lists the row groups recorded in a good stream.
LEMMA FooterStep ==
    ASSUME TypeOK, IInv, CloseWritesFooter
    PROVE  /\ handle = "open" /\ pc = "idle" /\ handle' = "open" /\ pc' = "flush"
           /\ UNCHANGED <<current, calls, accepted, rowGroups, codec>>
           /\ stream' \in Seq(Unit) /\ Len(stream) \in Nat /\ Len(stream') \in Nat
           /\ Len(stream) <= Len(stream')
           /\ \A k \in 1 .. Len(stream) : stream'[k] = stream[k] /\ stream[k].kind # "footer"
           /\ \A k \in Len(stream) + 1 .. Len(stream') : ~IsPage(stream'[k])
           /\ \A k \in 1 .. Len(stream') : stream'[k].kind = "footer" =>
                /\ k = Len(stream) + 1 /\ stream'[k] = Footer /\ ~bad
                /\ Len(rowGroups) = Len(accepted)
           /\ ~bad' => ~bad
<1> DEFINE units == <<Footer, FooterLength, Magic>>
           L == Len(stream)
<1>1. /\ handle = "open" /\ pc = "idle" /\ pc' = "flush" /\ WriteBytes(units)
      /\ UNCHANGED <<handle, current, calls, accepted, rowGroups, codec>>
  BY DEF CloseWritesFooter, groupVars
<1>2. /\ units \in Seq(Unit) /\ Len(units) = 3
      /\ units[1] = Footer /\ units[2] = FooterLength /\ units[3] = Magic
  BY FooterIsUnit DEF FooterLength, Magic, Unit
<1> HIDE DEF units
<1>3. /\ stream' \in Seq(Unit)
      /\ L <= Len(stream') /\ Len(stream') <= L + 3
      /\ \A k \in 1 .. L : stream'[k] = stream[k]
      /\ \A k \in L + 1 .. Len(stream') : stream'[k] = units[k - L]
      /\ ~bad' => ~bad
      /\ bad => stream' = stream
  BY <1>1, <1>2, WriteBytesExtends
<1>4. stream \in Seq(Unit)
  BY DEF TypeOK
<1>5. L \in Nat /\ Len(stream') \in Nat
  BY <1>3, <1>4
<1>6. \A k \in 1 .. L : stream[k].kind # "footer"
  BY <1>1, NoFooterYet DEF IInv
<1>7. ~IsPage(Footer) /\ ~IsPage(FooterLength) /\ ~IsPage(Magic)
      /\ FooterLength.kind # "footer" /\ Magic.kind # "footer"
  BY FooterIsUnit DEF IsPage, FooterLength, Magic
<1>8. ASSUME NEW k \in L + 1 .. Len(stream')
      PROVE  /\ k - L \in {1, 2, 3}
             /\ stream'[k] = units[k - L]
  BY <1>3, <1>5
<1>9. \A k \in L + 1 .. Len(stream') : ~IsPage(stream'[k])
  BY <1>2, <1>7, <1>8
<1>10. ASSUME NEW k \in 1 .. Len(stream'), stream'[k].kind = "footer"
       PROVE  k = L + 1 /\ stream'[k] = Footer /\ ~bad /\ Len(rowGroups) = Len(accepted)
  <2>1. k \in L + 1 .. Len(stream')
    BY <1>3, <1>5, <1>6, <1>10
  <2>2. k - L = 1
    BY <1>2, <1>7, <1>8, <1>10, <2>1
  <2>3. ~bad
    BY <1>3, <1>5, <2>1
  <2>4. QED
    BY <1>2, <1>3, <1>5, <2>1, <2>2, <2>3 DEF IInv, GroupsInv
<1>11. QED
  BY <1>1, <1>3, <1>5, <1>6, <1>9, <1>10

------------------------------------------------------------------------------
(* The invariant is inductive: pages and batches. *)

LEMMA PagesKept ==
    ASSUME TypeOK, TypeOK', IInv, PagesInv, BatchInv, [Next]_vars
    PROVE  PagesInv'
<1>0. /\ stream \in Seq(Unit) /\ Len(stream) \in Nat /\ calls \in Nat
      /\ \A k \in 1 .. Len(stream) : IsPage(stream[k]) => stream[k].batch \in Nat
  <2>1. stream \in Seq(Unit) /\ calls \in Nat
    BY DEF TypeOK
  <2>2. ASSUME NEW k \in 1 .. Len(stream), IsPage(stream[k]) PROVE stream[k].batch \in Nat
    <3>1. stream[k] \in Unit
      BY <2>1, ElementOfSeq
    <3> DEFINE u == stream[k]
    <3>2. u \in Unit /\ u.kind \in {"dict", "data"}
      BY <2>2, <3>1 DEF IsPage
    <3> HIDE DEF u
    <3>3. u.batch \in Nat
      BY <3>2 DEF Unit
    <3>4. QED
      BY <3>3 DEF u
  <2>3. QED
    BY <2>1, <2>2
<1>1. CASE Quiet
  <2>1. stream' = stream /\ calls <= calls' /\ calls' \in Nat
        /\ (handle' = "open" /\ pc' # "flush" => handle = "open" /\ pc # "flush")
    BY <1>1 DEF Quiet, TypeOK
  <2>2. ASSUME NEW k \in 1 .. Len(stream), IsPage(stream[k]) PROVE stream[k].batch <= calls'
    BY <1>0, <2>1, <2>2 DEF PagesInv
  <2>3. QED
    BY <2>1, <2>2 DEF PagesInv
\* Units that are all pages of the current batch, or the magic of a fresh file.
<1>2. ASSUME NEW units \in Seq(Unit), WriteBytes(units), calls' = calls,
             \/ stream = <<>> /\ units = <<Magic>>
             \/ /\ handle = "open" /\ pc = "leaf"
                /\ \A k \in 1 .. Len(units) : /\ IsPage(units[k]) /\ units[k].kind # "footer"
                                             /\ units[k].batch = current.batch
      PROVE  PagesInv'
  <2>1. /\ stream' \in Seq(Unit) /\ Len(stream') <= Len(stream) + Len(units)
        /\ \A k \in 1 .. Len(stream) : stream'[k] = stream[k]
        /\ \A k \in Len(stream) + 1 .. Len(stream') : stream'[k] = units[k - Len(stream)]
    BY <1>2, WriteBytesExtends
  <2>2. Len(units) \in Nat /\ Len(stream') \in Nat
    BY <2>1
  <2>3. CASE stream = <<>> /\ units = <<Magic>>
    <3>1. Len(stream) = 0 /\ Len(units) = 1 /\ units[1] = Magic
      BY <2>3
    <3>2. \A k \in 1 .. Len(stream') : k = 1 /\ stream'[k] = Magic
      BY <2>1, <2>2, <3>1
    <3>3. ~IsPage(Magic) /\ Magic.kind # "footer"
      BY DEF Magic, IsPage
    <3>4. 2 .. Len(stream') = {}
      BY <2>1, <2>2, <3>1
    <3>5. QED
      BY <3>2, <3>3, <3>4 DEF PagesInv
  <2>4. CASE /\ handle = "open" /\ pc = "leaf"
             /\ \A k \in 1 .. Len(units) : /\ IsPage(units[k]) /\ units[k].kind # "footer"
                                          /\ units[k].batch = current.batch
    <3>1. ASSUME NEW k \in Len(stream) + 1 .. Len(stream')
          PROVE  IsPage(stream'[k]) /\ stream'[k].kind # "footer" /\ stream'[k].batch = calls
      <4>1. k - Len(stream) \in 1 .. Len(units)
        BY <1>0, <2>1, <2>2
      <4>2. QED
        BY <2>1, <2>4, <4>1 DEF BatchInv
    <3>2. \A k \in 1 .. Len(stream) : stream[k].kind # "footer"
      BY <2>4, NoFooterYet DEF IInv
    <3>3. \A k \in 1 .. Len(stream') : k \in 1 .. Len(stream) \/ k \in Len(stream) + 1 .. Len(stream')
      BY <1>0, <2>2
    <3>4. ASSUME NEW k \in 1 .. Len(stream') PROVE stream'[k].kind # "footer"
      BY <2>1, <3>1, <3>2, <3>3
    <3>5. ASSUME NEW k \in 1 .. Len(stream'), IsPage(stream'[k]) PROVE stream'[k].batch <= calls
      <4>1. CASE k \in 1 .. Len(stream)
        BY <2>1, <3>5, <4>1 DEF PagesInv
      <4>2. CASE k \in Len(stream) + 1 .. Len(stream')
        BY <1>0, <3>1, <4>2
      <4>3. QED
        BY <3>3, <4>1, <4>2
    <3>6. ASSUME NEW k \in 2 .. Len(stream') PROVE IsPage(stream'[k])
      <4>1. k \in 2 .. Len(stream) \/ k \in Len(stream) + 1 .. Len(stream')
        BY <1>0, <2>2
      <4>2. CASE k \in 2 .. Len(stream)
        <5>1. IsPage(stream[k]) /\ k \in 1 .. Len(stream)
          BY <1>0, <2>4, <4>2 DEF PagesInv
        <5>2. QED
          BY <2>1, <5>1
      <4>3. CASE k \in Len(stream) + 1 .. Len(stream')
        BY <3>1, <4>3
      <4>4. QED
        BY <4>1, <4>2, <4>3
    <3>7. QED
      BY <1>2, <3>4, <3>5, <3>6 DEF PagesInv
  <2>5. QED
    BY <1>2, <2>3, <2>4
<1>3. CASE Open
  <2>1. stream = <<>> /\ WriteBytes(<<Magic>>) /\ calls' = calls
    BY <1>3 DEF Open, IInv, OffsetInv
  <2>2. <<Magic>> \in Seq(Unit)
    BY DEF Magic, Unit
  <2>3. QED
    BY <1>2, <2>1, <2>2
<1>4. CASE \E b \in Batches : StartBatch(b)
  <2>1. /\ stream' = stream /\ handle = "open" /\ pc = "idle" /\ pc' = "leaf" /\ calls' = calls + 1
    BY <1>4 DEF StartBatch, BatchCall, streamVars
  <2>2. ASSUME NEW k \in 1 .. Len(stream), IsPage(stream[k]) PROVE stream[k].batch <= calls'
    BY <1>0, <2>1, <2>2 DEF PagesInv
  <2>3. QED
    BY <2>1, <2>2 DEF PagesInv
<1>5. CASE WriteLeaf
  <2>1. PICK enc \in CurrentLayouts : WriteBytes(Pages(enc))
    BY <1>5 DEF WriteLeaf
  <2>2. enc \in Encodings
    BY <2>1, LayoutsAreEncodings DEF CurrentLayouts, TypeOK
  <2>3. handle = "open" /\ pc = "leaf" /\ calls' = calls
    BY <1>5 DEF WriteLeaf, AtLeaf
  <2>4. QED
    BY <1>2, <2>1, <2>2, <2>3, PagesAreUnits, PagesOfBatch
<1>6. CASE LeafThrows
  <2>1. PICK enc \in CurrentLayouts : \E n \in 0 .. Len(Pages(enc)) - 1 :
          WriteBytes(SubSeq(Pages(enc), 1, n))
    BY <1>6 DEF LeafThrows
  <2>2. PICK n \in 0 .. Len(Pages(enc)) - 1 : WriteBytes(SubSeq(Pages(enc), 1, n))
    BY <2>1
  <2>3. enc \in Encodings
    BY <2>1, LayoutsAreEncodings DEF CurrentLayouts, TypeOK
  <2> DEFINE units == SubSeq(Pages(enc), 1, n)
  <2>4. units \in Seq(Unit) /\ Len(units) = n /\ \A k \in 1 .. n : units[k] = Pages(enc)[k]
    BY <2>2, <2>3, PagesAreUnits, SubSeqProperties
  <2>5. \A k \in 1 .. n : k \in 1 .. Len(Pages(enc))
    BY <2>2, <2>3, PagesAreUnits
  <2>6. handle = "open" /\ pc = "leaf" /\ calls' = calls
    BY <1>6 DEF LeafThrows, AtLeaf, AbandonBatch
  <2> HIDE DEF units
  <2>7. \A k \in 1 .. Len(units) : /\ IsPage(units[k]) /\ units[k].kind # "footer"
                                  /\ units[k].batch = current.batch
    BY <2>3, <2>4, <2>5, PagesOfBatch
  <2>8. QED
    BY <1>2, <2>2, <2>4, <2>6, <2>7 DEF units
<1>7. CASE FinishBatch
  <2>1. stream' = stream /\ handle = "open" /\ pc = "leaf" /\ calls' = calls
    BY <1>7 DEF FinishBatch, streamVars
  <2>2. QED
    BY <2>1 DEF PagesInv
<1>8. CASE CloseWritesFooter
  <2>1. /\ handle = "open" /\ pc = "idle" /\ pc' = "flush" /\ calls' = calls
        /\ stream' \in Seq(Unit) /\ Len(stream') \in Nat
        /\ Len(stream) <= Len(stream')
        /\ \A k \in 1 .. Len(stream) : stream'[k] = stream[k] /\ stream[k].kind # "footer"
        /\ \A k \in Len(stream) + 1 .. Len(stream') : ~IsPage(stream'[k])
        /\ \A k \in 1 .. Len(stream') : stream'[k].kind = "footer" => k = Len(stream) + 1
    BY <1>8, FooterStep
  <2>2. ASSUME NEW k \in 1 .. Len(stream'), IsPage(stream'[k]) PROVE stream'[k].batch <= calls
    <3>1. k \in 1 .. Len(stream)
      BY <1>0, <2>1, <2>2
    <3>2. QED
      BY <2>1, <2>2, <3>1 DEF PagesInv
  <2>3. \A j \in 2 .. Len(stream) : IsPage(stream'[j])
    <3>1. \A j \in 2 .. Len(stream) : IsPage(stream[j]) /\ j \in 1 .. Len(stream)
      BY <1>0, <2>1 DEF PagesInv
    <3>2. QED
      BY <2>1, <3>1
  <2>4. ASSUME NEW k \in 1 .. Len(stream'), stream'[k].kind = "footer", NEW j \in 2 .. k - 1
        PROVE  IsPage(stream'[j])
    <3>1. k = Len(stream) + 1
      BY <2>1, <2>4
    <3>2. j \in 2 .. Len(stream)
      BY <1>0, <3>1
    <3>3. QED
      BY <2>3, <3>2
  <2>5. QED
    BY <2>1, <2>2, <2>4 DEF PagesInv
<1>9. QED
  BY <1>1, <1>3, <1>4, <1>5, <1>6, <1>7, <1>8, StepKinds

LEMMA AppendedBatch ==
    ASSUME NEW s \in Seq([batch : Nat, rows : Nat]), NEW a \in [batch : Nat, rows : Nat]
    PROVE  /\ Len(s) \in Nat /\ Len(Append(s, a)) = Len(s) + 1
           /\ Append(s, a)[Len(s) + 1] = a
           /\ \A r \in 1 .. Len(s) : Append(s, a)[r] = s[r]
BY AppendProperties

LEMMA BatchKept ==
    ASSUME TypeOK, TypeOK', BatchInv, [Next]_vars
    PROVE  BatchInv'
<1>0. calls \in Nat /\ accepted \in Seq([batch : Nat, rows : Nat])
      /\ \A r \in 1 .. Len(accepted) : accepted[r].batch \in Nat
  <2>1. calls \in Nat /\ accepted \in Seq([batch : Nat, rows : Nat])
    BY DEF TypeOK
  <2>2. ASSUME NEW r \in 1 .. Len(accepted) PROVE accepted[r].batch \in Nat
    <3>1. accepted[r] \in [batch : Nat, rows : Nat]
      BY <2>1, ElementOfSeq
    <3>2. QED
      BY <3>1
  <2>3. QED
    BY <2>1, <2>2
<1>1. CASE Quiet
  <2>1. /\ accepted' = accepted /\ calls <= calls' /\ calls' \in Nat
        /\ pc' = "leaf" => pc = "leaf" /\ current' = current /\ calls' = calls
    BY <1>1 DEF Quiet, TypeOK
  <2>2. ASSUME NEW r \in 1 .. Len(accepted)
        PROVE  accepted[r].batch <= calls' /\ (pc' = "leaf" => accepted[r].batch # calls')
    BY <1>0, <2>1 DEF BatchInv
  <2>3. QED
    BY <2>1, <2>2 DEF BatchInv
<1>2. CASE \E b \in Batches : StartBatch(b)
  <2>1. accepted' = accepted /\ calls' = calls + 1 /\ current'.batch = calls'
    BY <1>2 DEF StartBatch, BatchCall
  <2>2. ASSUME NEW r \in 1 .. Len(accepted)
        PROVE  accepted[r].batch <= calls' /\ accepted[r].batch # calls'
    BY <1>0, <2>1 DEF BatchInv
  <2>3. QED
    BY <2>1, <2>2 DEF BatchInv
<1>3. CASE WriteLeaf
  <2>1. UNCHANGED <<accepted, calls, pc>>
    BY <1>3 DEF WriteLeaf
  <2>2. PICK enc \in CurrentLayouts : current' = [current EXCEPT !.columns = Append(@, ChunkFor(enc))]
    BY <1>3 DEF WriteLeaf
  <2>3. current'.batch = current.batch
    BY <2>2 DEF TypeOK
  <2>4. QED
    BY <2>1, <2>3 DEF BatchInv
<1>4. CASE Open \/ LeafThrows \/ CloseWritesFooter
  <2>1. UNCHANGED <<accepted, calls>> /\ pc' # "leaf"
    BY <1>4 DEF Open, LeafThrows, AbandonBatch, CloseWritesFooter, Return
  <2>2. QED
    BY <2>1 DEF BatchInv
<1>5. CASE FinishBatch
  <2>1. /\ pc = "leaf" /\ pc' = "idle" /\ calls' = calls
        /\ \/ accepted' = accepted
           \/ accepted' = Append(accepted, [batch |-> current.batch, rows |-> current.rows])
    BY <1>5 DEF FinishBatch, Return
  <2>2. CASE accepted' = accepted
    BY <2>1, <2>2 DEF BatchInv
  <2>3. CASE accepted' = Append(accepted, [batch |-> current.batch, rows |-> current.rows])
    <3> DEFINE a == [batch |-> current.batch, rows |-> current.rows]
               n == Len(accepted)
    <3>1. a \in [batch : Nat, rows : Nat] /\ a.batch = calls
      BY <2>1 DEF TypeOK, BatchInv
    <3> HIDE DEF a
    <3>2. /\ Len(accepted') = n + 1 /\ accepted'[n + 1] = a /\ n \in Nat
          /\ \A r \in 1 .. n : accepted'[r] = accepted[r]
      <4>1. accepted' = Append(accepted, a)
        BY <2>3 DEF a
      <4>2. QED
        BY <1>0, <3>1, <4>1, AppendedBatch
    <3>3. \A r \in 1 .. n : accepted[r].batch <= calls /\ accepted[r].batch # calls
      BY <2>1 DEF BatchInv
    <3>4. \A r \in 1 .. n + 1 : accepted'[r].batch <= calls
      <4>1. calls \in Nat /\ accepted'[n + 1].batch = calls
        BY <1>0, <3>1, <3>2
      <4>2. \A r \in 1 .. n : accepted'[r].batch <= calls
        BY <3>2, <3>3
      <4>3. \A r \in 1 .. n + 1 : r = n + 1 \/ r \in 1 .. n
        BY <3>2
      <4>4. QED
        BY <4>1, <4>2, <4>3
    <3>5. ASSUME NEW q \in 1 .. n + 1, NEW r \in 1 .. n + 1, accepted'[q].batch = accepted'[r].batch
          PROVE  q = r
      <4>1. CASE q \in 1 .. n /\ r \in 1 .. n
        <5>1. accepted[q].batch = accepted[r].batch
          BY <3>2, <3>5, <4>1
        <5>2. QED
          BY <4>1, <5>1 DEF BatchInv
      <4>2. CASE q = n + 1 /\ r \in 1 .. n
        BY <3>1, <3>2, <3>3, <3>5, <4>2
      <4>3. CASE q \in 1 .. n /\ r = n + 1
        BY <3>1, <3>2, <3>3, <3>5, <4>3
      <4>4. QED
        BY <3>2, <4>1, <4>2, <4>3
    <3>6. QED
      BY <2>1, <3>2, <3>4, <3>5 DEF BatchInv
  <2>4. QED
    BY <2>1, <2>2, <2>3
<1>6. QED
  BY <1>1, <1>2, <1>3, <1>4, <1>5, StepKinds

------------------------------------------------------------------------------
(* The invariant is inductive: chunks. *)

\* A step after which the writer is open and not closing leaves no footer behind.
LEMMA NoFooterAfter ==
    ASSUME IInv', handle' = "open", pc' # "flush"
    PROVE  \A k \in 1 .. Len(stream') : stream'[k].kind # "footer"
<1>1. (FooterInv /\ handle = "open" /\ pc # "flush"
         => \A k \in 1 .. Len(stream) : stream[k].kind # "footer")'
  BY NoFooterYet, PTL
<1>2. QED
  BY <1>1 DEF IInv

\* The pages of a chunk lie next to each other.
LEMMA ChunkForWhole ==
    ASSUME TypeOK, OffsetInv, handle = "open", NEW enc \in Encodings
    PROVE  Whole(ChunkFor(enc))
<1>1. offset \in Nat /\ offset > 0
  BY DEF TypeOK, OffsetInv
<1> DEFINE c == ChunkFor(enc)
<1>2. /\ c.at = offset /\ c.size = IF enc = "RLE_DICTIONARY" THEN 2 ELSE 1
      /\ c.dictAt = IF enc = "RLE_DICTIONARY" THEN offset ELSE 0
      /\ c.dataAt = IF enc = "RLE_DICTIONARY" THEN offset + 1 ELSE offset
  BY PagesAreUnits DEF ChunkFor
<1> HIDE DEF c
<1>3. Whole(c)
  BY <1>1, <1>2 DEF Whole
<1>4. QED
  BY <1>3 DEF c

\* What a leaf that is written adds to the batch in progress.
LEMMA LeafStep ==
    ASSUME TypeOK, WriteLeaf
    PROVE  \E enc \in Encodings :
             /\ WriteBytes(Pages(enc))
             /\ current'.batch = current.batch
             /\ current.columns \in Seq(Chunk) /\ ChunkFor(enc) \in Chunk
             /\ Len(current'.columns) = Len(current.columns) + 1
             /\ \A i \in 1 .. Len(current.columns) : current'.columns[i] = current.columns[i]
             /\ current'.columns[Len(current.columns) + 1] = ChunkFor(enc)
<1>1. PICK enc \in CurrentLayouts :
        WriteBytes(Pages(enc)) /\ current' = [current EXCEPT !.columns = Append(@, ChunkFor(enc))]
  BY DEF WriteLeaf
<1>2. enc \in Encodings
  BY <1>1, LayoutsAreEncodings DEF CurrentLayouts, TypeOK
<1>3. ChunkFor(enc) \in Chunk
  BY <1>2, ChunkForTyped
<1>4. current \in [batch : Nat, rows : Nat, columns : Seq(Chunk)]
  BY DEF TypeOK
<1>5. current.columns \in Seq(Chunk)
  BY <1>4
<1>6. current'.columns = Append(current.columns, ChunkFor(enc)) /\ current'.batch = current.batch
  BY <1>1, <1>4
<1>7. /\ Len(current'.columns) = Len(current.columns) + 1
      /\ \A i \in 1 .. Len(current.columns) : current'.columns[i] = current.columns[i]
      /\ current'.columns[Len(current.columns) + 1] = ChunkFor(enc)
  BY <1>3, <1>5, <1>6, AppendProperties
<1>8. QED
  BY <1>1, <1>2, <1>3, <1>5, <1>6, <1>7

\* What a finished batch adds to the row groups.
LEMMA GroupStep ==
    ASSUME TypeOK, FinishBatch
    PROVE  /\ Len(rowGroups) \in Nat /\ Len(rowGroups') = Len(rowGroups) + 1
           /\ \A r \in 1 .. Len(rowGroups) : rowGroups'[r] = rowGroups[r]
           /\ rowGroups'[Len(rowGroups) + 1].columns = current.columns
<1> DEFINE g == [rows |-> current.rows, columns |-> current.columns]
<1>1. g \in [rows : Nat, columns : Seq(Chunk)] /\ g.columns = current.columns
  BY DEF TypeOK
<1>2. rowGroups \in Seq([rows : Nat, columns : Seq(Chunk)]) /\ rowGroups' = Append(rowGroups, g)
  BY DEF TypeOK, FinishBatch
<1> HIDE DEF g
<1>3. /\ Len(Append(rowGroups, g)) = Len(rowGroups) + 1
      /\ Append(rowGroups, g)[Len(rowGroups) + 1] = g
      /\ \A r \in 1 .. Len(rowGroups) : Append(rowGroups, g)[r] = rowGroups[r]
  BY <1>1, <1>2, AppendProperties
<1>4. QED
  BY <1>1, <1>2, <1>3

\* The footer's row group r is the recorded one.
LEMMA FooterGroups ==
    ASSUME TypeOK, NEW r \in 1 .. Len(rowGroups)
    PROVE  /\ rowGroups[r].columns \in Seq(Chunk)
           /\ Footer.groups[r] = FooterGroup(rowGroups[r])
<1>1. rowGroups[r] \in [rows : Nat, columns : Seq(Chunk)]
  BY ElementOfSeq DEF TypeOK
<1>2. Footer.groups[r] = FooterGroup(rowGroups[r])
  BY FooterIsUnit DEF Footer
<1>3. QED
  BY <1>1, <1>2

LEMMA WholeKept ==
    ASSUME TypeOK, TypeOK', IInv, IInv', WholeInv, [Next]_vars
    PROVE  WholeInv'
<1>1. CASE Quiet
  BY <1>1 DEF Quiet, WholeInv
<1>2. CASE Open \/ LeafThrows
  <2>1. handle' = "open" /\ pc' = "idle" /\ rowGroups' = rowGroups
    BY <1>2 DEF Open, LeafThrows, AtLeaf, AbandonBatch, Return, groupVars
  <2>2. QED
    BY <2>1, NoFooterAfter DEF WholeInv
<1>3. CASE \E b \in Batches : StartBatch(b)
  <2>1. /\ handle' = "open" /\ pc' = "leaf" /\ rowGroups' = rowGroups /\ current'.columns = <<>>
    BY <1>3 DEF StartBatch, groupVars
  <2>2. AllWhole(current'.columns)
    BY <2>1 DEF AllWhole
  <2>3. QED
    BY <2>1, <2>2, NoFooterAfter DEF WholeInv
<1>4. CASE WriteLeaf
  <2>1. /\ handle = "open" /\ handle' = "open" /\ pc = "leaf" /\ pc' = "leaf"
        /\ rowGroups' = rowGroups
    BY <1>4 DEF WriteLeaf, AtLeaf, groupVars
  <2>2. PICK enc \in Encodings :
             /\ Len(current'.columns) = Len(current.columns) + 1
             /\ \A i \in 1 .. Len(current.columns) : current'.columns[i] = current.columns[i]
             /\ current'.columns[Len(current.columns) + 1] = ChunkFor(enc)
             /\ current.columns \in Seq(Chunk)
    BY <1>4, LeafStep
  <2>3. Whole(ChunkFor(enc))
    BY <2>1, ChunkForWhole DEF IInv
  <2>4. AllWhole(current.columns)
    BY <2>1 DEF WholeInv
  <2>5. AllWhole(current'.columns)
    BY <2>2, <2>3, <2>4 DEF AllWhole
  <2>6. QED
    BY <2>1, <2>5, NoFooterAfter DEF WholeInv
<1>5. CASE FinishBatch
  <2>1. handle' = "open" /\ pc = "leaf" /\ pc' = "idle"
    BY <1>5 DEF FinishBatch, Return
  <2>2. ASSUME NEW r \in 1 .. Len(rowGroups') PROVE AllWhole(rowGroups'[r].columns)
    <3>1. CASE r \in 1 .. Len(rowGroups)
      BY <1>5, <3>1, GroupStep DEF WholeInv
    <3>2. CASE r = Len(rowGroups) + 1
      BY <1>5, <2>1, <3>2, GroupStep DEF WholeInv
    <3>3. QED
      BY <1>5, <3>1, <3>2, GroupStep
  <2>3. QED
    BY <2>1, <2>2, NoFooterAfter DEF WholeInv
<1>6. CASE CloseWritesFooter
  <2>1. /\ pc' = "flush" /\ rowGroups' = rowGroups
        /\ \A k \in 1 .. Len(stream') : stream'[k].kind = "footer" => stream'[k] = Footer
    BY <1>6, FooterStep
  <2>2. ASSUME NEW r \in 1 .. Len(rowGroups) PROVE AllWhole(Footer.groups[r].columns)
    <3> DEFINE g == rowGroups[r]
    <3>1. g.columns \in Seq(Chunk) /\ Footer.groups[r] = FooterGroup(g) /\ AllWhole(g.columns)
      BY FooterGroups DEF WholeInv
    <3> HIDE DEF g
    <3>2. AllWhole(FooterGroup(g).columns)
      BY <3>1, FooterGroupCopies DEF AllWhole, Whole
    <3>3. QED
      BY <3>1, <3>2
  <2>3. ASSUME NEW k \in 1 .. Len(stream'), stream'[k].kind = "footer",
               NEW r \in 1 .. Len(stream'[k].groups)
        PROVE  AllWhole(stream'[k].groups[r].columns)
    <3>1. stream'[k] = Footer /\ r \in 1 .. Len(rowGroups)
      BY <2>1, <2>3, FooterIsUnit
    <3>2. QED
      BY <2>2, <3>1
  <2>4. QED
    BY <2>1, <2>3 DEF WholeInv
<1>7. QED
  BY <1>1, <1>2, <1>3, <1>4, <1>5, <1>6, StepKinds

\* Chunks that cover the pages of a batch still do when what follows is of others.
LEMMA CoveredGrows ==
    ASSUME NEW old, NEW new, NEW n \in Nat, NEW m \in Nat, NEW b, NEW columns,
           Covered(old, n, b, columns),
           \A k \in 1 .. n : new[k] = old[k],
           \A k \in n + 1 .. m : IsPage(new[k]) => new[k].batch # b
    PROVE  Covered(new, m, b, columns)
<1> SUFFICES ASSUME NEW k \in 1 .. m, IsPage(new[k]), new[k].batch = b
             PROVE  \E i \in 1 .. Len(columns) : InChunk(columns[i], k - 1)
  BY DEF Covered
<1>1. k \in 1 .. n
  OBVIOUS
<1>2. QED
  BY <1>1 DEF Covered

\* The accepted batches stay covered when pages of the batch in progress are written.
LEMMA AcceptedStayCovered ==
    ASSUME TypeOK, BatchInv, CoverInv, NEW units \in Seq(Unit), WriteBytes(units), ~bad',
           \A k \in 1 .. Len(units) : IsPage(units[k]) => pc = "leaf" /\ units[k].batch = calls,
           NEW r \in 1 .. Len(accepted)
    PROVE  Covered(stream', Len(stream'), accepted[r].batch, rowGroups[r].columns)
<1>1. /\ stream' \in Seq(Unit) /\ Len(stream') <= Len(stream) + Len(units)
      /\ \A k \in 1 .. Len(stream) : stream'[k] = stream[k]
      /\ \A k \in Len(stream) + 1 .. Len(stream') : stream'[k] = units[k - Len(stream)]
      /\ ~bad
  BY WriteBytesExtends
<1>2. Len(stream) \in Nat /\ Len(stream') \in Nat /\ Len(units) \in Nat
  <2>1. stream \in Seq(Unit) /\ stream' \in Seq(Unit)
    BY <1>1 DEF TypeOK
  <2>2. QED
    BY <2>1, LenProperties
<1>3. Covered(stream, Len(stream), accepted[r].batch, rowGroups[r].columns)
  BY <1>1 DEF CoverInv
<1>4. ASSUME NEW k \in Len(stream) + 1 .. Len(stream'), IsPage(stream'[k])
      PROVE  stream'[k].batch # accepted[r].batch
  <2>1. k - Len(stream) \in 1 .. Len(units) /\ stream'[k] = units[k - Len(stream)]
    BY <1>1, <1>2
  <2>2. pc = "leaf" /\ stream'[k].batch = calls
    BY <1>4, <2>1
  <2>3. QED
    BY <2>2 DEF BatchInv
<1>5. QED
  BY <1>1, <1>2, <1>3, <1>4, CoveredGrows

\* A leaf that is written is covered by the chunk recorded for it.
LEMMA LeafIsCovered ==
    ASSUME TypeOK, OffsetInv, CoverInv, WriteLeaf, ~bad'
    PROVE  Covered(stream', Len(stream'), current'.batch, current'.columns)
<1>1. PICK enc \in Encodings :
             /\ WriteBytes(Pages(enc))
             /\ current'.batch = current.batch
             /\ current.columns \in Seq(Chunk)
             /\ Len(current'.columns) = Len(current.columns) + 1
             /\ \A i \in 1 .. Len(current.columns) : current'.columns[i] = current.columns[i]
             /\ current'.columns[Len(current.columns) + 1] = ChunkFor(enc)
  BY LeafStep
<1> DEFINE units == Pages(enc)
           c == ChunkFor(enc)
<1>2. units \in Seq(Unit)
  BY PagesAreUnits
<1>3. c.at = offset /\ c.size = Len(units)
  BY DEF ChunkFor
<1> HIDE DEF units, c
<1>4. WriteBytes(units)
  BY <1>1 DEF units
<1>5. /\ stream' \in Seq(Unit) /\ Len(stream') = Len(stream) + Len(units) /\ ~bad
      /\ \A k \in 1 .. Len(stream) : stream'[k] = stream[k]
  BY <1>2, <1>4, WriteBytesExtends
<1>6. Len(stream) \in Nat /\ Len(units) \in Nat /\ Len(stream') \in Nat /\ offset = Len(stream)
  BY <1>2, <1>5 DEF TypeOK, OffsetInv
<1>7. Covered(stream, Len(stream), current.batch, current.columns)
  BY <1>5 DEF WriteLeaf, AtLeaf, CoverInv
<1>8. ASSUME NEW k \in 1 .. Len(stream'), IsPage(stream'[k]), stream'[k].batch = current.batch
      PROVE  \E i \in 1 .. Len(current'.columns) : InChunk(current'.columns[i], k - 1)
  <2>1. CASE k \in 1 .. Len(stream)
    <3>1. PICK i \in 1 .. Len(current.columns) : InChunk(current.columns[i], k - 1)
      BY <1>5, <1>7, <1>8, <2>1 DEF Covered
    <3>2. i \in 1 .. Len(current'.columns) /\ current'.columns[i] = current.columns[i]
      BY <1>1
    <3>3. QED
      BY <3>1, <3>2
  <2>2. CASE k \in Len(stream) + 1 .. Len(stream')
    <3>1. InChunk(c, k - 1)
      BY <1>3, <1>5, <1>6, <2>2 DEF InChunk
    <3>2. Len(current.columns) + 1 \in 1 .. Len(current'.columns)
      BY <1>1
    <3>3. QED
      BY <1>1, <3>1, <3>2 DEF c
  <2>3. QED
    BY <1>6, <2>1, <2>2
<1>9. QED
  BY <1>1, <1>8 DEF Covered

LEMMA CoverKept ==
    ASSUME TypeOK, TypeOK', IInv, IInv', PagesInv, BatchInv, CoverInv, [Next]_vars
    PROVE  CoverInv'
<1>0. Len(stream) \in Nat /\ calls \in Nat
  BY DEF TypeOK
<1>1. CASE Quiet
  <2>1. /\ UNCHANGED <<stream, rowGroups, accepted>>
        /\ bad => bad'
        /\ pc' = "leaf" => pc = "leaf" /\ current' = current
    BY <1>1 DEF Quiet
  <2>2. QED
    BY <2>1 DEF CoverInv
<1>2. CASE Open
  <2>1. /\ WriteBytes(<<Magic>>) /\ handle' = "open" /\ pc' = "idle"
        /\ UNCHANGED <<accepted, rowGroups>>
    BY <1>2 DEF Open, Return, groupVars
  <2>2. <<Magic>> \in Seq(Unit) /\ \A k \in 1 .. Len(<<Magic>>) : ~IsPage(<<Magic>>[k])
    BY DEF Magic, Unit, IsPage
  <2>3. ~bad' => \A r \in 1 .. Len(accepted) :
                   Covered(stream', Len(stream'), accepted[r].batch, rowGroups[r].columns)
    BY <2>1, <2>2, AcceptedStayCovered
  <2>4. QED
    BY <2>1, <2>3, NoFooterAfter DEF CoverInv
<1>3. CASE \E b \in Batches : StartBatch(b)
  <2>1. /\ handle' = "open" /\ pc' = "leaf" /\ calls' = calls + 1
        /\ UNCHANGED <<stream, bad, accepted, rowGroups>> /\ current'.batch = calls + 1
    BY <1>3 DEF StartBatch, BatchCall, streamVars, groupVars
  <2>2. ASSUME NEW k \in 1 .. Len(stream), IsPage(stream[k]) PROVE stream[k].batch # calls + 1
    <3>1. stream[k].batch <= calls
      BY <2>2 DEF PagesInv
    <3>2. stream[k].batch # calls + 1 \/ calls + 1 <= calls
      BY <3>1
    <3>3. QED
      BY <1>0, <3>2
  <2>3. Covered(stream, Len(stream), calls + 1, current'.columns)
    BY <2>2 DEF Covered
  <2>4. QED
    BY <2>1, <2>3, NoFooterAfter DEF CoverInv
<1>4. CASE WriteLeaf
  <2>1. /\ handle' = "open" /\ pc = "leaf" /\ pc' = "leaf"
        /\ UNCHANGED <<accepted, rowGroups>>
    BY <1>4 DEF WriteLeaf, AtLeaf, groupVars
  <2>2. PICK enc \in Encodings : WriteBytes(Pages(enc))
    BY <1>4, LeafStep
  <2>3. ~bad' => \A r \in 1 .. Len(accepted) :
                   Covered(stream', Len(stream'), accepted[r].batch, rowGroups[r].columns)
    <3>1. \A k \in 1 .. Len(Pages(enc)) : Pages(enc)[k].batch = calls
      BY <2>1, PagesOfBatch DEF BatchInv
    <3>2. QED
      BY <2>1, <2>2, <3>1, PagesAreUnits, AcceptedStayCovered
  <2>4. ~bad' => Covered(stream', Len(stream'), current'.batch, current'.columns)
    BY <1>4, LeafIsCovered DEF IInv
  <2>5. QED
    BY <2>1, <2>3, <2>4, NoFooterAfter DEF CoverInv
<1>5. CASE LeafThrows
  <2>1. /\ handle' = "open" /\ pc = "leaf" /\ pc' = "idle"
        /\ UNCHANGED <<accepted, rowGroups>>
    BY <1>5 DEF LeafThrows, AtLeaf, AbandonBatch, Return, groupVars
  <2>9. PICK enc \in CurrentLayouts : \E n \in 0 .. Len(Pages(enc)) - 1 :
          WriteBytes(SubSeq(Pages(enc), 1, n))
    BY <1>5 DEF LeafThrows
  <2>2. PICK n \in 0 .. Len(Pages(enc)) - 1 : WriteBytes(SubSeq(Pages(enc), 1, n))
    BY <2>9
  <2>3. enc \in Encodings
    BY <2>9, LayoutsAreEncodings DEF CurrentLayouts, TypeOK
  <2> DEFINE units == SubSeq(Pages(enc), 1, n)
  <2>4. units \in Seq(Unit) /\ Len(units) = n /\ \A k \in 1 .. n : units[k] = Pages(enc)[k]
    BY <2>2, <2>3, PagesAreUnits, SubSeqProperties
  <2>5. \A k \in 1 .. n : k \in 1 .. Len(Pages(enc))
    BY <2>2, <2>3, PagesAreUnits
  <2> HIDE DEF units
  <2>6. WriteBytes(units) /\ \A k \in 1 .. Len(units) : units[k].batch = calls
    BY <2>1, <2>2, <2>3, <2>4, <2>5, PagesOfBatch DEF BatchInv, units
  <2>7. ~bad' => \A r \in 1 .. Len(accepted) :
                   Covered(stream', Len(stream'), accepted[r].batch, rowGroups[r].columns)
    BY <2>1, <2>4, <2>6, AcceptedStayCovered
  <2>8. QED
    BY <2>1, <2>7, NoFooterAfter DEF CoverInv
<1>6. CASE FinishBatch
  <2>1. /\ handle' = "open" /\ pc = "leaf" /\ pc' = "idle" /\ UNCHANGED <<stream, bad>>
        /\ bad \/ accepted' = Append(accepted, [batch |-> current.batch, rows |-> current.rows])
    BY <1>6 DEF FinishBatch, Return, streamVars
  <2>2. ASSUME ~bad, NEW r \in 1 .. Len(accepted')
        PROVE  Covered(stream, Len(stream), accepted'[r].batch, rowGroups'[r].columns)
    <3> DEFINE a == [batch |-> current.batch, rows |-> current.rows]
    <3>1. a \in [batch : Nat, rows : Nat] /\ a.batch = current.batch
      BY DEF TypeOK
    <3>2. accepted \in Seq([batch : Nat, rows : Nat]) /\ Len(rowGroups) = Len(accepted)
      BY <2>2 DEF TypeOK, IInv, GroupsInv
    <3>3. accepted' = Append(accepted, a)
      BY <2>1, <2>2
    <3> HIDE DEF a
    <3>4. /\ Len(accepted) \in Nat /\ Len(accepted') = Len(accepted) + 1
          /\ accepted'[Len(accepted) + 1] = a
          /\ \A q \in 1 .. Len(accepted) : accepted'[q] = accepted[q]
      BY <3>1, <3>2, <3>3, AppendedBatch
    <3>5. CASE r \in 1 .. Len(accepted)
      <4>1. accepted'[r] = accepted[r] /\ rowGroups'[r] = rowGroups[r]
        BY <1>6, <3>2, <3>4, <3>5, GroupStep
      <4>2. QED
        BY <2>2, <3>5, <4>1 DEF CoverInv
    <3>6. CASE r = Len(accepted) + 1
      <4>1. accepted'[r].batch = current.batch /\ rowGroups'[r].columns = current.columns
        BY <1>6, <3>1, <3>2, <3>4, <3>6, GroupStep
      <4>2. QED
        BY <2>1, <2>2, <4>1 DEF CoverInv
    <3>7. QED
      BY <3>4, <3>5, <3>6
  <2>3. QED
    BY <2>1, <2>2, NoFooterAfter DEF CoverInv
<1>7. CASE CloseWritesFooter
  <2>1. /\ pc' = "flush" /\ UNCHANGED <<accepted, rowGroups>>
        /\ stream' \in Seq(Unit) /\ Len(stream') \in Nat
        /\ \A k \in 1 .. Len(stream) : stream'[k] = stream[k] /\ stream[k].kind # "footer"
        /\ \A k \in Len(stream) + 1 .. Len(stream') : ~IsPage(stream'[k])
        /\ \A k \in 1 .. Len(stream') : stream'[k].kind = "footer" =>
             /\ k = Len(stream) + 1 /\ stream'[k] = Footer /\ ~bad
             /\ Len(rowGroups) = Len(accepted)
        /\ ~bad' => ~bad
    BY <1>7, FooterStep
  <2>2. ASSUME ~bad', NEW r \in 1 .. Len(accepted)
        PROVE  Covered(stream', Len(stream'), accepted[r].batch, rowGroups[r].columns)
    <3>1. Covered(stream, Len(stream), accepted[r].batch, rowGroups[r].columns)
      BY <2>1, <2>2 DEF CoverInv
    <3>2. /\ \A k \in 1 .. Len(stream) : stream'[k] = stream[k]
          /\ \A k \in Len(stream) + 1 .. Len(stream') :
               IsPage(stream'[k]) => stream'[k].batch # accepted[r].batch
          /\ Len(stream') \in Nat
      BY <2>1
    <3>3. QED
      BY <1>0, <3>1, <3>2, CoveredGrows
  <2>3. ASSUME NEW k \in 1 .. Len(stream'), stream'[k].kind = "footer", NEW r \in 1 .. Len(accepted)
        PROVE  Covered(stream', k - 1, accepted[r].batch, stream'[k].groups[r].columns)
    <3> DEFINE g == rowGroups[r]
               h == FooterGroup(g)
               n == k - 1
    <3>1. n = Len(stream) /\ stream'[k] = Footer /\ ~bad /\ r \in 1 .. Len(rowGroups)
      BY <1>0, <2>1, <2>3
    <3>2. g.columns \in Seq(Chunk) /\ Footer.groups[r] = h
      BY <3>1, FooterGroups
    <3>3. Covered(stream, n, accepted[r].batch, g.columns)
      BY <3>1 DEF CoverInv
    <3> HIDE DEF g, n
    <3>4. /\ Len(h.columns) = Len(g.columns)
          /\ \A i \in 1 .. Len(g.columns) :
               h.columns[i].at = g.columns[i].at /\ h.columns[i].size = g.columns[i].size
      BY <3>2, FooterGroupCopies
    <3> HIDE DEF h
    <3>5. Covered(stream', n, accepted[r].batch, h.columns)
      <4> DEFINE b == accepted[r].batch
      <4>1. \A j \in 1 .. n : stream'[j] = stream[j]
        BY <2>1, <3>1
      <4>2. SUFFICES ASSUME NEW j \in 1 .. n, IsPage(stream'[j]), stream'[j].batch = b
                     PROVE  \E i \in 1 .. Len(h.columns) : InChunk(h.columns[i], j - 1)
        BY DEF Covered
      <4>3. IsPage(stream[j]) /\ stream[j].batch = b
        BY <4>1, <4>2
      <4>4. PICK i \in 1 .. Len(g.columns) : InChunk(g.columns[i], j - 1)
        BY <3>3, <4>3 DEF Covered
      <4>5. QED
        BY <3>4, <4>4 DEF InChunk
    <3>6. QED
      BY <3>1, <3>2, <3>5 DEF n
  <2>4. QED
    BY <2>1, <2>2, <2>3 DEF CoverInv
<1>8. QED
  BY <1>1, <1>2, <1>3, <1>4, <1>5, <1>6, <1>7, StepKinds

LEMMA InitTiles == Init => TInv
<1> SUFFICES ASSUME Init PROVE TInv
  OBVIOUS
<1>1. Len(stream) = 0 /\ Len(accepted) = 0 /\ Len(rowGroups) = 0 /\ pc # "leaf"
  BY DEF Init
<1>2. QED
  BY <1>1 DEF TInv, PagesInv, BatchInv, WholeInv, CoverInv

LEMMA TilesInvariant == Spec => [](Inv /\ TInv)
<1>1. Init => Inv /\ TInv
  BY InitTyped, InitInv, InitRefines, InitTiles DEF Inv
<1>2. Inv /\ TInv /\ [Next]_vars => Inv' /\ TInv'
  <2> SUFFICES ASSUME Inv, TInv, [Next]_vars PROVE Inv' /\ TInv'
    OBVIOUS
  <2>1. TypeOK /\ IInv /\ RInv
    BY DEF Inv
  <2>2. TypeOK'
    BY <2>1, StepTyped
  <2>3. IInv'
    BY <2>1, <2>2, StepInv
  <2>4. RInv'
    BY <2>1, <2>2, <2>3, EndKept, CallsKept DEF RInv
  <2>5. TInv'
    BY <2>1, <2>2, <2>3, PagesKept, BatchKept, WholeKept, CoverKept DEF TInv
  <2>6. QED
    BY <2>2, <2>3, <2>4, <2>5 DEF Inv
<1>3. QED
  BY <1>1, <1>2, PTL DEF Spec

------------------------------------------------------------------------------
(* What a reader finds in the chunks. *)

\* A complete file is all of the stream, with its footer third from the end.
LEMMA DiskIsStream ==
    ASSUME TypeOK, EndInv, Complete(Disk)
    PROVE  /\ Len(Disk) = Len(stream) /\ Len(stream) \in Nat /\ Len(stream) >= 4
           /\ \A k \in 1 .. Len(stream) : Disk[k] = stream[k]
           /\ FooterOf(Disk) = stream[Len(stream) - 2]
           /\ FooterOf(Disk).kind = "footer"
<1>1. synced = Len(stream) /\ stream \in Seq(Unit) /\ Len(stream) \in Nat
  BY CompleteIsAll DEF TypeOK
<1>2. Len(Disk) = Len(stream) /\ \A k \in 1 .. Len(stream) : Disk[k] = stream[k]
  BY <1>1, SubSeqProperties DEF Disk
<1>3. Len(stream) >= 4 /\ Len(stream) - 2 \in 1 .. Len(stream)
  BY <1>1, <1>2 DEF Complete
<1>4. QED
  BY <1>1, <1>2, <1>3 DEF FooterOf, Complete

\* A unit in a chunk is the dictionary page or the data page the chunk points to.
LEMMA UnitOfChunk ==
    ASSUME NEW c \in FooterChunk, Whole(c), NEW o \in Nat, InChunk(c, o),
           NEW file, NEW n \in Nat, NEW i, NEW b, ChunkMatchesPages(file, n, c, i, b)
    PROVE  file[o + 1].batch = b /\ file[o + 1].leaf = i
<1>1. c.at \in Nat /\ c.size \in Nat /\ c.dictAt \in Nat /\ c.dataAt \in Nat
  BY DEF FooterChunk
<1>2. o = c.dataAt \/ (c.dictAt # 0 /\ o = c.dictAt)
  BY <1>1 DEF Whole, InChunk
<1>3. QED
  BY <1>2 DEF ChunkMatchesPages

\* Pages and chunks of a complete file belong together: a page of an accepted batch
\* lies in one chunk, a page of a batch that failed or was cut short in none.
THEOREM ChunksTileAcceptedPagesAlways == Spec => []ChunksTileAcceptedPages
<1>1. Inv /\ TInv => ChunksTileAcceptedPages
  <2> SUFFICES ASSUME Inv, TInv, Complete(Disk) PROVE ChunksTileAcceptedPages
    BY DEF ChunksTileAcceptedPages
  <2> DEFINE f == FooterOf(Disk)
             n == Len(stream)
             Chunks == {ri \in (DOMAIN f.groups) \X (1 .. Len(f.leaves)) :
                          ri[2] \in DOMAIN f.groups[ri[1]].columns}
             Owners(o) == {ri \in Chunks : InChunk(f.groups[ri[1]].columns[ri[2]], o)}
  <2>1. TypeOK /\ IInv /\ EndInv /\ PagesInv /\ BatchInv /\ WholeInv /\ CoverInv
    BY DEF Inv, RInv, TInv
  <2>2. /\ Len(Disk) = n /\ n \in Nat /\ n >= 4 /\ f = stream[n - 2] /\ f.kind = "footer"
        /\ n - 2 \in 1 .. n
        /\ \A k \in 1 .. n : Disk[k] = stream[k]
    <3>1. /\ Len(Disk) = n /\ n \in Nat /\ n >= 4 /\ f = stream[n - 2] /\ f.kind = "footer"
          /\ \A k \in 1 .. n : Disk[k] = stream[k]
      BY <2>1, DiskIsStream
    <3>2. QED
      BY <3>1
  <2>3. /\ f.leaves = leaves
        /\ f.groups \in Seq([rows : Nat, columns : Seq(FooterChunk)])
        /\ Len(f.groups) = Len(accepted)
        /\ \A r \in 1 .. Len(accepted) :
             GroupMatchesPages(Disk, Len(Disk) - 3, f.groups[r], accepted[r], Len(leaves))
    BY <2>1, DiskFooter
  <2>4. \A r \in 1 .. Len(accepted) :
          /\ Covered(stream, n - 3, accepted[r].batch, f.groups[r].columns)
          /\ AllWhole(f.groups[r].columns)
    <3>1. (n - 2) - 1 = n - 3
      BY <2>2
    <3>2. QED
      BY <2>1, <2>2, <2>3, <3>1 DEF CoverInv, WholeInv
  <2>5. \A k \in 2 .. n - 3 : IsPage(stream[k])
    BY <2>1, <2>2 DEF PagesInv
  <2>6. DOMAIN f.groups = 1 .. Len(accepted) /\ DOMAIN accepted = 1 .. Len(accepted)
        /\ Len(leaves) \in Nat
    BY <2>1, <2>3 DEF TypeOK
  <2> HIDE DEF f, n
  <2>7. ASSUME NEW r \in 1 .. Len(accepted)
        PROVE  /\ f.groups[r].columns \in Seq(FooterChunk)
               /\ DOMAIN f.groups[r].columns = 1 .. Len(leaves)
               /\ Len(f.groups[r].columns) = Len(leaves)
    <3>1. f.groups[r] \in [rows : Nat, columns : Seq(FooterChunk)]
      BY <2>3, ElementOfSeq
    <3>2. Len(f.groups[r].columns) = Len(leaves)
      BY <2>3 DEF GroupMatchesPages
    <3>3. QED
      BY <3>1, <3>2
  \* The page in a chunk is of the batch and the leaf of the chunk.
  <2>8. ASSUME NEW o \in Nat, NEW r \in 1 .. Len(accepted), NEW i \in 1 .. Len(leaves),
               InChunk(f.groups[r].columns[i], o)
        PROVE  Disk[o + 1].batch = accepted[r].batch /\ Disk[o + 1].leaf = i
    <3> DEFINE c == f.groups[r].columns[i]
               m == Len(Disk) - 3
    <3>1. c \in FooterChunk
      BY <2>7, ElementOfSeq
    <3>2. Whole(c)
      BY <2>4, <2>7 DEF AllWhole
    <3>3. ChunkMatchesPages(Disk, m, c, i, accepted[r].batch)
      BY <2>3, <2>7 DEF GroupMatchesPages
    <3>4. m \in Nat /\ InChunk(c, o)
      BY <2>2, <2>8
    <3> HIDE DEF c, m
    <3>5. QED
      BY <3>1, <3>2, <3>3, <3>4, UnitOfChunk
  <2>9. ASSUME NEW o \in 1 .. Len(Disk) - 4
        PROVE  IF \E r \in DOMAIN accepted : accepted[r].batch = Disk[o + 1].batch
               THEN \E ri \in Chunks : Owners(o) = {ri}
               ELSE Owners(o) = {}
    <3>1. o \in Nat /\ o + 1 \in 2 .. n - 3 /\ o + 1 \in 1 .. n - 3 /\ o + 1 \in 1 .. n
          /\ (o + 1) - 1 = o
      BY <2>2
    <3>2. IsPage(stream[o + 1]) /\ Disk[o + 1] = stream[o + 1]
      BY <2>2, <2>5, <3>1
    <3>3. ASSUME NEW ri \in Owners(o)
          PROVE  /\ ri[1] \in 1 .. Len(accepted) /\ ri[2] \in 1 .. Len(leaves)
                 /\ ri = <<ri[1], ri[2]>>
                 /\ Disk[o + 1].batch = accepted[ri[1]].batch /\ Disk[o + 1].leaf = ri[2]
      <4>1. /\ ri \in (DOMAIN f.groups) \X (1 .. Len(f.leaves))
            /\ InChunk(f.groups[ri[1]].columns[ri[2]], o)
        OBVIOUS
      <4>2. ri[1] \in 1 .. Len(accepted) /\ ri[2] \in 1 .. Len(leaves) /\ ri = <<ri[1], ri[2]>>
        BY <2>3, <2>6, <4>1
      <4>3. Disk[o + 1].batch = accepted[ri[1]].batch /\ Disk[o + 1].leaf = ri[2]
        BY <2>8, <3>1, <4>1, <4>2
      <4>4. QED
        BY <4>2, <4>3
    <3>4. CASE \E r \in DOMAIN accepted : accepted[r].batch = Disk[o + 1].batch
      <4>1. PICK r \in 1 .. Len(accepted) : accepted[r].batch = Disk[o + 1].batch
        BY <2>6, <3>4
      <4>2. PICK i \in 1 .. Len(leaves) : InChunk(f.groups[r].columns[i], o)
        BY <2>4, <2>7, <3>1, <3>2, <4>1 DEF Covered
      <4>3. <<r, i>> \in Chunks /\ <<r, i>> \in Owners(o)
        BY <2>3, <2>6, <2>7, <4>2
      <4>4. ASSUME NEW ri \in Owners(o) PROVE ri = <<r, i>>
        <5>1. ri[1] = r
          BY <2>1, <3>3, <4>1 DEF BatchInv
        <5>2. ri[2] = i
          BY <2>8, <3>1, <3>3, <4>2
        <5>3. QED
          BY <3>3, <5>1, <5>2
      <4>5. Owners(o) = {<<r, i>>}
        BY <4>3, <4>4
      <4>6. QED
        BY <3>4, <4>3, <4>5
    <3>5. CASE ~\E r \in DOMAIN accepted : accepted[r].batch = Disk[o + 1].batch
      BY <2>6, <3>3, <3>5
    <3>6. QED
      BY <3>4, <3>5
  <2>10. QED
    BY <2>9 DEF ChunksTileAcceptedPages, f
<1>2. QED
  BY <1>1, TilesInvariant, PTL

------------------------------------------------------------------------------
(* The codec of a caller that selects it before the first batch. *)

\* No page is out before the first batch, and every page and every chunk of a footer
\* names the one codec selected by then.
CodecInv ==
    /\ calls = 0 => pc # "leaf" /\ \A k \in 1 .. Len(stream) : ~IsPage(stream[k])
    /\ \A k \in 1 .. Len(stream) : IsPage(stream[k]) => stream[k].codec = codec
    /\ \A k \in 1 .. Len(stream) : stream[k].kind = "footer" =>
         \A r \in 1 .. Len(stream[k].groups) :
           \A i \in 1 .. Len(stream[k].groups[r].columns) :
             stream[k].groups[r].columns[i].codec = codec

\* A write of the batch in progress, or of the magic, keeps the codec of the pages.
LEMMA CodecOfWritten ==
    ASSUME TypeOK, IInv', CodecInv, NEW units \in Seq(Unit), WriteBytes(units),
           codec' = codec, calls' = calls, handle' = "open", pc' # "flush",
           pc' = "leaf" => pc = "leaf",
           \A k \in 1 .. Len(units) : IsPage(units[k]) => pc = "leaf" /\ units[k].codec = codec
    PROVE  CodecInv'
<1>1. /\ stream' \in Seq(Unit) /\ Len(stream') <= Len(stream) + Len(units)
      /\ \A k \in 1 .. Len(stream) : stream'[k] = stream[k]
      /\ \A k \in Len(stream) + 1 .. Len(stream') : stream'[k] = units[k - Len(stream)]
  BY WriteBytesExtends
<1>2. Len(stream) \in Nat /\ Len(stream') \in Nat /\ Len(units) \in Nat
  BY <1>1 DEF TypeOK
<1>3. ASSUME NEW k \in 1 .. Len(stream'), IsPage(stream'[k])
      PROVE  stream'[k].codec = codec /\ calls # 0
  <2>1. CASE k \in 1 .. Len(stream)
    BY <1>1, <1>3, <2>1 DEF CodecInv
  <2>2. CASE k \in Len(stream) + 1 .. Len(stream')
    <3>1. k - Len(stream) \in 1 .. Len(units) /\ stream'[k] = units[k - Len(stream)]
      BY <1>1, <1>2, <2>2
    <3>2. QED
      BY <1>3, <3>1 DEF CodecInv
  <2>3. QED
    BY <1>2, <2>1, <2>2
<1>4. calls' = 0 => pc' # "leaf"
  BY DEF CodecInv
<1>5. \A k \in 1 .. Len(stream') : stream'[k].kind # "footer"
  BY NoFooterAfter
<1>6. QED
  BY <1>3, <1>4, <1>5 DEF CodecInv

LEMMA CodecKept ==
    ASSUME ~CodecAnyTime, TypeOK, TypeOK', IInv, IInv', CodecInv, [Next]_vars
    PROVE  CodecInv'
<1>0. calls \in Nat /\ Len(stream) \in Nat
  BY DEF TypeOK
<1>1. CASE Quiet
  <2>1. /\ stream' = stream /\ calls <= calls' /\ calls' \in Nat
        /\ pc' = "leaf" => pc = "leaf" /\ calls' = calls
        /\ codec' = codec \/ (pc = "idle" /\ handle \in {"open", "unopened"} /\ calls = 0)
    BY <1>1 DEF Quiet, TypeOK
  <2>2. calls' = 0 => calls = 0
    BY <1>0, <2>1
  <2>3. CASE codec' = codec
    BY <2>1, <2>2, <2>3 DEF CodecInv
  <2>4. CASE pc = "idle" /\ handle \in {"open", "unopened"} /\ calls = 0
    <3>1. CASE handle = "open"
      <4>1. \A k \in 1 .. Len(stream) : stream[k].kind # "footer"
        BY <2>4, <3>1, NoFooterYet DEF IInv
      <4>2. QED
        BY <2>1, <2>4, <4>1 DEF CodecInv
    <3>2. CASE handle = "unopened"
      <4>1. Len(stream) = 0
        BY <3>2 DEF IInv, OffsetInv
      <4>2. QED
        BY <2>1, <2>4, <4>1 DEF CodecInv
    <3>3. QED
      BY <2>4, <3>1, <3>2
  <2>5. QED
    BY <2>1, <2>3, <2>4
<1>2. CASE Open
  <2>1. /\ WriteBytes(<<Magic>>) /\ handle' = "open" /\ pc' = "idle"
        /\ UNCHANGED <<codec, calls>>
    BY <1>2 DEF Open, Return
  <2>2. <<Magic>> \in Seq(Unit) /\ \A k \in 1 .. Len(<<Magic>>) : ~IsPage(<<Magic>>[k])
    BY DEF Magic, Unit, IsPage
  <2>3. QED
    BY <2>1, <2>2, CodecOfWritten
<1>3. CASE \E b \in Batches : StartBatch(b)
  <2>1. calls' = calls + 1 /\ UNCHANGED <<stream, codec>>
    BY <1>3 DEF StartBatch, BatchCall, streamVars
  <2>2. calls' # 0
    BY <1>0, <2>1
  <2>3. QED
    BY <2>1, <2>2 DEF CodecInv
<1>4. CASE WriteLeaf
  <2>1. handle' = "open" /\ pc = "leaf" /\ pc' = "leaf" /\ UNCHANGED <<codec, calls>>
    BY <1>4 DEF WriteLeaf, AtLeaf
  <2>2. PICK enc \in Encodings : WriteBytes(Pages(enc))
    BY <1>4, LeafStep
  <2>3. Pages(enc) \in Seq(Unit) /\ \A k \in 1 .. Len(Pages(enc)) : Pages(enc)[k].codec = codec
    BY PagesAreUnits, PagesOfBatch
  <2>4. QED
    BY <2>1, <2>2, <2>3, CodecOfWritten
<1>5. CASE LeafThrows
  <2>1. handle' = "open" /\ pc = "leaf" /\ pc' = "idle" /\ UNCHANGED <<codec, calls>>
    BY <1>5 DEF LeafThrows, AtLeaf, AbandonBatch, Return
  <2>2. PICK enc \in CurrentLayouts : \E n \in 0 .. Len(Pages(enc)) - 1 :
          WriteBytes(SubSeq(Pages(enc), 1, n))
    BY <1>5 DEF LeafThrows
  <2>3. PICK n \in 0 .. Len(Pages(enc)) - 1 : WriteBytes(SubSeq(Pages(enc), 1, n))
    BY <2>2
  <2>4. enc \in Encodings
    BY <2>2, LayoutsAreEncodings DEF CurrentLayouts, TypeOK
  <2> DEFINE units == SubSeq(Pages(enc), 1, n)
  <2>5. units \in Seq(Unit) /\ Len(units) = n /\ \A k \in 1 .. n : units[k] = Pages(enc)[k]
    BY <2>3, <2>4, PagesAreUnits, SubSeqProperties
  <2>6. \A k \in 1 .. n : k \in 1 .. Len(Pages(enc))
    BY <2>3, <2>4, PagesAreUnits
  <2> HIDE DEF units
  <2>7. WriteBytes(units) /\ \A k \in 1 .. Len(units) : units[k].codec = codec
    BY <2>3, <2>4, <2>5, <2>6, PagesOfBatch DEF units
  <2>8. QED
    BY <2>1, <2>5, <2>7, CodecOfWritten
<1>6. CASE FinishBatch
  BY <1>6 DEF FinishBatch, Return, streamVars, CodecInv
<1>7. CASE CloseWritesFooter
  <2>1. /\ pc = "idle" /\ pc' = "flush" /\ UNCHANGED <<codec, calls>>
        /\ Len(stream') \in Nat
        /\ \A k \in 1 .. Len(stream) : stream'[k] = stream[k]
        /\ \A k \in Len(stream) + 1 .. Len(stream') : ~IsPage(stream'[k])
        /\ \A k \in 1 .. Len(stream') : stream'[k].kind = "footer" => stream'[k] = Footer
    BY <1>7, FooterStep
  <2>2. ASSUME NEW k \in 1 .. Len(stream'), IsPage(stream'[k])
        PROVE  stream'[k].codec = codec /\ calls # 0
    <3>1. k \in 1 .. Len(stream)
      BY <1>0, <2>1, <2>2
    <3>2. QED
      BY <2>1, <2>2, <3>1 DEF CodecInv
  <2>3. ASSUME NEW r \in 1 .. Len(Footer.groups), NEW i \in 1 .. Len(Footer.groups[r].columns)
        PROVE  Footer.groups[r].columns[i].codec = codec
    <3> DEFINE g == rowGroups[r]
    <3>1. g.columns \in Seq(Chunk) /\ Footer.groups[r] = FooterGroup(g)
      BY <2>3, FooterIsUnit, FooterGroups
    <3> HIDE DEF g
    <3>2. QED
      BY <3>1, FooterGroupCopies
  <2>4. QED
    BY <2>1, <2>2, <2>3 DEF CodecInv
<1>8. QED
  BY <1>1, <1>2, <1>3, <1>4, <1>5, <1>6, <1>7, StepKinds

LEMMA CodecInvariant == Spec => [](Inv /\ (~CodecAnyTime => CodecInv))
<1> DEFINE K == ~CodecAnyTime => CodecInv
<1>1. Init => K
  BY DEF Init, CodecInv
<1>2. Inv /\ Inv' /\ K /\ [Next]_vars => K'
  BY CodecKept DEF Inv
<1>3. Spec => []Inv
  BY TilesInvariant, PTL
<1> HIDE DEF K
<1>4. Spec => [](Inv /\ K)
  BY <1>1, <1>2, <1>3, PTL DEF Spec
<1>5. QED
  BY <1>4 DEF K

\* Whatever else happens, a caller that selects the codec before its first batch gets a
\* footer that names, for every chunk, the codec its pages were compressed with.
THEOREM CodecMatchesPagesOnceSet == Spec => [](~CodecAnyTime => CodecMatchesPages)
<1>1. Inv /\ (~CodecAnyTime => CodecInv) => (~CodecAnyTime => CodecMatchesPages)
  <2> SUFFICES ASSUME Inv, CodecInv PROVE CodecMatchesPages
    OBVIOUS
  <2> SUFFICES ASSUME Complete(Disk),
                      NEW r \in DOMAIN FooterOf(Disk).groups,
                      NEW i \in DOMAIN FooterOf(Disk).groups[r].columns
               PROVE  LET c == FooterOf(Disk).groups[r].columns[i]
                      IN /\ Disk[c.dataAt + 1].codec = c.codec
                         /\ c.dictAt # 0 => Disk[c.dictAt + 1].codec = c.codec
    BY DEF CodecMatchesPages
  <2> DEFINE f == FooterOf(Disk)
             n == Len(stream)
             c == f.groups[r].columns[i]
             m == Len(Disk) - 3
  <2>1. TypeOK /\ IInv /\ EndInv
    BY DEF Inv, RInv
  <2>2. /\ Len(Disk) = n /\ n \in Nat /\ n - 2 \in 1 .. n /\ f = stream[n - 2]
        /\ f.kind = "footer" /\ \A k \in 1 .. n : Disk[k] = stream[k]
    <3>1. /\ Len(Disk) = n /\ n \in Nat /\ n >= 4 /\ f = stream[n - 2] /\ f.kind = "footer"
          /\ \A k \in 1 .. n : Disk[k] = stream[k]
      BY <2>1, DiskIsStream
    <3>2. QED
      BY <3>1
  <2>3. /\ f.groups \in Seq([rows : Nat, columns : Seq(FooterChunk)])
        /\ Len(f.groups) = Len(accepted)
        /\ \A q \in 1 .. Len(accepted) :
             GroupMatchesPages(Disk, m, f.groups[q], accepted[q], Len(leaves))
    BY <2>1, DiskFooter
  <2>4. r \in 1 .. Len(accepted) /\ r \in 1 .. Len(f.groups)
    BY <2>3
  <2>5. f.groups[r] \in [rows : Nat, columns : Seq(FooterChunk)]
    BY <2>3, <2>4, ElementOfSeq
  <2>6. i \in 1 .. Len(f.groups[r].columns) /\ c \in FooterChunk
    BY <2>5, ElementOfSeq
  <2>7. c.codec = codec
    <3> DEFINE u == stream[n - 2]
    <3>1. u.kind = "footer"
      BY <2>2
    <3>2. \A q \in 1 .. Len(u.groups) : \A j \in 1 .. Len(u.groups[q].columns) :
            u.groups[q].columns[j].codec = codec
      BY <2>2, <3>1 DEF CodecInv
    <3> HIDE DEF u
    <3>3. QED
      BY <2>2, <2>4, <2>6, <3>2 DEF u
  <2>8. ChunkMatchesPages(Disk, m, c, i, accepted[r].batch)
    BY <2>3, <2>4, <2>6 DEF GroupMatchesPages
  <2> HIDE DEF c, f, n
  <2>9. c.dataAt \in Nat /\ c.dictAt \in Nat
    BY <2>6 DEF FooterChunk
  <2>10. /\ c.dataAt + 1 \in 1 .. n /\ IsPage(Disk[c.dataAt + 1])
         /\ c.dictAt # 0 => c.dictAt + 1 \in 1 .. n /\ IsPage(Disk[c.dictAt + 1])
    BY <2>2, <2>8, <2>9 DEF ChunkMatchesPages, IsPage
  <2>11. \A k \in 1 .. n : IsPage(Disk[k]) => Disk[k].codec = codec
    BY <2>2 DEF CodecInv, n
  <2>12. Disk[c.dataAt + 1].codec = c.codec /\ (c.dictAt # 0 => Disk[c.dictAt + 1].codec = c.codec)
    BY <2>7, <2>10, <2>11
  <2>13. QED
    BY <2>12 DEF c, f
<1>2. QED
  BY <1>1, CodecInvariant, PTL
==============================================================================
