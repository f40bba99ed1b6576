----------------------------- MODULE PyTable_proofs -----------------------------
(***************************************************************************)
(* Who owns what in write_table and write_batch, for any objects, any number *)
(* of batches and calls, and a failure at any step.                          *)
(***************************************************************************)
EXTENDS PyTable, SequenceLoops_lemmas

------------------------------------------------------------------------------
(* The inductive invariant. *)

Holders == {"unmade", "producer", "capsule", "stream", "local", "released"}
Places ==
    {"build", "refused", "idle", "done", "stream", "import", "steal", "schema", "array",
     "make_stream", "write_file", "next", "open", "write", "read"}

OwnTyped ==
    /\ holder \in [Parts -> Holders] /\ releases \in [Parts -> Nat] /\ armed \subseteq Parts
    /\ lent \subseteq {"arrays", "columns", "buffer"} /\ batch \in BOOLEAN
    /\ got \in 0 .. source.batches /\ calls \in 0 .. MaxCalls /\ pc \in Places
    /\ handle \in {"none", "open", "unopened", "freed"}
    /\ process \in {"running", "dead"} /\ outcome \in {"none", "returned", "raised"}

UseInv == \E u \in Uses : source = u.source /\ function = u.function

\* A structure has been released once or not at all, and its holder tells which.
CountInv == \A p \in Parts : releases[p] = IF holder[p] = "released" THEN 1 ELSE 0

\* A capsule has its destructor exactly as long as its structure is in it, and what
\* is in a stream goes with a stream that somebody will release.
CapsuleInv ==
    /\ \A p \in Parts : p \in armed <=> holder[p] = "capsule"
    /\ \A p \in Parts : holder[p] = "stream" => holder[Stream] \in {"capsule", "local"}

\* What is where at each step of a call.
Outside == {"build", "refused", "idle", "done", "stream", "import"}
InTable == {"next", "open", "write", "read"}
WhereInv ==
    /\ pc \in Outside => \A p \in Parts : holder[p] \in {"unmade", "producer", "released"}
    /\ pc \in {"build", "refused"} => \A p \in Parts : holder[p] = "unmade"
    /\ pc \in {"stream", "import"} /\ ~IsNumpy => \A p \in Parts : holder[p] = "unmade"
    /\ pc = "steal" =>
         \A p \in Parts : holder[p] = CASE p = Stream -> "capsule" [] p = Copy -> "unmade"
                                         [] OTHER -> "stream"
    /\ pc \in {"schema", "array", "make_stream", "write_file"} =>
         /\ ~IsNumpy /\ source.batches = 1
         /\ holder[1] = IF pc \in {"schema", "array"} THEN "capsule" ELSE "local"
         /\ IF pc = "schema" THEN holder[Schema] \in {"capsule", "unmade"}
            ELSE holder[Schema] = "local"
         /\ holder[Stream] = "unmade" /\ holder[Copy] = "unmade"
    /\ pc = "import" => source.batches = 1
    /\ pc \in {"stream", "import", "steal", "schema", "array", "make_stream"} => got = 0
    /\ pc \in InTable =>
         /\ holder[Stream] = "local" /\ holder[Schema] = "stream"
         /\ holder[Copy] \in {"unmade", "local"}
         /\ \A k \in Arrays : holder[k] = IF k > got THEN "stream"
                                          ELSE IF k = got /\ pc # "next" THEN "local"
                                          ELSE "released"
    /\ pc \in InTable \ {"next"} => got > 0

\* The structures of a NumPy batch, its references to the arrays, and the one export.
NumpyInv ==
    /\ ~IsNumpy => lent = {} /\ ~batch /\ \A p \in Parts : holder[p] # "producer"
    /\ IsNumpy =>
         /\ holder[Schema] = "producer" <=> holder[1] = "producer"
         /\ \A p \in Parts : holder[p] = "producer" => p \in {Schema, 1} /\ batch
         /\ holder[Schema] = "producer" => holder[Stream] = "unmade" /\ holder[Copy] = "unmade"
         /\ "buffer" \in lent <=> holder[1] \in {"producer", "stream", "local"}
         /\ "columns" \in lent => batch
         /\ pc = "build" => ~batch
         /\ pc \notin {"build", "refused"} => Accepted(source.columns)
    /\ pc \in {"build", "refused"} => IsNumpy

OwnInv == OwnTyped /\ UseInv /\ CountInv /\ CapsuleInv /\ WhereInv /\ NumpyInv

------------------------------------------------------------------------------
(* The parts of a source. *)

LEMMA SourceFacts ==
    ASSUME UseInv
    PROVE  /\ function \in Function /\ source.batches \in Nat
           /\ source.kind \in {"array", "numpy"} \/ function = "write_batch" => source.batches = 1
BY UsesAssumption DEF UseInv

LEMMA PartFacts ==
    ASSUME UseInv
    PROVE  /\ {Stream, Schema, Copy} \subseteq Parts /\ Arrays \subseteq Parts
           /\ \A p \in Parts : p \in {Stream, Schema, Copy} \/ p \in Arrays
           /\ Stream # Schema /\ Stream # Copy /\ Schema # Copy
           /\ \A k \in Arrays : k # Stream /\ k # Schema /\ k # Copy /\ k \in Nat \ {0}
           /\ \A k \in Nat \ {0} : k # Stream /\ k # Schema /\ k # Copy
           /\ \A k \in Nat \ {0} : k <= source.batches => k \in Arrays
           /\ \A k \in Arrays : k <= source.batches
           /\ source.batches = 1 => Arrays = {1}
BY SourceFacts DEF Parts, Stream, Schema, Copy, Arrays

\* The object of a call does not change.
LEMMA SameSource ==
    ASSUME source' = source, function' = function
    PROVE  Parts' = Parts /\ Arrays' = Arrays /\ (IsNumpy' <=> IsNumpy) /\ (UseInv => UseInv')
BY DEF Parts, Arrays, IsNumpy, UseInv, Stream, Schema, Copy

\* What goes when these owners release what they own.
Gone(owners) == owners \cup InStream(owners)

\* What is released is released once.
LEMMA ReleasingOnce ==
    ASSUME OwnInv, NEW local \in SUBSET Parts, NEW capsule \in SUBSET Parts,
           \A p \in local : holder[p] \in {"local", "stream"},
           \A p \in capsule : holder[p] = "capsule",
           capsule = {} \/ \A p \in local : holder[p] = "local",
           Releasing(local, capsule)
    PROVE  LET gone == Gone(local \cup capsule)
           IN /\ gone \subseteq Parts /\ \A p \in gone : holder[p] # "released"
              /\ holder' = [p \in Parts |-> IF p \in gone THEN "released" ELSE holder[p]]
              /\ releases' = [p \in Parts |-> releases[p] + IF p \in gone THEN 1 ELSE 0]
              /\ lent' = IF IsNumpy /\ 1 \in gone THEN lent \ {"buffer"} ELSE lent
<1> DEFINE once(owners, p) == IF p \in owners \cup InStream(owners) THEN 1 ELSE 0
           times == [p \in Parts |-> once(local, p) + once(capsule, p)]
           gone == Gone(local \cup capsule)
<1>1. /\ releases' = [p \in Parts |-> releases[p] + times[p]]
      /\ holder' = [p \in Parts |-> IF times[p] = 0 THEN holder[p] ELSE "released"]
      /\ lent' = IF IsNumpy /\ times[1] > 0 THEN lent \ {"buffer"} ELSE lent
  BY DEF Releasing
<1>2. \A p \in Parts : p \in gone <=> p \in local \cup InStream(local) \/ p \in capsule \cup InStream(capsule)
  BY DEF InStream, Gone
<1>3. ASSUME NEW p \in Parts
      PROVE  ~(p \in local \cup InStream(local) /\ p \in capsule \cup InStream(capsule))
  BY PartFacts DEF InStream, OwnInv
<1>4. ASSUME NEW p \in Parts PROVE times[p] = IF p \in gone THEN 1 ELSE 0
  <2>1. times[p] = once(local, p) + once(capsule, p)
    OBVIOUS
  <2>2. p \in gone <=> p \in local \cup InStream(local) \/ p \in capsule \cup InStream(capsule)
    BY <1>2
  <2> HIDE DEF gone, times
  <2>3. QED
    BY <1>3, <2>1, <2>2
<1>5. gone \subseteq Parts /\ \A p \in gone : holder[p] # "released"
  BY DEF InStream, Gone
<1>6. IsNumpy => 1 \in Parts
  BY PartFacts, SourceFacts DEF OwnInv, IsNumpy
<1> HIDE DEF times, gone
<1>7. holder' = [p \in Parts |-> IF p \in gone THEN "released" ELSE holder[p]]
  BY <1>1, <1>4
<1>8. releases' = [p \in Parts |-> releases[p] + IF p \in gone THEN 1 ELSE 0]
  BY <1>1, <1>4
<1>9. lent' = IF IsNumpy /\ 1 \in gone THEN lent \ {"buffer"} ELSE lent
  BY <1>1, <1>4, <1>6
<1>10. QED
  BY <1>5, <1>7, <1>8, <1>9 DEF gone

\* The end of a call: everything that was taken over is gone.
LEMMA EndKeeps ==
    ASSUME OwnInv, pc \notin {"build", "refused"}, pc' = "done", armed' = {},
           outcome' \in {"returned", "raised"}, handle' \in {"none", "open", "unopened", "freed"},
           UNCHANGED <<source, function, process, calls, got, batch>>,
           NEW gone \in SUBSET Parts,
           \A p \in Parts : p \in gone <=> holder[p] \in {"local", "capsule", "stream"},
           holder' = [p \in Parts |-> IF p \in gone THEN "released" ELSE holder[p]],
           releases' = [p \in Parts |-> releases[p] + IF p \in gone THEN 1 ELSE 0],
           lent' = IF IsNumpy /\ 1 \in gone THEN lent \ {"buffer"} ELSE lent
    PROVE  OwnInv'
<1>1. Parts' = Parts /\ Arrays' = Arrays /\ (IsNumpy' <=> IsNumpy) /\ UseInv'
  BY SameSource DEF OwnInv
<1>2. holder' \in [Parts -> Holders] /\ releases' \in [Parts -> Nat]
  BY DEF OwnInv, OwnTyped, Holders
<1>3. OwnTyped'
  BY <1>1, <1>2 DEF OwnInv, OwnTyped, Places
<1>4. CountInv'
  BY <1>1 DEF OwnInv, OwnTyped, CountInv
<1>5. \A p \in Parts : holder'[p] \in {"unmade", "producer", "released"}
  BY DEF OwnInv, OwnTyped, Holders
<1>6. CapsuleInv'
  BY <1>1, <1>5 DEF CapsuleInv
<1>7. WhereInv'
  BY <1>1, <1>5 DEF WhereInv, Outside, InTable
<1>8. NumpyInv'
  <2>1. \A p \in Parts : (holder'[p] = "producer" <=> holder[p] = "producer")
                          /\ (holder'[p] = "unmade" <=> holder[p] = "unmade")
    OBVIOUS
  <2>2. {Stream, Schema, Copy} \subseteq Parts /\ (IsNumpy => 1 \in Parts)
    BY PartFacts, SourceFacts DEF OwnInv, IsNumpy
  <2>3. QED
    BY <1>1, <1>5, <2>1, <2>2
       DEF NumpyInv, OwnInv, OwnTyped, Stream, Schema, Copy, Accepted
<1>9. QED
  BY <1>1, <1>3, <1>4, <1>6, <1>7, <1>8 DEF OwnInv

LEMMA LeaveKeeps ==
    ASSUME OwnInv, NEW how \in {"returned", "raised"}, Leave(how), pc \notin {"build", "refused"},
           handle' \in {"none", "open", "unopened", "freed"}
    PROVE  OwnInv'
<1>1. /\ pc' = "done" /\ armed' = {} /\ outcome' = how /\ Releasing(Held, armed)
      /\ UNCHANGED <<source, function, process, calls, got, batch>>
  BY DEF Leave, callVars
<1> DEFINE gone == Gone(Held \cup armed)
<1>2. /\ gone \subseteq Parts
      /\ holder' = [p \in Parts |-> IF p \in gone THEN "released" ELSE holder[p]]
      /\ releases' = [p \in Parts |-> releases[p] + IF p \in gone THEN 1 ELSE 0]
      /\ lent' = IF IsNumpy /\ 1 \in gone THEN lent \ {"buffer"} ELSE lent
  <2>1. Held \in SUBSET Parts /\ armed \in SUBSET Parts
    BY DEF Held, OwnInv, OwnTyped
  <2>2. (\A p \in Held : holder[p] = "local") /\ \A p \in armed : holder[p] = "capsule"
    BY <2>1 DEF Held, OwnInv, CapsuleInv
  <2>3. QED
    BY <1>1, <2>1, <2>2, ReleasingOnce
<1>3. \A p \in Parts : p \in gone <=> holder[p] \in {"local", "capsule", "stream"}
  BY PartFacts DEF Gone, InStream, Held, OwnInv, OwnTyped, CapsuleInv
<1> HIDE DEF gone
<1>4. QED
  BY <1>1, <1>2, <1>3, EndKeeps

\* get_schema fails with the first batch taken out of the stream.
LEMMA SchemaRaisesKeeps ==
    ASSUME OwnInv, SchemaRaises
    PROVE  OwnInv'
<1>1. /\ pc = "next" /\ got = 0 /\ source.batches > 0
      /\ pc' = "done" /\ armed' = armed /\ outcome' = "raised" /\ Releasing(Held \cup {1}, {})
      /\ UNCHANGED <<source, function, process, calls, got, batch, handle>>
  BY DEF SchemaRaises, At, callVars, fileVars
<1>2. 1 \in Arrays /\ {Stream, Schema, Copy, 1} \subseteq Parts
  BY <1>1, PartFacts, SourceFacts DEF OwnInv
<1>3. /\ holder[1] = "stream" /\ holder[Stream] = "local"
      /\ \A p \in Parts : holder[p] # "capsule"
  BY <1>1, <1>2, PartFacts DEF OwnInv, OwnTyped, WhereInv, InTable
<1>4. armed = {}
  BY <1>3 DEF OwnInv, OwnTyped, CapsuleInv
<1> DEFINE owners == Held \cup {1}
           gone == Gone(owners \cup {})
<1>5. /\ owners \in SUBSET Parts /\ {} \in SUBSET Parts
      /\ \A p \in owners : holder[p] \in {"local", "stream"}
  BY <1>2, <1>3 DEF Held
<1>6. /\ gone \subseteq Parts
      /\ holder' = [p \in Parts |-> IF p \in gone THEN "released" ELSE holder[p]]
      /\ releases' = [p \in Parts |-> releases[p] + IF p \in gone THEN 1 ELSE 0]
      /\ lent' = IF IsNumpy /\ 1 \in gone THEN lent \ {"buffer"} ELSE lent
  <2> HIDE DEF owners
  <2>1. Releasing(owners, {})
    BY <1>1 DEF owners
  <2>2. QED
    BY <1>5, <2>1, ReleasingOnce
<1>7. \A p \in Parts : p \in gone <=> holder[p] \in {"local", "capsule", "stream"}
  BY <1>2, <1>3, PartFacts DEF Gone, InStream, Held, OwnInv, OwnTyped
<1>8. handle' \in {"none", "open", "unopened", "freed"}
  BY <1>1 DEF OwnInv, OwnTyped
<1> HIDE DEF gone
<1>9. QED
  BY <1>1, <1>4, <1>6, <1>7, <1>8, EndKeeps

\* A batch that was written or read is given back.
LEMMA GiveBackKeeps ==
    ASSUME OwnInv, pc \in {"write", "read"}, pc' = "next", Releasing({got}, {}),
           UNCHANGED <<source, function, process, calls, got, batch, handle, armed, outcome>>
    PROVE  OwnInv'
<1>1. Parts' = Parts /\ Arrays' = Arrays /\ (IsNumpy' <=> IsNumpy) /\ UseInv'
  BY SameSource DEF OwnInv
<1>2. got \in Arrays /\ got \in Parts /\ got # Stream /\ got # Schema /\ got # Copy
  BY PartFacts, SourceFacts DEF OwnInv, OwnTyped, WhereInv, InTable
<1>3. holder[got] = "local"
  BY <1>2, PartFacts DEF OwnInv, WhereInv, InTable
<1>4. Gone({got} \cup {}) = {got}
  BY <1>2 DEF Gone, InStream
<1>5. /\ holder' = [p \in Parts |-> IF p = got THEN "released" ELSE holder[p]]
      /\ releases' = [p \in Parts |-> releases[p] + IF p = got THEN 1 ELSE 0]
      /\ lent' = IF IsNumpy /\ 1 = got THEN lent \ {"buffer"} ELSE lent
  <2>1. {got} \in SUBSET Parts /\ {} \in SUBSET Parts /\ \A p \in {got} : holder[p] = "local"
    BY <1>2, <1>3
  <2>2. LET gone == Gone({got} \cup {})
        IN /\ holder' = [p \in Parts |-> IF p \in gone THEN "released" ELSE holder[p]]
           /\ releases' = [p \in Parts |-> releases[p] + IF p \in gone THEN 1 ELSE 0]
           /\ lent' = IF IsNumpy /\ 1 \in gone THEN lent \ {"buffer"} ELSE lent
    BY <2>1, ReleasingOnce
  <2>3. QED
    BY <1>4, <2>2
<1>6. holder' \in [Parts -> Holders] /\ releases' \in [Parts -> Nat]
  BY <1>5 DEF OwnInv, OwnTyped, Holders
<1>7. OwnTyped'
  BY <1>1, <1>5, <1>6 DEF OwnInv, OwnTyped, Places
<1>8. CountInv'
  BY <1>1, <1>3, <1>5 DEF OwnInv, OwnTyped, CountInv
<1>9. CapsuleInv'
  BY <1>1, <1>2, <1>3, <1>5, PartFacts DEF OwnInv, OwnTyped, CapsuleInv
<1>10. WhereInv'
  BY <1>1, <1>2, <1>5, PartFacts DEF OwnInv, OwnTyped, WhereInv, Outside, InTable
<1>11. NumpyInv'
  <2>1. IsNumpy => got = 1 /\ {Stream, Schema, Copy, 1} \subseteq Parts
    BY <1>2, PartFacts, SourceFacts DEF OwnInv, IsNumpy
  <2>2. QED
    BY <1>1, <1>2, <1>3, <1>5, <2>1
       DEF OwnInv, OwnTyped, NumpyInv, WhereInv, InTable, Accepted
<1>12. QED
  BY <1>1, <1>7, <1>8, <1>9, <1>10, <1>11 DEF OwnInv

------------------------------------------------------------------------------
(* Every action keeps OwnInv: first those that move structures about, then those  *)
(* that only go on.                                                               *)

LEMMA BuildKeeps ==
    ASSUME OwnInv, Build
    PROVE  OwnInv'
<1>1. source' = source /\ function' = function
  BY DEF Build, callVars
<1>2. Parts' = Parts /\ Arrays' = Arrays /\ (IsNumpy' <=> IsNumpy) /\ UseInv'
  BY <1>1, SameSource DEF OwnInv
<1>3. pc = "build" /\ IsNumpy /\ ~batch
  BY DEF Build, At, OwnInv, NumpyInv
<1>4. /\ {Stream, Schema, Copy} \subseteq Parts
      /\ source.batches = 1 => Arrays = {1} /\ 1 \in Parts
      /\ IsNumpy => source.batches = 1
  BY PartFacts, SourceFacts DEF OwnInv, IsNumpy
<1>5. \A p \in Parts : holder[p] = "unmade"
  <2>1. pc = "build"
    BY DEF Build, At
  <2>2. QED
    BY <2>1 DEF OwnInv, WhereInv
<1>6. /\ UNCHANGED <<armed, releases, got, process, calls, handle>>
      /\ \/ /\ pc' = "idle" /\ batch' = TRUE /\ Accepted(source.columns)
            /\ lent' = lent \cup {"columns", "buffer"}
            /\ holder' = [p \in Parts |-> IF p \in {Schema, 1} THEN "producer" ELSE holder[p]]
            /\ UNCHANGED outcome
         \/ pc' = "refused" /\ outcome' = "raised" /\ UNCHANGED <<batch, holder, lent>>
  BY DEF Build, Move, Borrowed, callVars, fileVars
<1>7. OwnTyped'
  BY <1>1, <1>2, <1>5, <1>6 DEF OwnInv, OwnTyped, Places, Holders
<1>8. CountInv'
  BY <1>2, <1>5, <1>6 DEF OwnInv, CountInv
<1>9. CapsuleInv'
  BY <1>2, <1>5, <1>6 DEF OwnInv, CapsuleInv
<1>10. WhereInv'
  BY <1>2, <1>5, <1>6 DEF WhereInv, InTable
<1>11. NumpyInv'
  BY <1>1, <1>2, <1>3, <1>4, <1>5, <1>6, PartFacts DEF OwnInv, NumpyInv
<1>12. QED
  BY <1>2, <1>7, <1>8, <1>9, <1>10, <1>11 DEF OwnInv

LEMMA ForgetBatchKeeps ==
    ASSUME OwnInv, ForgetBatch
    PROVE  OwnInv'
<1>1. source' = source /\ function' = function
  BY DEF ForgetBatch, callVars
<1>2. Parts' = Parts /\ Arrays' = Arrays /\ (IsNumpy' <=> IsNumpy) /\ UseInv'
  BY <1>1, SameSource DEF OwnInv
<1>3. /\ batch
      /\ IsNumpy
      /\ pc \notin {"build", "stream"}
      /\ pc \in {"idle", "refused", "done"} \/ function = "consume"
  BY DEF ForgetBatch, PythonRuns, OwnInv, NumpyInv
<1>4. /\ {Stream, Schema, Copy} \subseteq Parts
      /\ source.batches = 1 => Arrays = {1} /\ 1 \in Parts
      /\ IsNumpy => source.batches = 1
  BY PartFacts, SourceFacts DEF OwnInv, IsNumpy
<1>5. /\ batch' = FALSE
      /\ holder' = [p \in Parts |-> IF holder[p] = "producer" THEN "released" ELSE holder[p]]
  BY DEF ForgetBatch
<1>6. UNCHANGED <<pc, got, outcome, armed, process, calls, handle>>
  BY DEF ForgetBatch, callVars, fileVars
<1>7. releases' = [p \in Parts |-> releases[p] + IF holder[p] = "producer" THEN 1 ELSE 0]
  BY DEF ForgetBatch
<1>8. lent' = lent \ ({"columns"} \cup IF holder[1] = "producer" THEN {"buffer"} ELSE {})
  <2>1. {p \in Parts : holder[p] = "producer"} = {} <=> holder[1] # "producer"
    BY <1>3, <1>4 DEF OwnInv, NumpyInv
  <2>2. lent' = lent \ ({"columns"}
                        \cup IF {p \in Parts : holder[p] = "producer"} = {} THEN {} ELSE {"buffer"})
    BY DEF ForgetBatch
  <2>3. QED
    BY <2>1, <2>2
<1>9. /\ holder' \in [Parts -> Holders]
      /\ releases' \in [Parts -> Nat]
      /\ lent' \subseteq {"arrays", "columns", "buffer"}
  BY <1>5, <1>7, <1>8 DEF OwnInv, OwnTyped, Holders
<1>10. OwnTyped'
  BY <1>1, <1>2, <1>5, <1>6, <1>9 DEF OwnInv, OwnTyped
<1>11. CountInv'
  BY <1>2, <1>5, <1>7 DEF OwnInv, CountInv
<1>12. CapsuleInv'
  BY <1>2, <1>4, <1>5, <1>6 DEF OwnInv, CapsuleInv
<1>13. WhereInv'
  BY <1>1, <1>2, <1>3, <1>4, <1>5, <1>6 DEF OwnInv, WhereInv
<1>14. NumpyInv'
  BY <1>1, <1>2, <1>4, <1>5, <1>6, <1>8 DEF OwnInv, NumpyInv
<1>15. QED
  BY <1>2, <1>10, <1>11, <1>12, <1>13, <1>14 DEF OwnInv

LEMMA BeginKeeps ==
    ASSUME OwnInv, Begin
    PROVE  OwnInv'
<1>1. source' = source /\ function' = function
  BY DEF Begin
<1>2. Parts' = Parts /\ Arrays' = Arrays /\ (IsNumpy' <=> IsNumpy) /\ UseInv'
  BY <1>1, SameSource DEF OwnInv
<1>3. /\ {Stream, Schema, Copy} \subseteq Parts
      /\ source.batches = 1 => Arrays = {1} /\ 1 \in Parts
      /\ IsNumpy => source.batches = 1
  BY PartFacts, SourceFacts DEF OwnInv, IsNumpy
<1>4. pc \in {"idle", "done"} /\ (IsNumpy => batch) /\ source.batches \in Nat
  BY SourceFacts DEF Begin, OwnInv
<1>5. armed = {}
  BY <1>4 DEF OwnInv, OwnTyped, WhereInv, CapsuleInv, Outside
<1>6. ~IsNumpy => lent = {} /\ ~batch
  BY DEF OwnInv, NumpyInv
<1>7. calls' \in 0 .. MaxCalls
  BY MaxCallsAssumption DEF Begin, OwnInv, OwnTyped
<1>8. got' = 0 /\ armed' = {} /\ handle' = "none" /\ UNCHANGED <<lent, batch, process>>
  BY DEF Begin
<1>9. IF IsNumpy THEN UNCHANGED <<holder, releases>>
      ELSE holder' = [p \in Parts |-> "unmade"] /\ releases' = [p \in Parts |-> 0]
  BY DEF Begin
<1>10. /\ pc' \in {"done", "import", "stream"}
       /\ outcome' \in {"none", "raised"}
       /\ pc' = "import" => source.batches = 1
  BY SourceFacts DEF Begin, OwnInv
<1>11. OwnTyped'
  BY <1>1, <1>2, <1>4, <1>7, <1>8, <1>9, <1>10 DEF OwnInv, OwnTyped, Places, Holders
<1>12. CountInv'
  BY <1>2, <1>9 DEF OwnInv, CountInv
<1>13. CapsuleInv'
  BY <1>2, <1>5, <1>8, <1>9 DEF OwnInv, CapsuleInv
<1>14. WhereInv'
  BY <1>1, <1>2, <1>4, <1>8, <1>9, <1>10 DEF OwnInv, WhereInv, Outside, InTable
<1>15. NumpyInv'
  BY <1>1, <1>2, <1>4, <1>8, <1>9, <1>10 DEF OwnInv, NumpyInv
<1>16. QED
  BY <1>2, <1>11, <1>12, <1>13, <1>14, <1>15 DEF OwnInv

LEMMA ExportStreamKeeps ==
    ASSUME OwnInv, ExportStream
    PROVE  OwnInv'
<1>1. source' = source /\ function' = function
  BY DEF ExportStream, Goto, callVars
<1>2. Parts' = Parts /\ Arrays' = Arrays /\ (IsNumpy' <=> IsNumpy) /\ UseInv'
  BY <1>1, SameSource DEF OwnInv
<1>3. /\ {Stream, Schema, Copy} \subseteq Parts
      /\ source.batches = 1 => Arrays = {1} /\ 1 \in Parts
      /\ IsNumpy => source.batches = 1
  BY PartFacts, SourceFacts DEF OwnInv, IsNumpy
<1>4. pc = "stream" /\ (IsNumpy => holder[Schema] = "producer")
  BY DEF ExportStream, Exported, At
<1>5. \A p \in Parts : p \in {Stream, Schema, Copy} \/ p \in Arrays
  BY PartFacts DEF OwnInv
<1>6. \A p \in Parts : holder[p] \in {"unmade", "producer"}
  <2>1. CASE IsNumpy
    BY <1>3, <1>4, <1>5, <2>1 DEF OwnInv, NumpyInv
  <2>2. CASE ~IsNumpy
    BY <1>4, <2>2 DEF OwnInv, WhereInv
  <2>3. QED
    BY <2>1, <2>2
<1>7. armed = {}
  BY <1>6 DEF OwnInv, OwnTyped, CapsuleInv
<1>8. got = 0 /\ (IsNumpy => Accepted(source.columns) /\ "buffer" \in lent)
  BY <1>4 DEF OwnInv, WhereInv, NumpyInv
<1>9. holder' = [p \in Parts |-> CASE p = Stream -> "capsule" [] p = Copy -> "unmade" [] OTHER -> "stream"]
  BY DEF ExportStream
<1>10. /\ pc' = "steal"
       /\ armed' = {Stream}
       /\ UNCHANGED <<got, releases, lent, handle, batch, process, calls, outcome>>
  BY DEF ExportStream, Goto, callVars, fileVars
<1>11. OwnTyped'
  BY <1>1, <1>2, <1>3, <1>9, <1>10 DEF OwnInv, OwnTyped, Places, Holders
<1>12. CountInv'
  BY <1>2, <1>6, <1>9, <1>10 DEF OwnInv, CountInv
<1>13. CapsuleInv'
  BY <1>2, <1>9, <1>10, PartFacts DEF OwnInv, CapsuleInv
<1>14. WhereInv'
  BY <1>2, <1>8, <1>9, <1>10 DEF WhereInv, Outside, InTable
<1>15. NumpyInv'
  BY <1>1, <1>2, <1>3, <1>4, <1>9, <1>10 DEF OwnInv, NumpyInv
<1>16. QED
  BY <1>2, <1>11, <1>12, <1>13, <1>14, <1>15 DEF OwnInv

LEMMA StealStreamKeeps ==
    ASSUME OwnInv, StealStream
    PROVE  OwnInv'
<1>1. source' = source /\ function' = function
  BY DEF StealStream, Goto, callVars
<1>2. Parts' = Parts /\ Arrays' = Arrays /\ (IsNumpy' <=> IsNumpy) /\ UseInv'
  BY <1>1, SameSource DEF OwnInv
<1>3. /\ {Stream, Schema, Copy} \subseteq Parts
      /\ source.batches = 1 => Arrays = {1} /\ 1 \in Parts
      /\ IsNumpy => source.batches = 1
  BY PartFacts, SourceFacts DEF OwnInv, IsNumpy
<1>4. pc = "steal"
  BY DEF StealStream, At
<1>5. \A p \in Parts : holder[p] = CASE p = Stream -> "capsule" [] p = Copy -> "unmade" [] OTHER -> "stream"
  BY <1>4 DEF OwnInv, WhereInv
<1>6. got = 0
  BY <1>4 DEF OwnInv, WhereInv
<1>7. holder' = [p \in Parts |-> IF p = Stream THEN "local" ELSE holder[p]]
  BY DEF StealStream, Steal, Move
<1>8. /\ pc' = "next"
      /\ armed' = armed \ {Stream}
      /\ UNCHANGED <<got, releases, lent, handle, batch, process, calls, outcome>>
  BY DEF StealStream, Steal, Goto, callVars, fileVars
<1>9. OwnTyped'
  BY <1>1, <1>2, <1>7, <1>8 DEF OwnInv, OwnTyped, Places, Holders
<1>10. CountInv'
  BY <1>2, <1>5, <1>7, <1>8 DEF OwnInv, CountInv
<1>11. CapsuleInv'
  BY <1>2, <1>3, <1>7, <1>8 DEF OwnInv, CapsuleInv
<1>12. WhereInv'
  BY <1>2, <1>4, <1>7, <1>8, PartFacts DEF OwnInv, WhereInv, Outside
<1>13. NumpyInv'
  BY <1>1, <1>2, <1>3, <1>4, <1>5, <1>7, <1>8, PartFacts DEF OwnInv, NumpyInv
<1>14. QED
  BY <1>2, <1>9, <1>10, <1>11, <1>12, <1>13 DEF OwnInv

LEMMA CallArrayKeeps ==
    ASSUME OwnInv, CallArray
    PROVE  OwnInv'
<1>1. source' = source /\ function' = function
  BY DEF CallArray, Goto, callVars
<1>2. Parts' = Parts /\ Arrays' = Arrays /\ (IsNumpy' <=> IsNumpy) /\ UseInv'
  BY <1>1, SameSource DEF OwnInv
<1>3. /\ {Stream, Schema, Copy} \subseteq Parts
      /\ source.batches = 1 => Arrays = {1} /\ 1 \in Parts
      /\ IsNumpy => source.batches = 1
  BY PartFacts, SourceFacts DEF OwnInv, IsNumpy
<1>4. pc = "import" /\ source.batches = 1 /\ got = 0
  BY DEF CallArray, At, OwnInv, WhereInv
<1>5. ~IsNumpy => \A p \in Parts : holder[p] = "unmade"
  BY <1>4 DEF OwnInv, WhereInv
<1>6. ~IsNumpy => armed = {}
  BY <1>5 DEF OwnInv, OwnTyped, CapsuleInv
<1>7. UNCHANGED <<got, releases, lent, handle, batch, calls, outcome>>
  BY DEF CallArray, Goto, callVars, fileVars
<1>8. \/ IsNumpy /\ process' = "dead" /\ UNCHANGED <<pc, armed, holder>>
      \/ /\ ~IsNumpy /\ pc' = "schema" /\ armed' \in {{1}, {Schema, 1}} /\ UNCHANGED process
         /\ holder' = [p \in Parts |-> IF p \in armed' THEN "capsule" ELSE holder[p]]
  BY DEF CallArray, Move, Goto, callVars
<1>9. OwnTyped'
  BY <1>1, <1>2, <1>3, <1>4, <1>7, <1>8 DEF OwnInv, OwnTyped, Places, Holders
<1>10. CountInv'
  BY <1>2, <1>5, <1>7, <1>8 DEF OwnInv, CountInv
<1>11. CapsuleInv'
  BY <1>2, <1>5, <1>8 DEF OwnInv, CapsuleInv
<1>12. WhereInv'
  BY <1>1, <1>2, <1>4, <1>7, <1>8, PartFacts DEF OwnInv, WhereInv, Outside, InTable
<1>13. NumpyInv'
  BY <1>1, <1>2, <1>7, <1>8 DEF OwnInv, NumpyInv
<1>14. QED
  BY <1>2, <1>9, <1>10, <1>11, <1>12, <1>13 DEF OwnInv

LEMMA NextBatchKeeps ==
    ASSUME OwnInv, NextBatch
    PROVE  OwnInv'
<1>1. source' = source /\ function' = function
  BY DEF NextBatch, Goto, callVars
<1>2. Parts' = Parts /\ Arrays' = Arrays /\ (IsNumpy' <=> IsNumpy) /\ UseInv'
  BY <1>1, SameSource DEF OwnInv
<1>3. /\ {Stream, Schema, Copy} \subseteq Parts
      /\ source.batches = 1 => Arrays = {1} /\ 1 \in Parts
      /\ IsNumpy => source.batches = 1
  BY PartFacts, SourceFacts DEF OwnInv, IsNumpy
<1>4. pc = "next" /\ got < source.batches /\ got \in Nat /\ source.batches \in Nat
  BY SourceFacts DEF NextBatch, At, OwnInv, OwnTyped
<1>5. got + 1 \in Arrays
  BY <1>4, PartFacts DEF OwnInv
<1>6. holder[Copy] \in {"unmade", "local"} /\ holder[got + 1] = "stream"
  BY <1>4, <1>5 DEF OwnInv, WhereInv, InTable
<1>7. got' = got + 1 /\ got' \in 0 .. source.batches
  BY <1>4 DEF NextBatch
<1>8. holder' = [p \in Parts |-> IF p \in {Copy, got + 1} THEN "local" ELSE holder[p]]
  BY DEF NextBatch, Move
<1>9. /\ pc' \in {"read", "open", "write"}
      /\ UNCHANGED <<armed, releases, lent, handle, batch, process, calls, outcome>>
  BY DEF NextBatch, Goto, callVars, fileVars
<1>10. OwnTyped'
  BY <1>1, <1>2, <1>7, <1>8, <1>9 DEF OwnInv, OwnTyped, Places, Holders
<1>11. CountInv'
  BY <1>2, <1>6, <1>8, <1>9 DEF OwnInv, CountInv
<1>12. CapsuleInv'
  BY <1>2, <1>3, <1>6, <1>8, <1>9 DEF OwnInv, CapsuleInv
<1>13. WhereInv'
  BY <1>2, <1>4, <1>7, <1>8, <1>9, PartFacts DEF OwnInv, WhereInv, Outside, InTable
<1>14. NumpyInv'
  BY <1>1, <1>2, <1>3, <1>4, <1>6, <1>8, <1>9 DEF OwnInv, NumpyInv
<1>15. QED
  BY <1>2, <1>10, <1>11, <1>12, <1>13, <1>14 DEF OwnInv

LEMMA ForgetArraysKeeps ==
    ASSUME OwnInv, ForgetArrays
    PROVE  OwnInv'
<1>1. source' = source /\ function' = function
  BY DEF ForgetArrays, callVars
<1>2. Parts' = Parts /\ Arrays' = Arrays /\ (IsNumpy' <=> IsNumpy) /\ UseInv'
  BY <1>1, SameSource DEF OwnInv
<1>3. OwnTyped'
  BY <1>2 DEF ForgetArrays, callVars, fileVars, arrowVars, OwnInv, OwnTyped
<1>4. CountInv'
  BY <1>2 DEF ForgetArrays, arrowVars, OwnInv, CountInv
<1>5. CapsuleInv'
  BY <1>2 DEF ForgetArrays, arrowVars, OwnInv, CapsuleInv
<1>6. WhereInv'
  BY <1>1, <1>2 DEF ForgetArrays, arrowVars, OwnInv, WhereInv
<1>7. NumpyInv'
  BY <1>1, <1>2 DEF ForgetArrays, arrowVars, OwnInv, NumpyInv
<1>8. QED
  BY <1>2, <1>3, <1>4, <1>5, <1>6, <1>7 DEF OwnInv

LEMMA StealSchemaKeeps ==
    ASSUME OwnInv, StealSchema
    PROVE  OwnInv'
<1>1. source' = source /\ function' = function
  BY DEF StealSchema, Goto, callVars
<1>2. Parts' = Parts /\ Arrays' = Arrays /\ (IsNumpy' <=> IsNumpy) /\ UseInv'
  BY <1>1, SameSource DEF OwnInv
<1>3. OwnTyped'
  BY <1>2
     DEF StealSchema, Steal, Move, Goto, callVars, fileVars, OwnInv, OwnTyped, Places, Holders
<1>4. CountInv'
  BY <1>2 DEF StealSchema, Steal, Move, At, OwnInv, CountInv, WhereInv
<1>5. CapsuleInv'
  BY <1>2, PartFacts DEF StealSchema, Steal, Move, OwnInv, CapsuleInv
<1>6. WhereInv'
  BY <1>1, <1>2, PartFacts
     DEF StealSchema, Steal, Move, Goto, At, OwnInv, WhereInv, Outside, InTable
<1>7. NumpyInv'
  BY <1>2 DEF StealSchema, Steal, Move, Goto, At, OwnInv, WhereInv, NumpyInv
<1>8. QED
  BY <1>2, <1>3, <1>4, <1>5, <1>6, <1>7 DEF OwnInv

LEMMA StealArrayKeeps ==
    ASSUME OwnInv, StealArray
    PROVE  OwnInv'
<1>1. source' = source /\ function' = function
  BY DEF StealArray, Goto, callVars
<1>2. Parts' = Parts /\ Arrays' = Arrays /\ (IsNumpy' <=> IsNumpy) /\ UseInv'
  BY <1>1, SameSource DEF OwnInv
<1>3. OwnTyped'
  BY <1>2
     DEF StealArray, Steal, Move, Goto, At, Running, callVars, fileVars, arrowVars, OwnInv,
         OwnTyped, Places, Holders
<1>4. CountInv'
  BY <1>2 DEF StealArray, Steal, Move, At, arrowVars, OwnInv, CountInv, WhereInv
<1>5. CapsuleInv'
  BY <1>2, PartFacts DEF StealArray, Steal, Move, arrowVars, OwnInv, CapsuleInv
<1>6. WhereInv'
  BY <1>1, <1>2, PartFacts
     DEF StealArray, Steal, Move, Goto, At, arrowVars, OwnInv, WhereInv, Outside, InTable
<1>7. NumpyInv'
  BY <1>2 DEF StealArray, Steal, Move, Goto, At, arrowVars, OwnInv, WhereInv, NumpyInv
<1>8. QED
  BY <1>2, <1>3, <1>4, <1>5, <1>6, <1>7 DEF OwnInv

LEMMA MakeStreamKeeps ==
    ASSUME OwnInv, MakeStream
    PROVE  OwnInv'
<1>1. source' = source /\ function' = function
  BY DEF MakeStream, Goto, callVars
<1>2. Parts' = Parts /\ Arrays' = Arrays /\ (IsNumpy' <=> IsNumpy) /\ UseInv'
  BY <1>1, SameSource DEF OwnInv
<1>3. OwnTyped'
  BY <1>2 DEF MakeStream, Goto, callVars, fileVars, OwnInv, OwnTyped, Places, Holders
<1>4. CountInv'
  BY <1>2, PartFacts DEF MakeStream, At, OwnInv, CountInv, WhereInv
<1>5. CapsuleInv'
  BY <1>2, PartFacts DEF MakeStream, At, OwnInv, CapsuleInv, WhereInv
<1>6. WhereInv'
  BY <1>2, PartFacts DEF MakeStream, Goto, At, OwnInv, WhereInv, Outside
<1>7. NumpyInv'
  BY <1>2 DEF MakeStream, Goto, At, OwnInv, WhereInv, NumpyInv
<1>8. QED
  BY <1>2, <1>3, <1>4, <1>5, <1>6, <1>7 DEF OwnInv

LEMMA OpenKeeps ==
    ASSUME OwnInv, Open
    PROVE  OwnInv'
<1>1. source' = source /\ function' = function
  BY DEF Open, Goto, callVars
<1>2. Parts' = Parts /\ Arrays' = Arrays /\ (IsNumpy' <=> IsNumpy) /\ UseInv'
  BY <1>1, SameSource DEF OwnInv
<1>3. OwnTyped'
  BY <1>2 DEF Open, Goto, callVars, arrowVars, OwnInv, OwnTyped, Places
<1>4. CountInv'
  BY <1>2 DEF Open, arrowVars, OwnInv, CountInv
<1>5. CapsuleInv'
  BY <1>2 DEF Open, arrowVars, OwnInv, CapsuleInv
<1>6. WhereInv'
  BY <1>2 DEF Open, Goto, At, arrowVars, OwnInv, WhereInv, Outside, InTable
<1>7. NumpyInv'
  BY <1>1, <1>2 DEF Open, Goto, At, arrowVars, OwnInv, NumpyInv
<1>8. QED
  BY <1>2, <1>3, <1>4, <1>5, <1>6, <1>7 DEF OwnInv

------------------------------------------------------------------------------
(* The invariant is inductive. *)

LEMMA InitOwns == Init => OwnInv
<1> SUFFICES ASSUME Init PROVE OwnInv
  OBVIOUS
<1>1. UseInv
  BY DEF Init, UseInv
<1>2. /\ source.batches \in Nat
      /\ IsNumpy => 1 \in Parts
      /\ {Stream, Schema, Copy} \subseteq Parts
  BY <1>1, PartFacts, SourceFacts DEF IsNumpy
<1>3. \A p \in Parts : holder[p] = "unmade" /\ releases[p] = 0
  BY DEF Init
<1>4. OwnTyped
  <2>1. holder \in [Parts -> Holders] /\ releases \in [Parts -> Nat]
    BY DEF Init, Holders
  <2>2. got \in 0 .. source.batches /\ calls \in 0 .. MaxCalls
    BY <1>2, MaxCallsAssumption DEF Init
  <2>3. pc \in Places /\ lent \subseteq {"arrays", "columns", "buffer"} /\ batch \in BOOLEAN
    BY DEF Init, Places
  <2>4. QED
    BY <2>1, <2>2, <2>3 DEF Init, OwnTyped
<1>5. CountInv /\ CapsuleInv
  BY <1>3 DEF Init, CountInv, CapsuleInv
<1>6. WhereInv
  BY <1>3 DEF Init, WhereInv, Outside, InTable
<1>7. NumpyInv
  BY <1>2, <1>3 DEF Init, NumpyInv
<1>8. QED
  BY <1>1, <1>4, <1>5, <1>6, <1>7 DEF OwnInv

LEMMA OwnKept == OwnInv /\ [Next]_vars => OwnInv'
<1> SUFFICES ASSUME OwnInv, [Next]_vars PROVE OwnInv'
  OBVIOUS
<1>1. ASSUME NEW how \in {"returned", "raised"}, Leave(how),
             \E place \in Places \ {"build", "refused"} : At(place),
             handle' = handle \/ handle' \in {"unopened", "freed"}
      PROVE  OwnInv'
  BY <1>1, LeaveKeeps DEF At, OwnInv, OwnTyped
<1>2. CASE Build \/ ExportStream \/ StealStream \/ CallArray \/ StealSchema \/ StealArray
  BY <1>2, BuildKeeps, ExportStreamKeeps, StealStreamKeeps, CallArrayKeeps, StealSchemaKeeps,
     StealArrayKeeps
<1>3. CASE MakeStream \/ NextBatch \/ SchemaRaises \/ Open
  BY <1>3, MakeStreamKeeps, NextBatchKeeps, SchemaRaisesKeeps, OpenKeeps
<1>4. CASE ExportRaises \/ StealStreamRaises \/ StealSchemaRaises \/ MakeStreamRaises \/ NextRaises
  BY <1>1, <1>4
     DEF ExportRaises, StealStreamRaises, StealSchemaRaises, MakeStreamRaises, NextRaises,
     fileVars, Places
<1>5. CASE OpenFails \/ WriteFails \/ ReadEnds \/ NoBatches \/ CloseFile \/ CloseFails
             \/ WriteFile \/ WriteFileFails
  BY <1>1, <1>5
     DEF OpenFails, WriteFails, ReadEnds, NoBatches, CloseFile, CloseFails, WriteFile,
     WriteFileFails, fileVars, Places
<1>6. CASE Write
  BY <1>6, GiveBackKeeps DEF Write, At, Goto, callVars
<1>7. CASE Read
  BY <1>7, GiveBackKeeps DEF Read, At, Goto, callVars, fileVars
<1>8. CASE Begin \/ ForgetArrays \/ ForgetBatch
  BY <1>8, BeginKeeps, ForgetArraysKeeps, ForgetBatchKeeps
<1>9. CASE UNCHANGED vars
  BY <1>9, SameSource
     DEF vars, callVars, arrowVars, numpyVars, fileVars, OwnInv, OwnTyped, CountInv, CapsuleInv,
         WhereInv, NumpyInv, Stream, Schema, Copy, Accepted
<1>10. QED
  BY <1>2, <1>3, <1>4, <1>5, <1>6, <1>7, <1>8, <1>9 DEF Next, Step

------------------------------------------------------------------------------
(* The file. *)

\* A table that is being written has the batches before the one at hand, in order,
\* and is sealed with all of them or not at all.
TableInv ==
    function = "write_table" =>
      /\ pc \notin {"write_file", "read"}
      /\ outcome = "returned" => state = "sealed"
      /\ state = "sealed" => pc = "done" /\ groups = [k \in Arrays |-> Written(source, k)]
      /\ pc \notin {"done"} => state = "writing"
      /\ pc \notin InTable \cup {"done"} => groups = <<>>
      /\ pc \in InTable =>
           groups = [k \in 1 .. (IF pc = "next" THEN got ELSE got - 1) |-> Written(source, k)]

\* What is written is a row group of the file.
LEMMA WrittenIsGroup ==
    ASSUME OwnInv, pc \notin {"build", "refused"}, NEW k \in Arrays
    PROVE  Written(source, k) \in Groups
<1>1. PICK u \in Uses : source = u.source
  BY DEF OwnInv, UseInv
<1>2. u.source.kind = "numpy" => Accepted(u.source.columns)
  BY <1>1 DEF OwnInv, NumpyInv, IsNumpy
<1>3. source \in {v.source : v \in {v \in Uses : v.source.kind = "numpy" => Accepted(v.source.columns)}}
  BY <1>1, <1>2
<1>4. Written(source, k) \in {Written(source, j) : j \in 1 .. source.batches}
  BY DEF Arrays
<1>5. QED
  BY <1>3, <1>4 DEF Groups

LEMMA FileTyped ==
    ASSUME OwnInv, File!TypeOK, [Next]_vars
    PROVE  File!TypeOK'
<1>1. \/ UNCHANGED <<state, groups>>
      \/ state' \in {"writing", "sealed", "lost"} /\ groups' \in {groups, <<>>}
      \/ Write \/ WriteFile \/ WriteFileFails
  BY DEF Next, Step, vars, fileVars, Build, ExportStream, ExportRaises, StealStream, StealStreamRaises,
     CallArray, StealSchema, StealSchemaRaises, StealArray, MakeStream, MakeStreamRaises, NextBatch,
     NextRaises, SchemaRaises, Open, OpenFails, WriteFails, Read, ReadEnds, NoBatches, CloseFile,
     CloseFails, Begin, ForgetArrays, ForgetBatch, File!Seal, File!Lose
<1>2. <<>> \in Seq(Groups)
  OBVIOUS
<1>3. CASE Write
  <2>1. got \in Arrays /\ pc = "write"
    BY <1>3, PartFacts, SourceFacts DEF Write, At, OwnInv, OwnTyped, WhereInv, InTable
  <2>2. Written(source, got) \in Groups
    BY <2>1, WrittenIsGroup
  <2>3. QED
    BY <1>3, <2>2 DEF Write, File!Add, File!TypeOK
<1>4. CASE WriteFile \/ WriteFileFails
  <2>1. 1 \in Arrays /\ pc = "write_file"
    BY <1>4, PartFacts, SourceFacts DEF WriteFile, WriteFileFails, At, OwnInv, WhereInv
  <2>2. Written(source, 1) \in Groups
    BY <2>1, WrittenIsGroup
  <2>3. <<Written(source, 1)>> \in Seq(Groups)
    BY <2>2
  <2>4. groups' \in {<<>>, <<Written(source, 1)>>} /\ state' \in {"sealed", "lost"}
    BY <1>4 DEF WriteFile, WriteFileFails
  <2>5. QED
    BY <1>2, <2>3, <2>4 DEF File!TypeOK
<1>5. QED
  BY <1>1, <1>2, <1>3, <1>4 DEF File!TypeOK

\* The first n batches of the source, as they are written.
Prefix(n) == [k \in 1 .. n |-> Written(source, k)]

LEMMA PrefixFacts ==
    /\ Prefix(0) = <<>>
    /\ \A n \in Nat \ {0} : Append(Prefix(n - 1), Written(source, n)) = Prefix(n)
<1>1. Prefix(0) = <<>>
  BY DEF Prefix
<1>2. ASSUME NEW n \in Nat \ {0}
      PROVE  Append(Prefix(n - 1), Written(source, n)) = Prefix(n)
  <2> DEFINE old == Prefix(n - 1)  last == Written(source, n)  V == {Written(source, k) : k \in 1 .. n}
  <2>1. /\ old \in Seq(V)
        /\ Len(old) = n - 1
        /\ \A k \in 1 .. n - 1 : old[k] = Written(source, k)
    BY DEF Prefix
  <2>2. last \in V
    OBVIOUS
  <2> HIDE DEF V, old, last
  <2>3. /\ Append(old, last) \in Seq(V) /\ Len(Append(old, last)) = n
        /\ \A k \in 1 .. n : Append(old, last)[k] = IF k = n THEN last ELSE old[k]
    BY <2>1, <2>2
  <2>4. Append(old, last) = [k \in 1 .. n |-> Append(old, last)[k]]
    <3>1. Append(old, last) \in [1 .. n -> V]
      BY <2>3, LenProperties
    <3>2. QED
      BY <3>1
  <2>5. \A k \in 1 .. n : Append(old, last)[k] = Written(source, k)
    BY <2>1, <2>3 DEF last
  <2>6. Append(old, last) = [k \in 1 .. n |-> Written(source, k)]
    BY <2>4, <2>5
  <2>7. QED
    BY <2>6 DEF Prefix, old, last
<1>3. QED
  BY <1>1, <1>2

LEMMA TableKept ==
    ASSUME OwnInv, TableInv, [Next]_vars
    PROVE  TableInv'
<1> SUFFICES ASSUME function' = "write_table"
             PROVE  /\ pc' \notin {"write_file", "read"}
                    /\ outcome' = "returned" => state' = "sealed"
                    /\ state' = "sealed" => pc' = "done" /\ groups' = Prefix(source.batches)
                    /\ pc' \notin {"done"} => state' = "writing"
                    /\ pc' \notin InTable \cup {"done"} => groups' = <<>>
                    /\ pc' \in InTable => groups' = Prefix(IF pc' = "next" THEN got' ELSE got' - 1)
  <2>1. source' = source
    BY DEF Next, Step, vars, callVars, fileVars, Build, ExportStream, ExportRaises, StealStream,
       StealStreamRaises, CallArray, StealSchema, StealSchemaRaises, StealArray, MakeStream,
       MakeStreamRaises, NextBatch, NextRaises, SchemaRaises, Open, OpenFails, Write, WriteFails, Read,
       ReadEnds, NoBatches, CloseFile, CloseFails, WriteFile, WriteFileFails, Begin, ForgetArrays,
       ForgetBatch, Leave, Goto
  <2>2. QED
    BY <2>1 DEF TableInv, Prefix, Arrays, InTable
<1>1. function = "write_table"
  BY DEF Next, Step, vars, callVars, fileVars, Build, ExportStream, ExportRaises, StealStream,
     StealStreamRaises, CallArray, StealSchema, StealSchemaRaises, StealArray, MakeStream,
     MakeStreamRaises, NextBatch, NextRaises, SchemaRaises, Open, OpenFails, Write, WriteFails, Read,
     ReadEnds, NoBatches, CloseFile, CloseFails, WriteFile, WriteFileFails, Begin, ForgetArrays,
     ForgetBatch, Leave, Goto
<1>2. /\ pc \notin {"write_file", "read"}
      /\ outcome = "returned" => state = "sealed"
      /\ state = "sealed" => pc = "done" /\ groups = Prefix(source.batches)
      /\ pc \notin {"done"} => state = "writing"
      /\ pc \notin InTable \cup {"done"} => groups = <<>>
      /\ pc \in InTable => groups = Prefix(IF pc = "next" THEN got ELSE got - 1)
  BY <1>1 DEF TableInv, Prefix, Arrays
<1>3. got \in Nat /\ source.batches \in Nat /\ got <= source.batches /\ Prefix(0) = <<>>
  BY SourceFacts, PrefixFacts DEF OwnInv, OwnTyped
<1>4. CASE Build \/ ExportStream \/ CallArray \/ StealSchema \/ StealArray
  BY <1>1, <1>2, <1>4
     DEF Build, ExportStream, CallArray, StealSchema, StealArray, At, Goto, fileVars, callVars, InTable
<1>5. CASE StealStream \/ MakeStream
  <2>1. got = 0
    BY <1>5 DEF OwnInv, WhereInv, StealStream, MakeStream, At
  <2>2. QED
    BY <1>2, <1>3, <1>5, <2>1
       DEF StealStream, MakeStream, At, Goto, fileVars, callVars, InTable
<1>6. CASE ExportRaises \/ StealStreamRaises \/ StealSchemaRaises \/ MakeStreamRaises \/ NextRaises
             \/ SchemaRaises \/ NoBatches
  BY <1>2, <1>6
     DEF ExportRaises, StealStreamRaises, StealSchemaRaises, MakeStreamRaises, NextRaises,
         SchemaRaises, NoBatches, At, Leave, fileVars, InTable
<1>7. CASE NextBatch \/ Open
  BY <1>1, <1>2, <1>3, <1>7 DEF NextBatch, Open, At, Goto, fileVars, callVars, InTable
<1>8. CASE Write
  <2>1. got \in Nat \ {0} /\ pc = "write" /\ groups = Prefix(got - 1)
    BY <1>2, <1>3, <1>8 DEF OwnInv, WhereInv, InTable, Write, At
  <2>2. groups' = Prefix(got)
    BY <1>8, <2>1, PrefixFacts DEF Write, File!Add
  <2>3. QED
    BY <1>2, <1>8, <2>1, <2>2 DEF Write, File!Add, Goto, InTable
<1>9. CASE OpenFails \/ WriteFails \/ CloseFile \/ CloseFails
  BY <1>1, <1>2, <1>3, <1>9
     DEF OpenFails, WriteFails, CloseFile, CloseFails, At, Leave, File!Seal, File!Lose, InTable
<1>10. CASE Read \/ ReadEnds \/ WriteFile \/ WriteFileFails
  BY <1>1, <1>2, <1>10 DEF Read, ReadEnds, WriteFile, WriteFileFails, At
<1>11. CASE Begin
  BY <1>1, <1>2, <1>11 DEF Begin, InTable
<1>12. CASE ForgetArrays \/ ForgetBatch \/ UNCHANGED vars
  BY <1>2, <1>12 DEF ForgetArrays, ForgetBatch, vars, fileVars, callVars
<1>13. QED
  BY <1>4, <1>5, <1>6, <1>7, <1>8, <1>9, <1>10, <1>11, <1>12 DEF Next, Step

\* A file that was not written by write_table has what write_batch gave it: the batch, or
\* no row group when it raised.
BatchInv ==
    /\ pc \in {"build", "refused"} => state = "writing"
    /\ function # "write_table" =>
         /\ pc \notin {"open", "write"}
         /\ function = "write_batch" => pc \notin InTable \cup {"stream", "steal", "make_stream"}
         /\ state = "sealed" => \A k \in DOMAIN groups : groups[k] = Written(source, k)
         /\ function = "consume" => pc # "write_file" /\ state # "sealed"
         /\ state = "sealed" => \/ groups = <<Written(source, 1)>>
                                \/ outcome = "raised" /\ groups = <<>>
         /\ function = "write_batch" /\ outcome = "returned" =>
              state = "sealed" /\ groups = <<Written(source, 1)>>

LEMMA BatchKept ==
    ASSUME OwnInv, BatchInv, [Next]_vars
    PROVE  BatchInv'
<1>1. source' = source /\ function' = function
  BY DEF Next, Step, vars, callVars, fileVars, Build, ExportStream, ExportRaises, StealStream,
     StealStreamRaises, CallArray, StealSchema, StealSchemaRaises, StealArray, MakeStream,
     MakeStreamRaises, NextBatch, NextRaises, SchemaRaises, Open, OpenFails, Write, WriteFails, Read,
     ReadEnds, NoBatches, CloseFile, CloseFails, WriteFile, WriteFileFails, Begin, ForgetArrays,
     ForgetBatch, Leave, Goto
<1>2. \A k : Written(source, k)' = Written(source, k)
  BY <1>1
<1>3. function \in Function
  BY SourceFacts DEF OwnInv
<1>4. pc' \in {"build", "refused"} => state' = "writing"
  BY DEF BatchInv, Next, Step, vars, callVars, fileVars, Build, ExportStream, ExportRaises,
     StealStream, StealStreamRaises, CallArray, StealSchema, StealSchemaRaises, StealArray, MakeStream,
     MakeStreamRaises, NextBatch, NextRaises, SchemaRaises, Open, OpenFails, Write, WriteFails, Read,
     ReadEnds, NoBatches, CloseFile, CloseFails, WriteFile, WriteFileFails, Begin, ForgetArrays,
     ForgetBatch, Leave, Goto, At
<1>5. ASSUME function # "write_table"
      PROVE  /\ pc' \notin {"open", "write"}
             /\ function = "write_batch" => pc' \notin InTable \cup {"stream", "steal", "make_stream"}
  <2>1. CASE function = "consume"
    <3>1. pc \notin {"open", "write"}
      BY <1>5 DEF BatchInv
    <3>2. QED
      BY <2>1, <3>1
         DEF Next, Step, vars, callVars, fileVars, Build, ExportStream,
         ExportRaises, StealStream, StealStreamRaises, CallArray, StealSchema, StealSchemaRaises,
         StealArray, MakeStream, MakeStreamRaises, NextBatch, NextRaises, SchemaRaises, Open, OpenFails,
         Write, WriteFails, Read, ReadEnds, NoBatches, CloseFile, CloseFails, WriteFile, WriteFileFails,
         Begin, ForgetArrays, ForgetBatch, Leave, Goto, At
  <2>2. CASE function = "write_batch"
    <3>1. pc \notin {"next", "open", "write", "read", "stream", "steal", "make_stream"}
      BY <1>5, <2>2 DEF BatchInv, InTable
    <3>2. pc' \notin {"next", "open", "write", "read", "stream", "steal", "make_stream"}
      BY <2>2, <3>1
         DEF Next, Step, vars, callVars, fileVars, Build, ExportStream,
         ExportRaises, StealStream, StealStreamRaises, CallArray, StealSchema, StealSchemaRaises,
         StealArray, MakeStream, MakeStreamRaises, NextBatch, NextRaises, SchemaRaises, Open, OpenFails,
         Write, WriteFails, Read, ReadEnds, NoBatches, CloseFile, CloseFails, WriteFile, WriteFileFails,
         Begin, ForgetArrays, ForgetBatch, Leave, Goto, At
    <3>3. QED
      BY <2>2, <3>2 DEF InTable
  <2>3. QED
    BY <1>3, <1>5, <2>1, <2>2 DEF Function
<1>6. ASSUME function # "write_table", state' = "sealed"
      PROVE  \/ state = "sealed" /\ groups' = groups
             \/ groups' \in {<<>>, <<Written(source, 1)>>}
  BY <1>6
     DEF BatchInv, Next, Step, vars, callVars, fileVars, Build, ExportStream, ExportRaises,
     StealStream, StealStreamRaises, CallArray, StealSchema, StealSchemaRaises, StealArray, MakeStream,
     MakeStreamRaises, NextBatch, NextRaises, SchemaRaises, Open, OpenFails, Write, WriteFails, Read,
     ReadEnds, NoBatches, CloseFile, CloseFails, WriteFile, WriteFileFails, Begin, ForgetArrays,
     ForgetBatch, Leave, Goto, At, File!Lose
<1>7. ASSUME function # "write_table", state' = "sealed"
      PROVE  \A k \in DOMAIN groups' : groups'[k] = Written(source, k)
  <2>1. CASE state = "sealed" /\ groups' = groups
    BY <1>7, <2>1 DEF BatchInv
  <2>2. CASE groups' = <<>>
    BY <2>2
  <2>3. CASE groups' = <<Written(source, 1)>>
    <3> DEFINE g == Written(source, 1)
    <3>1. DOMAIN <<g>> = {1} /\ <<g>>[1] = g
      <4> HIDE DEF g
      <4>1. QED
        OBVIOUS
    <3>2. QED
      BY <2>3, <3>1
  <2>4. QED
    BY <1>6, <1>7, <2>1, <2>2, <2>3
<1>8. ASSUME function = "consume" PROVE pc' # "write_file" /\ state' # "sealed"
  <2>1. pc \notin {"open", "write", "write_file"} /\ state # "sealed"
    BY <1>8 DEF BatchInv
  <2>2. QED
    BY <1>8, <2>1
       DEF Next, Step, vars, callVars, fileVars, Build, ExportStream,
       ExportRaises, StealStream, StealStreamRaises, CallArray, StealSchema, StealSchemaRaises,
       StealArray, MakeStream, MakeStreamRaises, NextBatch, NextRaises, SchemaRaises, Open, OpenFails,
       Write, WriteFails, Read, ReadEnds, NoBatches, CloseFile, CloseFails, WriteFile, WriteFileFails,
       Begin, ForgetArrays, ForgetBatch, Leave, Goto, At
<1>9. ASSUME function = "write_batch"
      PROVE  /\ state' = "sealed" => \/ groups' = <<Written(source, 1)>>
                                     \/ outcome' = "raised" /\ groups' = <<>>
             /\ outcome' = "returned" => state' = "sealed" /\ groups' = <<Written(source, 1)>>
  <2>1. /\ pc \notin {"next", "open", "write", "read", "stream", "steal", "make_stream"}
        /\ state = "sealed" => groups = <<Written(source, 1)>> \/ (outcome = "raised" /\ groups = <<>>)
        /\ outcome = "returned" => state = "sealed" /\ groups = <<Written(source, 1)>>
    BY <1>9 DEF BatchInv, InTable
  <2>2. \/ UNCHANGED <<state, groups>> /\ outcome' \in {outcome, "raised"}
        \/ state' = "writing" /\ outcome' # "returned"
        \/ state' = "sealed" /\ groups' = <<Written(source, 1)>>
        \/ groups' \in {<<>>, <<Written(source, 1)>>} /\ outcome' = "raised"
    BY <1>9, <2>1
       DEF Next, Step, vars, callVars, fileVars, Build, ExportStream,
       ExportRaises, StealStream, StealStreamRaises, CallArray, StealSchema, StealSchemaRaises,
       StealArray, MakeStream, MakeStreamRaises, NextBatch, NextRaises, SchemaRaises, Open, OpenFails,
       Write, WriteFails, Read, ReadEnds, NoBatches, CloseFile, CloseFails, WriteFile, WriteFileFails,
       Begin, ForgetArrays, ForgetBatch, Leave, Goto, At
  <2>3. QED
    BY <2>1, <2>2
<1>10. ASSUME function # "write_table" PROVE function \in {"consume", "write_batch"}
  BY <1>3, <1>10 DEF Function
<1>11. ASSUME function # "write_table", state' = "sealed"
       PROVE  \/ groups' = <<Written(source, 1)>>
              \/ outcome' = "raised" /\ groups' = <<>>
  BY <1>8, <1>9, <1>10, <1>11
<1>12. ASSUME function # "write_table"
       PROVE  /\ pc' \notin {"open", "write"}
              /\ function = "write_batch" => pc' \notin InTable \cup {"stream", "steal", "make_stream"}
              /\ state' = "sealed" => \A k \in DOMAIN groups' : groups'[k] = Written(source, k)'
              /\ function = "consume" => pc' # "write_file" /\ state' # "sealed"
              /\ state' = "sealed" => \/ groups' = <<Written(source, 1)>>
                                      \/ outcome' = "raised" /\ groups' = <<>>
              /\ function = "write_batch" /\ outcome' = "returned" =>
                   state' = "sealed" /\ groups' = <<Written(source, 1)>>
  <2>1. state' = "sealed" => \A k \in DOMAIN groups' : groups'[k] = Written(source, k)'
    BY <1>2, <1>7, <1>12
  <2>2. QED
    BY <1>5, <1>8, <1>9, <1>11, <1>12, <2>1
<1>13. <<Written(source, 1)>>' = <<Written(source, 1)>>
  BY <1>2
<1>14. QED
  BY <1>1, <1>4, <1>12, <1>13 DEF BatchInv

LEMMA TableInit == Init => TableInv /\ BatchInv /\ File!TypeOK
BY DEF Init, TableInv, BatchInv, File!Init, File!TypeOK, InTable

\* OwnInv, the type of the file and what is in it hold in every state.
IInv == OwnInv /\ File!TypeOK /\ TableInv /\ BatchInv

\* At every step of every call the structures have one owner each, the table is written in
\* the order of its batches, and the file keeps its type (n2p_bindings.cpp, arrow_capsule.hpp).
THEOREM InvariantHolds == Spec => []IInv
<1>1. Init => IInv
  BY InitOwns, TableInit DEF IInv
<1>2. IInv /\ [Next]_vars => IInv'
  BY OwnKept, FileTyped, TableKept, BatchKept DEF IInv
<1>3. QED
  BY <1>1, <1>2, PTL DEF Spec

------------------------------------------------------------------------------
(* Theorems. *)

\* Whatever object is passed and wherever a call fails, every structure the call took
\* over is released, once, and no reference to a NumPy array stays behind.
THEOREM OwnershipHolds == Spec => []OwnershipOK
<1>1. IInv => OwnershipOK
  <2> SUFFICES ASSUME IInv PROVE OwnershipOK
    OBVIOUS
  <2>1. TypeOK
    BY DEF IInv, OwnInv, OwnTyped, CapsuleInv, Holders, TypeOK
  <2>2. ReleasedOnce
    BY DEF IInv, OwnInv, CountInv, ReleasedOnce
  <2>3. ASSUME pc = "done" PROVE NothingIsLeft
    <3>1. \A p \in Parts : /\ holder[p] \in {"unmade", "producer", "released"}
                           /\ holder[p] = "released" => releases[p] = 1
      BY <2>3 DEF IInv, OwnInv, WhereInv, CountInv, Outside
    <3>2. \A p \in Parts : holder[p] = "producer" => batch
      BY DEF IInv, OwnInv, NumpyInv
    <3>3. ASSUME ~batch PROVE lent \subseteq {"arrays"}
      <4>1. CASE IsNumpy
        <5>1. 1 \in Parts
          BY <4>1, PartFacts, SourceFacts DEF IInv, OwnInv, IsNumpy
        <5>2. "buffer" \notin lent /\ "columns" \notin lent
          BY <3>1, <3>2, <3>3, <4>1, <5>1 DEF IInv, OwnInv, NumpyInv
        <5>3. QED
          BY <5>2 DEF IInv, OwnInv, OwnTyped
      <4>2. CASE ~IsNumpy
        BY <4>2 DEF IInv, OwnInv, NumpyInv
      <4>3. QED
        BY <4>1, <4>2
    <3>4. QED
      BY <3>1, <3>2, <3>3 DEF NothingIsLeft
  <2>4. QED
    BY <2>1, <2>2, <2>3 DEF OwnershipOK, NothingIsLeft
<1>2. QED
  BY <1>1, InvariantHolds, PTL

\* The memory of a NumPy array outlives every Arrow structure that borrows it.
THEOREM BorrowedStaysAlive == Spec => []NeverReadsFreed
<1>1. IInv => NeverReadsFreed
  BY DEF IInv, OwnInv, NumpyInv, NeverReadsFreed
<1>2. QED
  BY <1>1, InvariantHolds, PTL

\* A source of one batch is written whole as one row group.
LEMMA OneIsWhole ==
    ASSUME source.batches = 1
    PROVE  <<Written(source, 1)>> = [k \in Arrays |-> Written(source, k)]
<1> DEFINE W(k) == Written(source, k)
<1>1. Arrays = 1 .. 1
  BY DEF Arrays
<1> HIDE DEF W
<1>2. <<W(1)>> = [k \in 1 .. 1 |-> W(k)]
  OBVIOUS
<1>3. QED
  BY <1>1, <1>2 DEF W

\* write_table writes the whole stream or leaves a file that does not open; write_batch
\* writes its batch, or raises and may leave a file with no rows.
THEOREM SealedTableIsWhole == Spec => []SealedTableIsComplete
<1>1. IInv => SealedTableIsComplete
  <2> SUFFICES ASSUME IInv PROVE SealedTableIsComplete
    OBVIOUS
  <2>1. function \in {"write_table", "write_batch", "consume"}
        /\ (function = "write_batch" => source.batches = 1)
    BY SourceFacts DEF IInv, OwnInv, Function
  <2>2. CASE function = "write_table"
    BY <2>2 DEF IInv, TableInv, SealedTableIsComplete
  <2>3. CASE function = "consume"
    BY <2>3 DEF IInv, BatchInv, SealedTableIsComplete
  <2>4. CASE function = "write_batch"
    <3>1. <<Written(source, 1)>> = [k \in Arrays |-> Written(source, k)]
      BY <2>1, <2>4, OneIsWhole
    <3>2. QED
      BY <2>4, <3>1 DEF IInv, BatchInv, SealedTableIsComplete
  <2>5. QED
    BY <2>1, <2>2, <2>3, <2>4
<1>2. QED
  BY <1>1, InvariantHolds, PTL

------------------------------------------------------------------------------
(* The values of a NumPy array. *)

\* The arrays a caller may pass are numbers in the byte order of the machine: a bool
\* and a foreign byte order are borrowed as if they were that.
NumbersInOrder ==
    \A u \in Uses : u.source.kind = "numpy" =>
      \A c \in u.source.columns : c.dtype # "b" /\ c.order = "little"

\* Sequences of the same length one after another begin at the multiples of it.
LEMMA SumsOfEqual ==
    ASSUME NEW n \in Nat, NEW size \in Nat, NEW L \in Seq(Nat), Len(L) = n,
           \A i \in 1 .. n : L[i] = size
    PROVE  \A i \in 0 .. n : Sums(L)[i] = i * size
<1> DEFINE S == {i \in 0 .. n : Sums(L)[i] = i * size}
<1>1. L \in Seq(Int)
  OBVIOUS
<1>2. Sums(L)[0] = 0 /\ \A i \in 1 .. n : Sums(L)[i] = Sums(L)[i - 1] + L[i]
  BY <1>1, SumsDef
<1>3. 0 \in S
  BY <1>2
<1>4. ASSUME NEW i \in 0 .. n - 1, i \in S PROVE i + 1 \in S
  <2>1. i + 1 \in 1 .. n /\ (i + 1) - 1 = i /\ i \in Nat
    OBVIOUS
  <2>2. Sums(L)[i + 1] = i * size + size
    BY <1>2, <1>4, <2>1
  <2>3. i * size + size = (i + 1) * size
    BY <2>1
  <2>4. QED
    BY <2>1, <2>2, <2>3
<1>5. \A i \in 0 .. n : i \in S
  <2> HIDE DEF S
  <2>1. QED
    BY <1>3, <1>4, InductTo
<1>6. QED
  BY <1>5

\* Arrow finds each number of a contiguous array in its own bytes.
LEMMA NumbersReadBack ==
    ASSUME NEW c \in Column, c.contiguous, c.dtype # "b", c.order = "little",
           NEW i \in 1 .. Len(c.values)
    PROVE  ReadAt(c, i - 1) = Element(c.values[i], c.itemsize)
<1> DEFINE n == Len(c.values)
           v == c.values
           size == c.itemsize
           L == [j \in 1 .. n |-> size]
           ss == [j \in 1 .. n |-> Element(v[j], size)]
           T == Nat \X Nat
           memory == Memory(c)
<1>1. n \in Nat /\ size \in Nat /\ DOMAIN v = 1 .. n /\ \A j \in 1 .. n : v[j] \in Nat
  BY DEF Column
<1>2. memory = FlattenSeq(ss)
  BY <1>1 DEF Memory
<1>3. L \in Seq(Nat) /\ Len(L) = n /\ \A j \in 1 .. n : L[j] = size
  <2> HIDE DEF n, size
  <2>1. L \in [1 .. n -> Nat]
    BY <1>1
  <2>2. QED
    BY <1>1
<1>4. ASSUME NEW j \in 1 .. n
      PROVE  ss[j] \in Seq(T) /\ Len(ss[j]) = size /\ \A b \in 1 .. size : ss[j][b] = <<v[j], b>>
  <2> DEFINE x == v[j]
  <2>1. x \in Nat /\ ss[j] = Element(x, size)
    BY <1>1
  <2> HIDE DEF x, ss, n, size
  <2>2. \A b \in 1 .. size : <<x, b>> \in T
    BY <1>1, <2>1
  <2>3. [b \in 1 .. size |-> <<x, b>>] \in [1 .. size -> T]
    <3> HIDE DEF T
    <3>1. QED
      BY <2>2
  <2>4. Element(x, size) \in Seq(T) /\ Len(Element(x, size)) = size
    <3> HIDE DEF T
    <3>1. QED
      BY <1>1, <2>3 DEF Element
  <2>5. \A b \in 1 .. size : Element(x, size)[b] = <<x, b>>
    BY DEF Element
  <2>6. QED
    BY <2>1, <2>4, <2>5 DEF x
<1>5. ss \in Seq(Seq(T)) /\ Len(ss) = n
  <2>1. ss \in [1 .. n -> Seq(T)]
    <3> HIDE DEF T
    <3>1. QED
      BY <1>4
  <2> HIDE DEF ss, n, T
  <2>2. QED
    BY <1>1, <2>1
<1>6. \A b \in 1 .. size : memory[(i - 1) * size + b] = ss[i][b]
  <2>1. \A j \in 1 .. Len(ss) : L[j] = Len(ss[j])
    BY <1>3, <1>4, <1>5
  <2> HIDE DEF ss, L, n, size, T, memory
  <2>2. ss \in Seq(Seq(T)) /\ L \in Seq(Nat) /\ Len(L) = Len(ss)
    BY <1>3, <1>5
  <2>3. \A j \in 1 .. Len(ss) : \A b \in 1 .. L[j] : FlattenSeq(ss)[Sums(L)[j - 1] + b] = ss[j][b]
    BY <2>1, <2>2, FlattenAt
  <2>4. i \in 1 .. n /\ i - 1 \in 0 .. n
    BY <1>1 DEF n
  <2>5. Sums(L)[i - 1] = (i - 1) * size
    BY <1>1, <1>3, <2>4, SumsOfEqual
  <2>6. QED
    BY <1>2, <1>3, <1>5, <2>3, <2>4, <2>5
<1>7. ReadAt(c, i - 1) = SubSeq(memory, (i - 1) * size + 1, ((i - 1) + 1) * size)
  BY DEF ReadAt
<1>8. ReadAt(c, i - 1) = [b \in 1 .. size |-> <<v[i], b>>]
  <2> DEFINE from == (i - 1) * size
  <2>1. from \in Nat /\ ((i - 1) + 1) * size = from + size
    BY <1>1
  <2>2. \A b \in 1 .. size : memory[from + b] = <<v[i], b>>
    BY <1>4, <1>6
  <2>3. ReadAt(c, i - 1) = SubSeq(memory, from + 1, from + size)
    BY <1>7, <2>1
  <2> HIDE DEF from, size, memory, v
  <2>4. SubSeq(memory, from + 1, from + size) = [b \in 1 .. size |-> memory[from + b]]
    BY <1>1, <2>1
  <2>5. QED
    BY <2>2, <2>3, <2>4
<1>9. QED
  BY <1>8 DEF Element

LEMMA WrittenIsMeant ==
    ASSUME NumbersInOrder, NEW k, UseInv, IsNumpy => Accepted(source.columns)
    PROVE  Written(source, k) = Meant(source, k)
<1>1. CASE ~IsNumpy
  BY <1>1 DEF Written, Meant, IsNumpy
<1>2. CASE IsNumpy
  <2> DEFINE columns == source.columns
  <2>1. /\ columns \subseteq Column /\ columns # {} /\ Accepted(columns)
        /\ \A c \in columns : c.dtype # "b" /\ c.order = "little"
    BY <1>2, UsesAssumption DEF UseInv, NumbersInOrder, IsNumpy, Accepted
  <2>2. \A c \in columns : Len(c.values) = RowsOf(columns)
    <3> HIDE DEF columns
    <3>1. QED
      BY <2>1 DEF RowsOf, Accepted
  <2>3. ASSUME NEW c \in columns
        PROVE  [i \in 1 .. RowsOf(columns) |-> ReadAt(c, i - 1)]
                 = [i \in DOMAIN c.values |-> Element(c.values[i], c.itemsize)]
    <3>1. c \in Column /\ c.contiguous /\ c.dtype # "b" /\ c.order = "little"
      BY <2>1 DEF Accepted
    <3>2. DOMAIN c.values = 1 .. RowsOf(columns)
      BY <2>2, <3>1 DEF Column
    <3>3. \A i \in DOMAIN c.values : ReadAt(c, i - 1) = Element(c.values[i], c.itemsize)
      BY <2>2, <3>1, <3>2, NumbersReadBack
    <3>4. QED
      BY <3>2, <3>3, Zenon
  <2>4. QED
    BY <1>2, <2>3, Zenon DEF Written, Meant, IsNumpy
<1>3. QED
  BY <1>1, <1>2

\* Each number in a file that opens is the number in the array it was borrowed from, for
\* any columns record_batch takes that hold numbers in the byte order of the machine.
THEOREM NumbersAreTheArrays == NumbersInOrder => (Spec => []WrittenIsTheArray)
<1> SUFFICES ASSUME NumbersInOrder PROVE Spec => []WrittenIsTheArray
  OBVIOUS
<1>1. IInv => WrittenIsTheArray
  <2> SUFFICES ASSUME IInv, state = "sealed", NEW k \in DOMAIN groups
               PROVE  groups[k] = Meant(source, k)
    BY DEF WrittenIsTheArray
  <2>1. groups[k] = Written(source, k)
    BY DEF IInv, TableInv, BatchInv, Prefix, Arrays
  <2>2. IsNumpy => Accepted(source.columns)
    BY DEF IInv, BatchInv, OwnInv, NumpyInv
  <2>3. UseInv
    BY DEF IInv, OwnInv
  <2>4. QED
    BY <2>1, <2>2, <2>3, WrittenIsMeant
<1>2. QED
  BY <1>1, InvariantHolds, PTL
==============================================================================
