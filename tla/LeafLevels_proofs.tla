-------------------------- MODULE LeafLevels_proofs --------------------------
(***************************************************************************)
(* Proofs about LeafLevels, for every path, every size of the arrays and   *)
(* every number of rows.                                                   *)
(*                                                                         *)
(* The walk of a step is made of the walks of the step below: what holds   *)
(* of every walk is shown from the leaf up (WalksDef, InductDown), from    *)
(* one lemma that lists how a walk comes by its entries (WalkCases).  The  *)
(* inductive invariant, IInv, says the levels are the rows' entries one    *)
(* behind the other; that they fit, rise and are counted follows.          *)
(* Last, that a reader of the page gets the rows again: it cuts a list     *)
(* apart where the walk put its elements together (PartsAreFound), and     *)
(* meets the values in the order they were left (ValueIsRead).             *)
(***************************************************************************)
EXTENDS LeafLevels, SequenceLoops_lemmas

------------------------------------------------------------------------------
(* The arrays a caller may pass. *)

Size(k) == shape.sizes[k]
Whole(k) == 0 .. Size(k) - 1

\* What a caller may pass for step k.
ArrayFits(k) ==
    LET a == arrays[k]
    IN /\ a.offset \in {0, 1} /\ a.length = Size(k) - a.offset /\ a.length \in Nat
       /\ a.valid \subseteq Whole(k) /\ a.nulls \in Int
       /\ a.nulls = 0 => a.valid = Whole(k)
       /\ a.valid = Whole(k) => a.nulls <= 0
       /\ a.entries.offset \in Nat /\ a.entries.length \in Nat
       /\ steps[k].kind # "map" => a.entries.offset = 0
       /\ steps[k].kind = "map" /\ a.entries.offset = 0 => a.entries.length = Size(k + 1)
       /\ steps[k].kind \in Lists => a.offs \in [0 .. Size(k) -> Int]

\* One array may be a slice, or lack a part.
ArgsInv ==
    /\ shape \in Shapes
    /\ \A k \in 1 .. Leaf : ArrayFits(k)
    /\ \A j, k \in 1 .. Leaf : arrays[j].offset = 1 /\ arrays[k].offset = 1 => j = k
    /\ HasList \/ \A k \in 1 .. Leaf - 1 : arrays[k].length >= shape.rows
    /\ batchOffset \in {0, 1}

Kinds == {"struct", "list", "map", "leaf"}
LEMMA ShapeFacts ==
    ASSUME shape \in Shapes
    PROVE  /\ Leaf \in Nat /\ Leaf >= 1 /\ shape.rows \in Nat /\ shape.nullType \in BOOLEAN
           /\ shape.nullType => steps[Leaf].optional
           /\ \A k \in 1 .. Leaf :
                /\ steps[k].kind \in Kinds /\ steps[k].optional \in BOOLEAN /\ Size(k) \in Nat
                /\ steps[k].kind = "leaf" <=> k = Leaf
                /\ steps[k].kind = "struct" => Size(k + 1) >= Size(k)
<1>1. /\ shape \in Shape /\ shape.steps # <<>> /\ Len(shape.sizes) = Len(shape.steps)
      /\ \A k \in DOMAIN shape.steps : shape.steps[k].kind = "leaf" <=> k = Len(shape.steps)
      /\ shape.nullType => shape.steps[Len(shape.steps)].optional
      /\ \A k \in DOMAIN shape.steps : shape.steps[k].kind = "struct" => shape.sizes[k + 1] >= shape.sizes[k]
  BY ShapesAssumption
<1>2. /\ shape.steps \in Seq(Step) /\ shape.sizes \in Seq(Nat) /\ shape.rows \in Nat
      /\ shape.nullType \in BOOLEAN
  BY <1>1 DEF Shape
<1>3. Len(shape.steps) \in Nat /\ Len(shape.steps) >= 1 /\ DOMAIN shape.steps = 1 .. Len(shape.steps)
  BY <1>1, <1>2
<1>4. \A k \in 1 .. Len(shape.steps) : shape.steps[k] \in Step /\ shape.sizes[k] \in Nat
  BY <1>1, <1>2
<1>5. QED
  BY <1>1, <1>2, <1>3, <1>4 DEF Leaf, steps, Size, Step, Kinds

LEMMA FullMeansWhole ==
    ASSUME NEW n \in Nat, NEW v, v \subseteq 0 .. n - 1
    PROVE  /\ Cardinality(v) \in 0 .. n
           /\ n - Cardinality(v) = 0 => v = 0 .. n - 1
           /\ v = 0 .. n - 1 => n - Cardinality(v) = 0
<1>1. IsFiniteSet(0 .. n - 1) /\ Cardinality(0 .. n - 1) = n
  <2>1. 0 \in Int /\ n - 1 \in Int
    OBVIOUS
  <2>2. IsFiniteSet(0 .. n - 1) /\ Cardinality(0 .. n - 1) = IF 0 > n - 1 THEN 0 ELSE n - 1 - 0 + 1
    BY <2>1, FS_Interval
  <2>3. QED
    BY <2>2
<1>2. v \in SUBSET (0 .. n - 1)
  OBVIOUS
<1>3. /\ Cardinality(v) <= n /\ Cardinality(v) \in Nat
      /\ Cardinality(0 .. n - 1) = Cardinality(v) => 0 .. n - 1 = v
  <2>1. IsFiniteSet(v) /\ Cardinality(v) <= Cardinality(0 .. n - 1)
        /\ (Cardinality(0 .. n - 1) = Cardinality(v) => 0 .. n - 1 = v)
    BY <1>1, <1>2, FS_Subset
  <2>2. Cardinality(v) \in Nat
    BY <2>1, FS_CardinalityType
  <2>3. QED
    BY <1>1, <2>1, <2>2
<1>4. QED
  BY <1>1, <1>3

LEMMA ArraysOfFits ==
    ASSUME shape \in Shapes, NEW k \in 1 .. Leaf, NEW a \in ArraysOf(shape, k)
    PROVE  /\ a.offset = 0 /\ a.length = Size(k) /\ a.valid \subseteq Whole(k) /\ a.nulls \in Int
           /\ a.nulls = 0 => a.valid = Whole(k)
           /\ a.valid = Whole(k) => a.nulls <= 0
           /\ a.entries.offset \in Nat /\ a.entries.length \in Nat
           /\ steps[k].kind # "map" => a.entries.offset = 0
           /\ steps[k].kind = "map" /\ a.entries.offset = 0 => a.entries.length = Size(k + 1)
           /\ steps[k].kind \in Lists => a.offs \in [0 .. Size(k) -> Int]
<1>1. /\ Leaf \in Nat /\ Leaf >= 1
      /\ \A j \in 1 .. Leaf :
           steps[j].kind \in Kinds /\ Size(j) \in Nat /\ (steps[j].kind = "leaf" <=> j = Leaf)
  BY ShapeFacts
<1> DEFINE offsets == IF steps[k].kind \in Lists THEN Offsets(shape, k) ELSE {<<>>}
           n == IF steps[k].kind = "map" THEN shape.sizes[k + 1] ELSE 0
           entries == {[offset |-> 0, length |-> n]}
                      \cup (IF n > 0 /\ ~shape.tidy THEN {[offset |-> 1, length |-> n - 1]} ELSE {})
<1>2. PICK v \in Validities(shape, k), o \in offsets, m \in entries :
        a = [offset |-> 0, length |-> Size(k), valid |-> v.valid, nulls |-> v.nulls,
             offs |-> o, entries |-> m]
  BY DEF ArraysOf, steps, Size
<1>3. n \in Nat
  <2>1. CASE steps[k].kind = "map"
    <3>1. k + 1 \in 1 .. Leaf
      BY <1>1, <2>1
    <3>2. QED
      BY <1>1, <3>1 DEF Size
  <2>2. QED
    BY <2>1
<1>4. /\ m.offset \in Nat /\ m.length \in Nat
      /\ steps[k].kind # "map" => m.offset = 0
      /\ steps[k].kind = "map" /\ m.offset = 0 => m.length = Size(k + 1)
  <2>1. m.offset \in Nat /\ m.length \in Nat /\ (m.offset = 0 => m.length = n) /\ (n = 0 => m.offset = 0)
    BY <1>3
  <2>2. QED
    BY <2>1 DEF Size
<1>5. steps[k].kind \in Lists => o \in [0 .. Size(k) -> Int]
  <2> HAVE steps[k].kind \in Lists
  <2>1. o \in Offsets(shape, k)
    OBVIOUS
  <2>2. k + 1 \in 1 .. Leaf
    BY <1>1 DEF Lists
  <2>3. Size(k + 1) \in Nat /\ Size(k) \in Nat
    BY <1>1, <2>2
  <2>4. o \in [0 .. Size(k) -> (IF shape.tidy THEN 0 ELSE -1) .. Size(k + 1)]
    BY <2>1 DEF Offsets, Size
  <2>5. QED
    BY <2>3, <2>4
<1>6. /\ v.valid \in SUBSET Whole(k) /\ v.nulls \in -1 .. Size(k)
      /\ v.nulls = Size(k) - Cardinality(v.valid) \/ v.nulls = -1
  BY DEF Validities, Size, Whole
<1>7. /\ Cardinality(v.valid) \in 0 .. Size(k)
      /\ Size(k) - Cardinality(v.valid) = 0 => v.valid = Whole(k)
      /\ v.valid = Whole(k) => Size(k) - Cardinality(v.valid) = 0
  BY <1>1, <1>6, FullMeansWhole DEF Whole
<1>8. a.offset = 0 /\ a.length = Size(k) /\ a.valid = v.valid /\ a.nulls = v.nulls
      /\ a.offs = o /\ a.entries = m
  BY <1>2
<1>9. QED
  <2>1. v.nulls \in Int /\ (v.nulls = 0 => v.valid = Whole(k)) /\ (v.valid = Whole(k) => v.nulls <= 0)
    BY <1>1, <1>6, <1>7
  <2>2. QED
    BY <1>4, <1>5, <1>6, <1>8, <2>1

LEMMA ChainFits ==
    ASSUME shape \in Shapes, NEW chain \in Chains(shape)
    PROVE  chain \in Seq(UNION {ArraysOf(shape, k) : k \in 1 .. Leaf}) /\ Len(chain) = Leaf
           /\ \A k \in 1 .. Leaf : chain[k] \in ArraysOf(shape, k)
<1> DEFINE T == UNION {ArraysOf(shape, k) : k \in 1 .. Leaf}
           sets == [k \in 1 .. Leaf |-> ArraysOf(shape, k)]
<1>1. Leaf \in Nat
  BY ShapeFacts
<1>2. DOMAIN shape.steps = 1 .. Leaf
  <2>1. shape \in Shape
    BY ShapesAssumption
  <2>2. shape.steps \in Seq(Step)
    BY <2>1 DEF Shape
  <2>3. QED
    BY <2>2 DEF Leaf, steps
<1>3. chain \in OneOfEach(sets)
  BY <1>2 DEF Chains
<1>4. \A k \in 1 .. Leaf : ArraysOf(shape, k) \in SUBSET T
  OBVIOUS
<1>5. sets \in Seq(SUBSET T) /\ Len(sets) = Leaf /\ \A k \in 1 .. Leaf : sets[k] = ArraysOf(shape, k)
  <2> HIDE DEF T
  <2>1. sets \in [1 .. Leaf -> SUBSET T]
    BY <1>4
  <2>2. QED
    BY <1>1, <2>1
<1> HIDE DEF sets, T
<1>6. chain \in Seq(T) /\ Len(chain) = Len(sets) /\ \A k \in 1 .. Len(sets) : chain[k] \in sets[k]
  BY <1>3, <1>5, OneOfEachDef
<1>7. QED
  BY <1>5, <1>6 DEF T

LEMMA InitArgs == Init => ArgsInv
<1> SUFFICES ASSUME Init PROVE ArgsInv
  OBVIOUS
<1>1. shape \in Shapes
  BY DEF Init
<1>2. PICK chain \in Chains(shape) :
        \/ arrays = chain
        \/ \E k \in {j \in 1 .. Leaf : shape.sizes[j] > 0} : arrays = Sliced(chain, k)
  BY DEF Init
<1>3. Leaf \in Nat /\ \A k \in 1 .. Leaf : Size(k) \in Nat
  BY <1>1, ShapeFacts
<1>4. /\ DOMAIN chain = 1 .. Leaf
      /\ \A k \in 1 .. Leaf : chain[k] \in ArraysOf(shape, k)
  <2> DEFINE T == UNION {ArraysOf(shape, k) : k \in 1 .. Leaf}
  <2>1. /\ chain \in Seq(T) /\ Len(chain) = Leaf
        /\ \A k \in 1 .. Leaf : chain[k] \in ArraysOf(shape, k)
    BY <1>1, ChainFits
  <2> HIDE DEF T
  <2>2. QED
    BY <2>1
<1>5. ASSUME NEW k \in 1 .. Leaf
      PROVE  DOMAIN chain[k] = {"offset", "length", "valid", "nulls", "offs", "entries"}
  <2>1. chain[k] \in ArraysOf(shape, k)
    BY <1>4
  <2>2. QED
    BY <2>1 DEF ArraysOf
<1>6. \/ arrays = chain
      \/ \E j \in 1 .. Leaf :
           /\ Size(j) > 0
           /\ \A k \in 1 .. Leaf : k # j => arrays[k] = chain[k]
           /\ arrays[j] = [chain[j] EXCEPT !.offset = 1, !.length = @ - 1]
  <2>1. CASE arrays = chain
    BY <2>1
  <2>2. ASSUME NEW j \in 1 .. Leaf, shape.sizes[j] > 0, arrays = Sliced(chain, j)
        PROVE  /\ Size(j) > 0 /\ \A k \in 1 .. Leaf : k # j => arrays[k] = chain[k]
               /\ arrays[j] = [chain[j] EXCEPT !.offset = 1, !.length = @ - 1]
    <3> DEFINE first == [chain EXCEPT ![j] = [chain[j] EXCEPT !.offset = 1]]
    <3>1. arrays = [first EXCEPT ![j] = [first[j] EXCEPT !.length = @ - 1]]
      BY <2>2 DEF Sliced
    <3>2. first[j] = [chain[j] EXCEPT !.offset = 1] /\ DOMAIN first = 1 .. Leaf
          /\ \A k \in 1 .. Leaf : k # j => first[k] = chain[k]
      BY <1>4
    <3> HIDE DEF first
    <3>3. /\ arrays[j] = [first[j] EXCEPT !.length = @ - 1]
          /\ \A k \in 1 .. Leaf : k # j => arrays[k] = first[k]
      BY <3>1, <3>2
    <3>4. [first[j] EXCEPT !.length = @ - 1] = [chain[j] EXCEPT !.offset = 1, !.length = @ - 1]
      BY <1>5, <3>2
    <3>5. QED
      BY <2>2, <3>2, <3>3, <3>4 DEF Size
  <2>3. QED
    BY <1>2, <2>1, <2>2
<1>7. \A k \in 1 .. Leaf : ArrayFits(k)
  <2> SUFFICES ASSUME NEW k \in 1 .. Leaf PROVE ArrayFits(k)
    OBVIOUS
  <2>0. chain[k] \in ArraysOf(shape, k) /\ Size(k) \in Nat
    BY <1>3, <1>4
  <2> DEFINE a == chain[k]
  <2>1. /\ a.offset = 0 /\ a.length = Size(k) /\ a.valid \subseteq Whole(k) /\ a.nulls \in Int
        /\ a.nulls = 0 => a.valid = Whole(k)
        /\ a.valid = Whole(k) => a.nulls <= 0
        /\ a.entries.offset \in Nat /\ a.entries.length \in Nat
        /\ steps[k].kind # "map" => a.entries.offset = 0
        /\ steps[k].kind = "map" /\ a.entries.offset = 0 => a.entries.length = Size(k + 1)
        /\ steps[k].kind \in Lists => a.offs \in [0 .. Size(k) -> Int]
    BY <1>1, <2>0, ArraysOfFits
  <2>2. CASE arrays[k] = a
    BY <2>0, <2>1, <2>2 DEF ArrayFits
  <2>3. CASE Size(k) > 0 /\ arrays[k] = [a EXCEPT !.offset = 1, !.length = @ - 1]
    <3>1. arrays[k].offset = 1 /\ arrays[k].length = Size(k) - 1 /\ Size(k) - 1 \in Nat
          /\ arrays[k].valid = a.valid /\ arrays[k].nulls = a.nulls /\ arrays[k].offs = a.offs
          /\ arrays[k].entries = a.entries
      BY <1>5, <2>0, <2>1, <2>3
    <3>2. QED
      BY <2>0, <2>1, <3>1 DEF ArrayFits
  <2>4. arrays[k] = a \/ (Size(k) > 0 /\ arrays[k] = [a EXCEPT !.offset = 1, !.length = @ - 1])
    <3>1. CASE arrays = chain
      BY <3>1
    <3>2. ASSUME NEW j \in 1 .. Leaf, Size(j) > 0,
                 \A i \in 1 .. Leaf : i # j => arrays[i] = chain[i],
                 arrays[j] = [chain[j] EXCEPT !.offset = 1, !.length = @ - 1]
          PROVE  \/ arrays[k] = a
                 \/ Size(k) > 0 /\ arrays[k] = [a EXCEPT !.offset = 1, !.length = @ - 1]
      <4>1. CASE k = j
        BY <3>2, <4>1, Zenon
      <4>2. CASE k # j
        BY <3>2, <4>2
      <4>3. QED
        BY <4>1, <4>2
    <3>3. QED
      BY <1>6, <3>1, <3>2
  <2>5. QED
    BY <2>2, <2>3, <2>4
<1>8. \A j, k \in 1 .. Leaf : arrays[j].offset = 1 /\ arrays[k].offset = 1 => j = k
  <2>1. \A k \in 1 .. Leaf : chain[k].offset = 0 /\ 0 # 1
    BY <1>1, <1>4, ArraysOfFits
  <2>2. QED
    BY <1>6, <2>1
<1>9. /\ HasList \/ \A k \in 1 .. Leaf - 1 : arrays[k].length >= shape.rows
      /\ batchOffset \in {0, 1}
  BY BatchOffsetsAssumption DEF Init
<1>10. QED
  BY <1>1, <1>7, <1>8, <1>9 DEF ArgsInv

------------------------------------------------------------------------------
(* The walk. *)

\* The walk of a step is made of the walk of the next.
LEMMA WalksDef ==
    ASSUME Leaf \in Nat
    PROVE  \A k \in 1 .. Leaf : Walks[k] = [c \in Call |-> Walk(k, c, Walks[k + 1])]
<1> DEFINE n == Leaf
           Body(k, below) == [c \in Call |-> Walk(k, c, below)]
           From(m, f) == f = [k \in m .. n + 1 |-> IF k > n THEN <<>> ELSE Body(k, f[k + 1])]
           S == {m \in 1 .. n + 1 : \E f : From(m, f)}
<1>1. Walks = CHOOSE f : From(1, f)
  BY DEF Walks
<1>2. \A k, below : Body(k, below) = [c \in Call |-> Walk(k, c, below)]
  OBVIOUS
<1>3. n \in Nat
  OBVIOUS
<1> HIDE DEF Body, n
<1>4. n + 1 \in S
  <2> DEFINE f == [k \in n + 1 .. n + 1 |-> <<>>]
  <2>1. From(n + 1, f)
    BY <1>3
  <2> HIDE DEF f, From
  <2>2. QED
    BY <1>3, <2>1
<1>5. ASSUME NEW m \in 1 .. n, m + 1 \in S PROVE m \in S
  <2>1. PICK f : From(m + 1, f)
    BY <1>5
  <2> DEFINE g == [k \in m .. n + 1 |-> IF k = m THEN Body(m, f[m + 1]) ELSE f[k]]
  <2>2. \A k \in m + 1 .. n + 1 : f[k] = IF k > n THEN <<>> ELSE Body(k, f[k + 1])
    BY <2>1
  <2>3. \A k \in m .. n + 1 : g[k] = IF k > n THEN <<>> ELSE Body(k, g[k + 1])
    <3> SUFFICES ASSUME NEW k \in m .. n + 1
                 PROVE  g[k] = IF k > n THEN <<>> ELSE Body(k, g[k + 1])
      OBVIOUS
    <3>1. CASE k = m
      <4>1. m + 1 \in m .. n + 1 /\ m + 1 # m /\ ~(m > n) /\ m \in m .. n + 1
        BY <1>3
      <4>2. g[m + 1] = f[m + 1] /\ g[m] = Body(m, f[m + 1])
        BY <4>1
      <4>3. QED
        BY <3>1, <4>1, <4>2
    <3>2. CASE k # m /\ k <= n
      <4>1. k + 1 \in m .. n + 1 /\ k + 1 # m /\ k \in m + 1 .. n + 1 /\ ~(k > n)
        BY <1>3, <3>2
      <4>2. g[k + 1] = f[k + 1] /\ g[k] = f[k]
        BY <3>2, <4>1
      <4>3. f[k] = Body(k, f[k + 1])
        BY <2>2, <4>1
      <4>4. QED
        BY <4>1, <4>2, <4>3
    <3>3. CASE k > n
      <4>1. k # m /\ k \in m + 1 .. n + 1
        BY <1>3, <3>3
      <4>2. g[k] = f[k] /\ f[k] = <<>>
        BY <2>2, <3>3, <4>1
      <4>3. QED
        BY <3>3, <4>2
    <3>4. QED
      BY <1>3, <3>1, <3>2, <3>3
  <2>4. g = [k \in m .. n + 1 |-> g[k]]
    OBVIOUS
  <2> HIDE DEF g
  <2>5. From(m, g)
    BY <2>3, <2>4
  <2>6. m \in 1 .. n + 1
    BY <1>3
  <2> HIDE DEF From
  <2>7. QED
    BY <2>5, <2>6
<1>6. \E f : From(1, f)
  <2>1. \A m \in 1 .. n + 1 : m \in S
    <3> HIDE DEF S
    <3>1. QED
      BY <1>3, <1>4, <1>5, InductDown
  <2>2. 1 \in S
    BY <1>3, <2>1
  <2> HIDE DEF From
  <2>3. QED
    BY <2>2
<1>7. From(1, Walks)
  <2> HIDE DEF From
  <2>1. QED
    BY <1>1, <1>6
<1>8. ASSUME NEW k \in 1 .. n PROVE Walks[k] = Body(k, Walks[k + 1])
  <2>1. k \in 1 .. n + 1 /\ ~(k > n)
    BY <1>3
  <2>2. Walks[k] = IF k > n THEN <<>> ELSE Body(k, Walks[k + 1])
    BY <1>7, <2>1
  <2>3. QED
    BY <2>1, <2>2
<1>9. QED
  BY <1>2, <1>8 DEF n

EntryT == [rep : Nat, def : Nat, at : Int]

\* The levels of a step: one more repetition level for each list, one more definition
\* level for each list and each OPTIONAL node.
LEMMA LevelFacts ==
    ASSUME shape \in Shapes
    PROVE  /\ RepLevel(0) = 0 /\ DefAbove(1) = 0
           /\ MaxRep = RepLevel(Leaf) /\ MaxDef = DefAbove(Leaf + 1)
           /\ \A k \in 0 .. Leaf : RepLevel(k) \in 0 .. MaxRep /\ DefAbove(k + 1) \in 0 .. MaxDef
           /\ \A k \in 1 .. Leaf :
                /\ RepLevel(k) = RepLevel(k - 1) + (IF steps[k].kind \in Lists THEN 1 ELSE 0)
                /\ DefAbove(k + 1) = DefAbove(k) + (IF steps[k].kind \in Lists THEN 1 ELSE 0)
                                                 + (IF steps[k].optional THEN 1 ELSE 0)
           /\ (~HasList => MaxRep = 0)
           /\ MaxRep \in Nat /\ MaxDef \in Nat
<1> DEFINE I == {j \in 1 .. Leaf : steps[j].kind \in Lists}
           J == {j \in 1 .. Leaf : steps[j].optional}
           R(k) == Cardinality({j \in 1 .. k : j \in I})
           O(k) == Cardinality({j \in 1 .. k : j \in J})
<1>1. Leaf \in Nat /\ Leaf >= 1
  BY ShapeFacts
<1>2. \A k \in 0 .. Leaf : RepLevel(k) = R(k) /\ DefAbove(k + 1) = O(k) + R(k)
  <2> SUFFICES ASSUME NEW k \in 0 .. Leaf PROVE RepLevel(k) = R(k) /\ DefAbove(k + 1) = O(k) + R(k)
    OBVIOUS
  <2>1. \A j \in 1 .. k : j \in 1 .. Leaf
    BY <1>1
  <2>2. {j \in 1 .. k : j \in I} = {j \in 1 .. k : steps[j].kind \in Lists}
    BY <2>1
  <2>3. {j \in 1 .. k : j \in J} = {j \in 1 .. k : steps[j].optional}
    BY <2>1
  <2>4. (k + 1) - 1 = k
    BY <1>1
  <2>5. RepLevel(k) = R(k)
    BY <2>2, Zenon DEF RepLevel
  <2>6. DefAbove(k + 1) = Cardinality({j \in 1 .. k : steps[j].optional}) + RepLevel(k)
    BY <2>4 DEF DefAbove
  <2> HIDE DEF I, J
  <2>7. DefAbove(k + 1) = O(k) + R(k)
    BY <2>3, <2>5, <2>6, Zenon
  <2>8. QED
    BY <2>5, <2>7
<1>3. \A k \in Nat : /\ R(k) \in 0 .. k /\ R(k + 1) = R(k) + (IF k + 1 \in I THEN 1 ELSE 0)
                     /\ O(k) \in 0 .. k /\ O(k + 1) = O(k) + (IF k + 1 \in J THEN 1 ELSE 0)
  <2> SUFFICES ASSUME NEW k \in Nat
               PROVE  /\ R(k) \in 0 .. k /\ R(k + 1) = R(k) + (IF k + 1 \in I THEN 1 ELSE 0)
                      /\ O(k) \in 0 .. k /\ O(k + 1) = O(k) + (IF k + 1 \in J THEN 1 ELSE 0)
    OBVIOUS
  <2> HIDE DEF I, J
  <2>1. R(k) \in 0 .. k /\ R(k + 1) = R(k) + (IF k + 1 \in I THEN 1 ELSE 0)
    BY CountOfPrefix, Zenon
  <2>2. O(k) \in 0 .. k /\ O(k + 1) = O(k) + (IF k + 1 \in J THEN 1 ELSE 0)
    BY CountOfPrefix, Zenon
  <2>3. QED
    BY <2>1, <2>2
<1>4. \A k \in 1 .. Leaf : (k \in I <=> steps[k].kind \in Lists) /\ (k \in J <=> steps[k].optional)
  OBVIOUS
<1>5. MaxRep = RepLevel(Leaf) /\ MaxDef = DefAbove(Leaf + 1)
  <2>1. MaxRep = RepLevel(Leaf)
    BY DEF MaxRep, RepLevel
  <2>2. (Leaf + 1) - 1 = Leaf
    BY <1>1
  <2>3. QED
    BY <2>1, <2>2 DEF MaxDef, DefAbove
<1>6. ~HasList => MaxRep = 0
  <2> HAVE ~HasList
  <2>1. {k \in 1 .. Leaf : steps[k].kind \in Lists} = {}
    BY DEF HasList
  <2>2. QED
    BY <2>1, FS_EmptySet, Zenon DEF MaxRep
<1> HIDE DEF R, O, I, J
<1>7. R(0) = 0 /\ O(0) = 0
  BY <1>3
<1> DEFINE S == {k \in 0 .. Leaf : \A j \in 0 .. k : R(j) <= R(k) /\ O(j) <= O(k)}
<1>8. 0 \in S
  BY <1>1, <1>3
<1>9. ASSUME NEW k \in 0 .. Leaf - 1, k \in S PROVE k + 1 \in S
  <2>1. k \in Nat /\ k + 1 \in Nat /\ k + 1 \in 0 .. Leaf
    BY <1>1
  <2>2. R(k) <= R(k + 1) /\ O(k) <= O(k + 1) /\ R(k) \in Nat /\ R(k + 1) \in Nat
        /\ O(k) \in Nat /\ O(k + 1) \in Nat
    <3>1. R(k) \in Nat /\ O(k) \in Nat /\ R(k + 1) \in Nat /\ O(k + 1) \in Nat
      BY <1>3, <2>1
    <3>2. R(k + 1) = R(k) + (IF k + 1 \in I THEN 1 ELSE 0)
      BY <1>3, <2>1
    <3>3. O(k + 1) = O(k) + (IF k + 1 \in J THEN 1 ELSE 0)
      BY <1>3, <2>1
    <3>4. R(k) <= R(k + 1)
      BY <3>1, <3>2
    <3>5. O(k) <= O(k + 1)
      BY <3>1, <3>3
    <3>6. QED
      BY <3>1, <3>4, <3>5
  <2>3. ASSUME NEW j \in 0 .. k + 1 PROVE R(j) <= R(k + 1) /\ O(j) <= O(k + 1)
    <3>1. R(j) \in Nat /\ O(j) \in Nat
      BY <1>3
    <3>2. CASE j \in 0 .. k
      <4>1. R(j) <= R(k) /\ O(j) <= O(k)
        BY <1>9, <3>2
      <4>2. QED
        BY <2>2, <3>1, <4>1
    <3>3. CASE j = k + 1
      BY <2>2, <3>3
    <3>4. QED
      BY <2>1, <3>2, <3>3
  <2>4. QED
    BY <2>1, <2>3
<1>10. \A k \in 0 .. Leaf : k \in S
  <2> HIDE DEF S
  <2>1. QED
    BY <1>1, <1>8, <1>9, InductTo
<1>11. ASSUME NEW k \in 0 .. Leaf PROVE RepLevel(k) \in 0 .. MaxRep /\ DefAbove(k + 1) \in 0 .. MaxDef
  <2>1. Leaf \in 0 .. Leaf /\ Leaf \in Nat /\ k \in Nat
    BY <1>1
  <2>2. R(k) <= R(Leaf) /\ O(k) <= O(Leaf)
    BY <1>10, <2>1
  <2>3. R(k) \in Nat /\ O(k) \in Nat /\ R(Leaf) \in Nat /\ O(Leaf) \in Nat
    BY <1>3, <2>1
  <2>4. MaxRep = R(Leaf) /\ MaxDef = O(Leaf) + R(Leaf) /\ RepLevel(k) = R(k) /\ DefAbove(k + 1) = O(k) + R(k)
    BY <1>2, <1>5, <2>1
  <2>5. QED
    BY <2>2, <2>3, <2>4
<1>12. ASSUME NEW k \in 1 .. Leaf
       PROVE  /\ RepLevel(k) = RepLevel(k - 1) + (IF steps[k].kind \in Lists THEN 1 ELSE 0)
              /\ DefAbove(k + 1) = DefAbove(k) + (IF steps[k].kind \in Lists THEN 1 ELSE 0)
                                               + (IF steps[k].optional THEN 1 ELSE 0)
  <2>1. k - 1 \in Nat /\ k - 1 \in 0 .. Leaf /\ k \in 0 .. Leaf /\ (k - 1) + 1 = k
    BY <1>1
  <2>2. /\ R(k) = R(k - 1) + (IF k \in I THEN 1 ELSE 0) /\ R(k - 1) \in Nat
        /\ O(k) = O(k - 1) + (IF k \in J THEN 1 ELSE 0) /\ O(k - 1) \in Nat
    BY <1>3, <2>1
  <2>3. RepLevel(k) = R(k) /\ RepLevel(k - 1) = R(k - 1)
        /\ DefAbove(k + 1) = O(k) + R(k) /\ DefAbove(k) = O(k - 1) + R(k - 1)
    BY <1>2, <2>1
  <2>4. QED
    BY <1>4, <2>2, <2>3
<1>13. RepLevel(0) = 0 /\ DefAbove(1) = 0
  <2>1. 0 \in 0 .. Leaf /\ 0 + 1 = 1
    BY <1>1
  <2>2. RepLevel(0) = R(0) /\ DefAbove(1) = O(0) + R(0)
    BY <1>2, <2>1
  <2>3. QED
    BY <1>7, <2>2
<1>14. MaxRep \in Nat /\ MaxDef \in Nat
  <2>1. Leaf \in 0 .. Leaf /\ Leaf \in Nat
    BY <1>1
  <2>2. QED
    BY <1>2, <1>3, <1>5, <2>1
<1>15. QED
  BY <1>5, <1>6, <1>11, <1>12, <1>13, <1>14

\* What the walk of a list calls for its i-th element.
ItemCall(k, c, i) ==
    [e |-> arrays[k].offs[c.e] + i - 1, r |-> IF i = 1 THEN c.r ELSE RepLevel(k), d |-> c.d + 1]

\* What comes of a list whose offsets are s and t.
ItemsGive(k, c, below, s, t, result) ==
    /\ result.ok =>
         /\ lacking.step # k /\ ~OutOfBounds(k, s, t)
         /\ steps[k].kind = "map" => arrays[k].entries.offset = 0 /\ ~(t > arrays[k].entries.length)
         /\ s = t => result.entries = <<Entry(c.r, c.d, -1)>>
         /\ s # t =>
              /\ \A i \in 1 .. t - s : below[ItemCall(k, c, i)].ok
              /\ result.entries = FlattenSeq([i \in 1 .. t - s |-> below[ItemCall(k, c, i)].entries])
    /\ ~result.ok =>
         \/ lacking.step = k \/ OutOfBounds(k, s, t)
         \/ steps[k].kind = "map" /\ (arrays[k].entries.offset # 0 \/ t > arrays[k].entries.length)
         \/ s # t /\ \E i \in 1 .. t - s : ~below[ItemCall(k, c, i)].ok

LEMMA ItemsCases ==
    ASSUME NEW k, NEW c, NEW below,
           NEW s \in Int, NEW t \in Int, s = arrays[k].offs[c.e], t = arrays[k].offs[c.e + 1],
           NEW result, result = Items(k, c, below)
    PROVE  ItemsGive(k, c, below, s, t, result)
<1> DEFINE elements == Elements(s, t)
           items == [i \in DOMAIN elements |->
                       below[[e |-> elements[i], r |-> IF i = 1 THEN c.r ELSE RepLevel(k), d |-> c.d + 1]]]
           parts == [i \in DOMAIN items |-> items[i].entries]
           badEntries == steps[k].kind = "map"
                         /\ (arrays[k].entries.offset # 0 \/ t > arrays[k].entries.length)
<1>1. DOMAIN items = 1 .. t - s /\ \A i \in 1 .. t - s : items[i] = below[ItemCall(k, c, i)]
  BY DEF Elements, ItemCall
<1>2. parts = [i \in 1 .. t - s |-> below[ItemCall(k, c, i)].entries]
  <2> HIDE DEF items
  <2>1. QED
    BY <1>1
<1>3. result = IF lacking.step = k \/ badEntries \/ OutOfBounds(k, s, t) THEN Fails
               ELSE IF s = t THEN Emits(<<Entry(c.r, c.d, -1)>>)
               ELSE IF \E i \in DOMAIN items : ~items[i].ok THEN Fails
               ELSE Emits(FlattenSeq(parts))
  BY Zenon DEF Items
<1> HIDE DEF items, parts
<1>4. /\ result.ok =>
           /\ lacking.step # k /\ ~badEntries /\ ~OutOfBounds(k, s, t)
           /\ s = t => result.entries = <<Entry(c.r, c.d, -1)>>
           /\ s # t => /\ \A i \in 1 .. t - s : below[ItemCall(k, c, i)].ok
                       /\ result.entries = FlattenSeq(parts)
      /\ ~result.ok => \/ lacking.step = k \/ badEntries \/ OutOfBounds(k, s, t)
                       \/ s # t /\ \E i \in 1 .. t - s : ~below[ItemCall(k, c, i)].ok
  <2>1. (\E i \in DOMAIN items : ~items[i].ok)
          <=> \E i \in 1 .. t - s : ~below[ItemCall(k, c, i)].ok
    BY <1>1
  <2>2. CASE lacking.step = k \/ badEntries \/ OutOfBounds(k, s, t)
    BY <1>3, <2>2 DEF Fails
  <2>3. CASE ~(lacking.step = k \/ badEntries \/ OutOfBounds(k, s, t)) /\ s = t
    BY <1>3, <2>3 DEF Emits
  <2>4. CASE ~(lacking.step = k \/ badEntries \/ OutOfBounds(k, s, t)) /\ s # t
    BY <1>3, <2>1, <2>4 DEF Fails, Emits
  <2>5. QED
    BY <2>2, <2>3, <2>4
<1>5. QED
  BY <1>2, <1>4 DEF ItemsGive

\* The levels a walk of step k is called with.
Below(k, c) == [c EXCEPT !.d = IF steps[k].optional THEN c.d + 1 ELSE c.d]
WellCalled(k, c) == c.d = DefAbove(k) /\ c.r <= RepLevel(k - 1)

Start(k, e) == arrays[k].offs[e]
End(k, e) == arrays[k].offs[e + 1]

NullEntry(k, e) == steps[k].optional /\ IsNull(k, e)
Refused(k, e) == ~steps[k].optional /\ arrays[k].nulls > 0 /\ ~Valid(arrays[k], e)
BadList(k, e) ==
    \/ lacking.step = k \/ OutOfBounds(k, Start(k, e), End(k, e))
    \/ steps[k].kind = "map" /\ (arrays[k].entries.offset # 0 \/ End(k, e) > arrays[k].entries.length)

\* How a walk that succeeds comes by its entries.
WalkShape(k, c) ==
    LET w == Walks[k][c].entries
        in == Below(k, c)
        s == Start(k, c.e)
        t == End(k, c.e)
    IN /\ arrays[k].offset = 0 /\ c.e \in 0 .. arrays[k].length - 1 /\ ~Refused(k, c.e)
       /\ \/ NullEntry(k, c.e) /\ w = <<Entry(c.r, c.d, -1)>>
          \/ ~NullEntry(k, c.e) /\ k = Leaf /\ w = <<Entry(c.r, in.d, c.e)>>
          \/ /\ ~NullEntry(k, c.e) /\ steps[k].kind = "struct"
             /\ Walks[k + 1][in].ok /\ w = Walks[k + 1][in].entries
          \/ /\ ~NullEntry(k, c.e) /\ steps[k].kind \in Lists /\ ~BadList(k, c.e)
             /\ s = t /\ w = <<Entry(in.r, in.d, -1)>>
          \/ /\ ~NullEntry(k, c.e) /\ steps[k].kind \in Lists /\ ~BadList(k, c.e) /\ s < t
             /\ \A i \in 1 .. t - s : Walks[k + 1][ItemCall(k, in, i)].ok
             /\ w = FlattenSeq([i \in 1 .. t - s |-> Walks[k + 1][ItemCall(k, in, i)].entries])

\* Why a walk fails.
WalkFails(k, c) ==
    LET in == Below(k, c)
        s == Start(k, c.e)
        t == End(k, c.e)
    IN \/ arrays[k].offset # 0 \/ c.e < 0 \/ c.e >= arrays[k].length
       \/ Refused(k, c.e)
       \/ ~NullEntry(k, c.e) /\ steps[k].kind = "struct" /\ ~Walks[k + 1][in].ok
       \/ /\ ~NullEntry(k, c.e) /\ steps[k].kind \in Lists
          /\ \/ BadList(k, c.e)
             \/ s < t /\ \E i \in 1 .. t - s : ~Walks[k + 1][ItemCall(k, in, i)].ok

\* Where the elements of a list lie.
LEMMA OffsetsTyped ==
    ASSUME ArgsInv, NEW k \in 1 .. Leaf, steps[k].kind \in Lists
    PROVE  /\ k + 1 \in 1 .. Leaf
           /\ \A e \in 0 .. arrays[k].length - 1 : Start(k, e) \in Int /\ End(k, e) \in Int
<1>1. shape \in Shapes /\ ArrayFits(k)
  BY DEF ArgsInv
<1>2. Leaf \in Nat /\ Size(k) \in Nat /\ (steps[k].kind = "leaf" <=> k = Leaf)
  BY <1>1, ShapeFacts
<1>3. k + 1 \in 1 .. Leaf
  BY <1>2 DEF Lists
<1>4. arrays[k].offs \in [0 .. Size(k) -> Int] /\ arrays[k].length <= Size(k) /\ arrays[k].length \in Nat
  BY <1>1, <1>2 DEF ArrayFits
<1>5. ASSUME NEW e \in 0 .. arrays[k].length - 1 PROVE Start(k, e) \in Int /\ End(k, e) \in Int
  <2>1. e \in 0 .. Size(k) /\ e + 1 \in 0 .. Size(k)
    BY <1>2, <1>4
  <2>2. QED
    BY <1>4, <2>1 DEF Start, End
<1>6. QED
  BY <1>3, <1>5

LEMMA WalkCases ==
    ASSUME ArgsInv, NEW k \in 1 .. Leaf, NEW c \in Call
    PROVE  /\ Walks[k][c].ok => WalkShape(k, c)
           /\ ~Walks[k][c].ok => WalkFails(k, c)
<1> DEFINE w == Walks[k][c]
           below == Walks[k + 1]
           a == arrays[k]
           in == Below(k, c)
           s == Start(k, c.e)
           t == End(k, c.e)
<1>1. shape \in Shapes /\ ArrayFits(k)
  BY DEF ArgsInv
<1>2. /\ Leaf \in Nat /\ steps[k].kind \in Kinds /\ (steps[k].kind = "leaf" <=> k = Leaf)
      /\ steps[k].optional \in BOOLEAN
  BY <1>1, ShapeFacts
<1>3. w = IF a.offset # 0 \/ c.e < 0 \/ c.e >= a.length THEN Fails
          ELSE IF NullEntry(k, c.e) THEN Emits(<<Entry(c.r, c.d, -1)>>)
          ELSE IF Refused(k, c.e) THEN Fails
          ELSE IF steps[k].kind = "leaf" THEN Emits(<<Entry(c.r, in.d, c.e)>>)
          ELSE IF steps[k].kind = "struct" THEN below[in]
          ELSE Items(k, in, below)
  <2>1. w = Walk(k, c, below)
    BY <1>2, WalksDef
  <2>2. QED
    BY <2>1 DEF Walk, Below, NullEntry, Refused
<1>4. Fails.ok = FALSE /\ \A q : Emits(q).ok = TRUE /\ Emits(q).entries = q
  BY DEF Fails, Emits
<1>5. c.e \in Int /\ a.length \in Int /\ in.e = c.e /\ in.r = c.r
  BY <1>1 DEF ArrayFits, Below, Call
<1>6. c.e < 0 \/ c.e >= a.length \/ c.e \in 0 .. a.length - 1
  BY <1>5
<1> HIDE DEF w, below
<1>7. CASE a.offset # 0 \/ c.e < 0 \/ c.e >= a.length
  BY <1>3, <1>4, <1>7 DEF WalkFails, w
<1>8. CASE ~(a.offset # 0 \/ c.e < 0 \/ c.e >= a.length)
  <2>1. CASE NullEntry(k, c.e)
    <3>1. ~Refused(k, c.e)
      BY <2>1 DEF NullEntry, Refused
    <3>2. w = Emits(<<Entry(c.r, c.d, -1)>>)
      BY <1>3, <1>8, <2>1, Zenon
    <3>3. QED
      BY <1>4, <1>6, <1>8, <2>1, <3>1, <3>2 DEF WalkShape, w
  <2>2. CASE ~NullEntry(k, c.e) /\ Refused(k, c.e)
    <3>1. w = Fails
      BY <1>3, <1>8, <2>2, Zenon
    <3>2. QED
      BY <1>4, <2>2, <3>1 DEF WalkFails, w
  <2>3. CASE ~NullEntry(k, c.e) /\ ~Refused(k, c.e) /\ steps[k].kind = "leaf"
    <3>1. w = Emits(<<Entry(c.r, in.d, c.e)>>)
      BY <1>3, <1>8, <2>3, Zenon
    <3>2. QED
      BY <1>2, <1>4, <1>6, <1>8, <2>3, <3>1 DEF WalkShape, w
  <2>4. CASE ~NullEntry(k, c.e) /\ ~Refused(k, c.e) /\ steps[k].kind = "struct"
    <3>1. w = below[in]
      <4>1. "struct" # "leaf"
        OBVIOUS
      <4>2. QED
        BY <1>3, <1>8, <2>4, <4>1, Zenon
    <3>2. k + 1 \in 1 .. Leaf /\ in \in Call
      <4>1. k # Leaf
        BY <1>2, <2>4
      <4>2. k + 1 \in 1 .. Leaf
        BY <1>2, <4>1
      <4>3. QED
        BY <4>2 DEF Below, Call
    <3>3. w.ok => WalkShape(k, c)
      BY <1>6, <1>8, <2>4, <3>1, Zenon DEF WalkShape, w, below
    <3>4. ~w.ok => WalkFails(k, c)
      BY <2>4, <3>1, Zenon DEF WalkFails, w, below
    <3>5. QED
      BY <3>3, <3>4 DEF w
  <2>5. CASE ~NullEntry(k, c.e) /\ ~Refused(k, c.e) /\ steps[k].kind \in Lists
    <3>1. w = Items(k, in, below)
      <4>1. steps[k].kind # "leaf" /\ steps[k].kind # "struct"
        BY <2>5 DEF Lists
      <4>2. QED
        BY <1>3, <1>8, <2>5, <4>1, Zenon
    <3>2. s \in Int /\ t \in Int /\ s = arrays[k].offs[in.e] /\ t = arrays[k].offs[in.e + 1]
      BY <1>5, <1>6, <1>8, <2>5, OffsetsTyped DEF Start, End
    <3> HIDE DEF s, t, in
    <3>3. /\ w.ok =>
               /\ lacking.step # k /\ ~OutOfBounds(k, s, t)
               /\ steps[k].kind = "map" => arrays[k].entries.offset = 0 /\ ~(t > arrays[k].entries.length)
               /\ s = t => w.entries = <<Entry(in.r, in.d, -1)>>
               /\ s # t =>
                    /\ \A i \in 1 .. t - s : below[ItemCall(k, in, i)].ok
                    /\ w.entries = FlattenSeq([i \in 1 .. t - s |-> below[ItemCall(k, in, i)].entries])
          /\ ~w.ok =>
               \/ lacking.step = k \/ OutOfBounds(k, s, t)
               \/ steps[k].kind = "map" /\ (arrays[k].entries.offset # 0 \/ t > arrays[k].entries.length)
               \/ s # t /\ \E i \in 1 .. t - s : ~below[ItemCall(k, in, i)].ok
      <4>1. ItemsGive(k, in, below, s, t, w)
        BY <3>1, <3>2, ItemsCases
      <4>2. QED
        BY <4>1, Zenon DEF ItemsGive
    <3>4. BadList(k, c.e) <=>
            \/ lacking.step = k \/ OutOfBounds(k, s, t)
            \/ steps[k].kind = "map" /\ (arrays[k].entries.offset # 0 \/ t > arrays[k].entries.length)
      BY DEF BadList, s, t
    <3>5. ~OutOfBounds(k, s, t) => s <= t
      BY <3>2 DEF OutOfBounds
    <3>7. w.ok => WalkShape(k, c)
      <4> HAVE w.ok
      <4>1. ~BadList(k, c.e) /\ s <= t
        BY <3>3, <3>4, <3>5
      <4>2. CASE s = t
        BY <1>6, <1>8, <2>5, <3>3, <4>1, <4>2 DEF WalkShape, w, s, t, in
      <4>3. CASE s # t
        <5>1. s < t
          BY <3>2, <4>1, <4>3
        <5>2. /\ \A i \in 1 .. t - s : below[ItemCall(k, in, i)].ok
              /\ w.entries = FlattenSeq([i \in 1 .. t - s |-> below[ItemCall(k, in, i)].entries])
          BY <3>3, <4>3
        <5>3. QED
          BY <1>6, <1>8, <2>5, <4>1, <5>1, <5>2, Zenon DEF WalkShape, w, s, t, in, below
      <4>4. QED
        BY <4>2, <4>3
    <3>8. ~w.ok => WalkFails(k, c)
      <4> HAVE ~w.ok
      <4>1. BadList(k, c.e) \/ (s # t /\ ~OutOfBounds(k, s, t) /\ \E i \in 1 .. t - s : ~below[ItemCall(k, in, i)].ok)
        BY <3>3, <3>4
      <4>2. BadList(k, c.e) \/ (s < t /\ \E i \in 1 .. t - s : ~below[ItemCall(k, in, i)].ok)
        BY <3>2, <3>5, <4>1
      <4>3. QED
        BY <2>5, <4>2, Zenon DEF WalkFails, s, t, in, below
    <3>9. QED
      BY <3>7, <3>8 DEF w
  <2>6. QED
    BY <1>2, <2>1, <2>2, <2>3, <2>4, <2>5 DEF Kinds, Lists
<1>9. QED
  BY <1>7, <1>8

EntryFits(x) ==
    /\ x \in EntryT /\ x.rep <= MaxRep /\ x.def <= MaxDef
    /\ IsValue(x) <=> x.def = MaxDef
    /\ x.at \in -1 .. arrays[Leaf].length - 1

\* The entries of a walk: the first continues the row, the others repeat below the lists
\* it was called under.
WalkFits(k, c) ==
    LET w == Walks[k][c].entries
    IN /\ w \in Seq(EntryT) /\ Len(w) >= 1 /\ w[1].rep = c.r
       /\ \A i \in 1 .. Len(w) : /\ EntryFits(w[i]) /\ w[i].def >= c.d
                                 /\ i > 1 => w[i].rep > RepLevel(k - 1)

LEMMA LeafLength == ArgsInv => arrays[Leaf].length \in Nat
<1> HAVE ArgsInv
<1>1. Leaf \in 1 .. Leaf
  BY ShapeFacts DEF ArgsInv
<1>2. ArrayFits(Leaf)
  BY <1>1 DEF ArgsInv
<1>3. QED
  BY <1>2 DEF ArrayFits

\* A walk that emits one entry.
LEMMA OneEntry ==
    ASSUME ArgsInv, NEW k, NEW c, NEW r \in Nat, NEW d \in Nat, NEW at \in -1 .. arrays[Leaf].length - 1,
           r <= MaxRep, d <= MaxDef, at # -1 <=> d = MaxDef,
           Walks[k][c].entries = <<Entry(r, d, at)>>, r = c.r, d >= c.d
    PROVE  WalkFits(k, c)
<1> DEFINE x == Entry(r, d, at)
<1>1. x.rep = r /\ x.def = d /\ x.at = at /\ x \in EntryT
  <2>1. arrays[Leaf].length \in Nat
    BY LeafLength
  <2>2. at \in Int
    BY <2>1
  <2>3. QED
    BY <2>2 DEF Entry, EntryT
<1> HIDE DEF x
<1>2. EntryFits(x)
  BY <1>1 DEF EntryFits, IsValue
<1>3. <<x>> \in Seq(EntryT) /\ Len(<<x>>) = 1 /\ <<x>>[1] = x
  BY <1>1
<1>4. Walks[k][c].entries = <<x>>
  BY DEF x
<1>5. QED
  BY <1>1, <1>2, <1>3, <1>4 DEF WalkFits

\* The calls a walk makes are well-formed.
LEMMA CallsBelow ==
    ASSUME ArgsInv, NEW k \in 1 .. Leaf, NEW c \in Call, WellCalled(k, c), k # Leaf
    PROVE  /\ k + 1 \in 1 .. Leaf
           /\ Below(k, c) \in Call /\ Below(k, c).r = c.r
           /\ steps[k].kind = "struct" => WellCalled(k + 1, Below(k, c))
           /\ steps[k].kind \in Lists =>
                \A i \in Int : Start(k, c.e) \in Int =>
                  /\ ItemCall(k, Below(k, c), i) \in Call
                  /\ WellCalled(k + 1, ItemCall(k, Below(k, c), i))
<1>1. shape \in Shapes
  BY DEF ArgsInv
<1>2. /\ Leaf \in Nat /\ steps[k].optional \in BOOLEAN
  BY <1>1, ShapeFacts
<1>3. /\ RepLevel(k) = RepLevel(k - 1) + (IF steps[k].kind \in Lists THEN 1 ELSE 0)
      /\ DefAbove(k + 1) = DefAbove(k) + (IF steps[k].kind \in Lists THEN 1 ELSE 0)
                                       + (IF steps[k].optional THEN 1 ELSE 0)
      /\ RepLevel(k) \in Nat /\ RepLevel(k - 1) \in Nat /\ DefAbove(k) \in Nat
  <2>1. k \in 0 .. Leaf /\ k - 1 \in 0 .. Leaf /\ (k - 1) + 1 = k
    BY <1>2
  <2>2. \A j \in 0 .. Leaf : RepLevel(j) \in 0 .. MaxRep /\ DefAbove(j + 1) \in 0 .. MaxDef
    BY <1>1, LevelFacts
  <2>3. RepLevel(k) \in Nat /\ RepLevel(k - 1) \in Nat /\ DefAbove(k) \in Nat
    BY <2>1, <2>2
  <2>4. QED
    BY <1>1, <2>3, LevelFacts
<1>4. c.e \in Int /\ c.r \in Nat /\ c.d \in Nat /\ c.d = DefAbove(k) /\ c.r <= RepLevel(k - 1)
  BY DEF Call, WellCalled
<1>5. /\ Below(k, c).e = c.e /\ Below(k, c).r = c.r
      /\ Below(k, c).d = c.d + (IF steps[k].optional THEN 1 ELSE 0)
      /\ Below(k, c) \in Call
  BY <1>2, <1>4 DEF Below, Call
<1>6. k + 1 \in 1 .. Leaf /\ (k + 1) - 1 = k
  BY <1>2
<1>7. steps[k].kind = "struct" => WellCalled(k + 1, Below(k, c))
  <2> HAVE steps[k].kind = "struct"
  <2>1. steps[k].kind \notin Lists
    BY DEF Lists
  <2>2. QED
    BY <1>3, <1>4, <1>5, <1>6, <2>1 DEF WellCalled
<1>8. ASSUME steps[k].kind \in Lists, NEW i \in Int, Start(k, c.e) \in Int
      PROVE  /\ ItemCall(k, Below(k, c), i) \in Call
             /\ WellCalled(k + 1, ItemCall(k, Below(k, c), i))
  <2> DEFINE it == ItemCall(k, Below(k, c), i)
  <2>1. it.e \in Int /\ it = [e |-> it.e, r |-> it.r, d |-> it.d]
    BY <1>5, <1>8 DEF ItemCall, Start
  <2>2. it.d = Below(k, c).d + 1 /\ it.r = IF i = 1 THEN c.r ELSE RepLevel(k)
    BY <1>5 DEF ItemCall
  <2> HIDE DEF it
  <2>3. it.d = DefAbove(k + 1) /\ it.d \in Nat /\ it.r \in Nat /\ it.r <= RepLevel(k)
    BY <1>2, <1>3, <1>4, <1>5, <1>8, <2>2
  <2>4. it \in Call
    BY <2>1, <2>3 DEF Call
  <2>5. WellCalled(k + 1, it)
    BY <1>6, <2>3 DEF WellCalled
  <2>6. QED
    BY <2>4, <2>5 DEF it
<1>9. QED
  BY <1>5, <1>6, <1>7, <1>8

LEMMA WalksFit ==
    ASSUME ArgsInv
    PROVE  \A k \in 1 .. Leaf : \A c \in Call :
             WellCalled(k, c) /\ Walks[k][c].ok => WalkFits(k, c)
<1> DEFINE S == {k \in 1 .. Leaf + 1 : k <= Leaf =>
                   \A c \in Call : WellCalled(k, c) /\ Walks[k][c].ok => WalkFits(k, c)}
<1>1. shape \in Shapes
  BY DEF ArgsInv
<1>2. /\ Leaf \in Nat /\ Leaf >= 1
      /\ \A k \in 1 .. Leaf : (steps[k].kind = "leaf" <=> k = Leaf) /\ steps[k].optional \in BOOLEAN
  BY <1>1, ShapeFacts
<1>3. Leaf + 1 \in S
  BY <1>2
<1>4. ASSUME NEW k \in 1 .. Leaf, k + 1 \in S PROVE k \in S
  <2> SUFFICES ASSUME NEW c \in Call, WellCalled(k, c), Walks[k][c].ok PROVE WalkFits(k, c)
    BY <1>2
  <2> DEFINE in == Below(k, c)
             s == Start(k, c.e)
             t == End(k, c.e)
             w == Walks[k][c].entries
  <2>1. WalkShape(k, c)
    BY WalkCases
  <2>2. /\ RepLevel(k) = RepLevel(k - 1) + (IF steps[k].kind \in Lists THEN 1 ELSE 0)
        /\ DefAbove(k + 1) = DefAbove(k) + (IF steps[k].kind \in Lists THEN 1 ELSE 0)
                                         + (IF steps[k].optional THEN 1 ELSE 0)
        /\ RepLevel(k) \in 0 .. MaxRep /\ RepLevel(k - 1) \in 0 .. MaxRep
        /\ DefAbove(k) \in 0 .. MaxDef /\ DefAbove(k + 1) \in 0 .. MaxDef
        /\ MaxDef = DefAbove(Leaf + 1) /\ MaxRep \in Nat /\ MaxDef \in Nat
    <3>1. k \in 0 .. Leaf /\ k - 1 \in 0 .. Leaf /\ (k - 1) + 1 = k /\ Leaf \in 0 .. Leaf
      BY <1>2
    <3>2. \A j \in 0 .. Leaf : RepLevel(j) \in 0 .. MaxRep /\ DefAbove(j + 1) \in 0 .. MaxDef
      BY <1>1, LevelFacts
    <3>3. MaxRep = RepLevel(Leaf) /\ MaxDef = DefAbove(Leaf + 1)
      BY <1>1, LevelFacts
    <3>4. \A j \in 0 .. Leaf : RepLevel(j) \in Nat /\ DefAbove(j + 1) \in Nat
      <4>1. MaxRep \in Nat /\ MaxDef \in Nat
        BY <1>1, LevelFacts
      <4>2. QED
        BY <3>2, <4>1
    <3>5. QED
      BY <1>1, <3>1, <3>2, <3>3, <3>4, LevelFacts
  <2>3. c.e \in Int /\ c.r \in Nat /\ c.d \in Nat /\ c.d = DefAbove(k) /\ c.r <= RepLevel(k - 1)
    BY DEF Call, WellCalled
  <2>4. in.d = c.d + (IF steps[k].optional THEN 1 ELSE 0) /\ in.r = c.r
    BY <1>2, <2>3 DEF Below, Call
  <2>6. arrays[Leaf].length \in Nat /\ -1 \in -1 .. arrays[Leaf].length - 1
    BY LeafLength
  <2> HIDE DEF in, s, t, w
  <2>7. CASE NullEntry(k, c.e) /\ w = <<Entry(c.r, c.d, -1)>>
    <3>1. steps[k].optional
      BY <2>7 DEF NullEntry
    <3>2. c.r <= MaxRep /\ c.d <= MaxDef /\ c.d # MaxDef /\ c.d >= c.d
      BY <2>2, <2>3, <3>1
    <3>3. QED
      BY <2>3, <2>6, <2>7, <3>2, OneEntry DEF w
  <2>8. CASE k = Leaf /\ w = <<Entry(c.r, in.d, c.e)>>
    <3>1. steps[k].kind \notin Lists
      BY <1>2, <2>8 DEF Lists
    <3>2. in.d = MaxDef
      BY <1>2, <2>2, <2>3, <2>4, <2>8, <3>1
    <3>3. c.e \in 0 .. arrays[Leaf].length - 1
      BY <2>1, <2>8 DEF WalkShape
    <3>4. in.d >= c.d /\ in.d \in Nat /\ in.d <= MaxDef /\ c.r <= MaxRep
      BY <1>2, <2>2, <2>3, <2>4, <3>2
    <3>5. c.e \in -1 .. arrays[Leaf].length - 1 /\ c.e # -1
      BY <2>6, <3>3
    <3>6. QED
      BY <2>3, <2>8, <3>2, <3>4, <3>5, OneEntry DEF w
  <2>9. CASE steps[k].kind = "struct" /\ Walks[k + 1][in].ok /\ w = Walks[k + 1][in].entries
    <3>1. k # Leaf /\ steps[k].kind \notin Lists
      BY <1>2, <2>9 DEF Lists
    <3>2. k + 1 \in 1 .. Leaf /\ in \in Call /\ WellCalled(k + 1, in)
      BY <2>9, <3>1, CallsBelow DEF in
    <3>3. WalkFits(k + 1, in)
      BY <1>2, <1>4, <2>9, <3>2
    <3>4. RepLevel((k + 1) - 1) = RepLevel(k - 1)
      <4>1. (k + 1) - 1 = k
        BY <1>2
      <4>2. RepLevel(k) = RepLevel(k - 1)
        BY <2>2, <3>1
      <4>3. QED
        BY <4>1, <4>2
    <3>5. /\ w \in Seq(EntryT) /\ Len(w) >= 1 /\ w[1].rep = c.r
          /\ \A i \in 1 .. Len(w) : /\ EntryFits(w[i]) /\ w[i].def >= in.d
                                    /\ i > 1 => w[i].rep > RepLevel(k - 1)
      BY <2>4, <2>9, <3>3, <3>4 DEF WalkFits
    <3>6. \A i \in 1 .. Len(w) : w[i].def >= c.d
      <4> SUFFICES ASSUME NEW i \in 1 .. Len(w) PROVE w[i].def >= c.d
        OBVIOUS
      <4>1. w[i] \in EntryT /\ w[i].def >= in.d
        BY <3>5
      <4>2. w[i].def \in Nat
        BY <4>1 DEF EntryT
      <4>3. QED
        BY <1>2, <2>3, <2>4, <4>1, <4>2
    <3>7. QED
      BY <3>5, <3>6 DEF WalkFits, w
  <2>10. CASE steps[k].kind \in Lists /\ w = <<Entry(in.r, in.d, -1)>>
    <3>1. in.d >= c.d /\ in.d \in Nat /\ in.d <= MaxDef /\ in.d # MaxDef /\ c.r <= MaxRep
      BY <1>2, <2>2, <2>3, <2>4, <2>10
    <3>2. QED
      BY <2>3, <2>4, <2>6, <2>10, <3>1, OneEntry DEF w
  <2>11. CASE /\ steps[k].kind \in Lists /\ s < t
              /\ \A i \in 1 .. t - s : Walks[k + 1][ItemCall(k, in, i)].ok
              /\ w = FlattenSeq([i \in 1 .. t - s |-> Walks[k + 1][ItemCall(k, in, i)].entries])
    <3> DEFINE ss == [i \in 1 .. t - s |-> Walks[k + 1][ItemCall(k, in, i)].entries]
    <3>1. s \in Int /\ t \in Int /\ k # Leaf
      <4>1. c.e \in 0 .. arrays[k].length - 1
        BY <2>1 DEF WalkShape
      <4>2. QED
        BY <1>2, <2>11, <4>1, OffsetsTyped DEF Lists, s, t
    <3>2. k + 1 \in 1 .. Leaf /\ (k + 1) - 1 = k
      BY <1>2, <3>1
    <3>3. ASSUME NEW i \in 1 .. t - s
          PROVE  LET v == Walks[k + 1][ItemCall(k, in, i)].entries
                 IN /\ v \in Seq(EntryT) /\ Len(v) >= 1
                    /\ v[1].rep = IF i = 1 THEN c.r ELSE RepLevel(k)
                    /\ \A b \in 1 .. Len(v) : /\ EntryFits(v[b]) /\ v[b].def >= in.d + 1
                                              /\ b > 1 => v[b].rep > RepLevel(k)
      <4> DEFINE it == ItemCall(k, in, i)
      <4>1. it \in Call /\ WellCalled(k + 1, it)
        BY <2>11, <3>1, CallsBelow DEF in, s
      <4>2. it.r = (IF i = 1 THEN c.r ELSE RepLevel(k)) /\ it.d = in.d + 1
        BY <2>4 DEF ItemCall
      <4> HIDE DEF it
      <4>3. Walks[k + 1][it].ok
        BY <2>11 DEF it
      <4>4. WalkFits(k + 1, it)
        BY <1>2, <1>4, <3>2, <4>1, <4>3
      <4>5. QED
        BY <3>2, <4>2, <4>4 DEF WalkFits, it
    <3>4. t - s \in Nat /\ t - s >= 1
      BY <2>11, <3>1
    <3>5. ss \in Seq(Seq(EntryT)) /\ Len(ss) = t - s
      BY <3>3, <3>4
    <3>6. \A i \in 1 .. t - s :
                 /\ ss[i] \in Seq(EntryT) /\ Len(ss[i]) >= 1
                 /\ ss[i][1].rep = IF i = 1 THEN c.r ELSE RepLevel(k)
                 /\ \A b \in 1 .. Len(ss[i]) : /\ EntryFits(ss[i][b]) /\ ss[i][b].def >= in.d + 1
                                               /\ b > 1 => ss[i][b].rep > RepLevel(k)
      BY <3>3
    <3>7. w = FlattenSeq(ss)
      BY <2>11
    <3> HIDE DEF ss
    <3>8. w \in Seq(EntryT)
      BY <3>5, <3>7, FlattenTyped
    <3>9. Len(w) >= 1 /\ w[1] = ss[1][1]
      <4>1. 1 \in 1 .. t - s
        BY <3>4
      <4>2. Len(ss[1]) >= 1 /\ Len(ss) >= 1
        BY <3>4, <3>5, <3>6, <4>1
      <4>3. QED
        BY <3>5, <3>7, <4>2, FlattenFirst
    <3>10. w[1].rep = c.r
      <4>1. 1 \in 1 .. t - s
        BY <3>4
      <4>2. ss[1][1].rep = c.r
        BY <3>6, <4>1
      <4>3. QED
        BY <3>9, <4>2
    <3>11. ASSUME NEW p \in 1 .. Len(w)
           PROVE  /\ EntryFits(w[p]) /\ w[p].def >= c.d
                  /\ p > 1 => w[p].rep > RepLevel(k - 1)
      <4>1. PICK i \in 1 .. Len(ss) : \E b \in 1 .. Len(ss[i]) : w[p] = ss[i][b] /\ (p > 1 => b > 1 \/ i > 1)
        <5>1. CASE p = 1
          <6>1. 1 \in 1 .. Len(ss) /\ 1 \in 1 .. Len(ss[1])
            <7>1. 1 \in 1 .. Len(ss)
              BY <3>4, <3>5
            <7>2. Len(ss[1]) >= 1 /\ ss[1] \in Seq(EntryT)
              BY <3>5, <3>6, <7>1
            <7>3. QED
              BY <7>1, <7>2
          <6>2. w[p] = ss[1][1]
            BY <3>9, <5>1
          <6>3. QED
            BY <5>1, <6>1, <6>2
        <5>2. CASE p > 1
          <6>1. p \in 1 .. Len(FlattenSeq(ss))
            BY <3>7
          <6>2. QED
            BY <3>5, <3>7, <5>2, <6>1, FlattenLater
        <5>3. p = 1 \/ p > 1
          BY <3>8
        <5>4. QED
          BY <5>1, <5>2, <5>3
      <4>2. PICK b \in 1 .. Len(ss[i]) : w[p] = ss[i][b] /\ (p > 1 => b > 1 \/ i > 1)
        BY <4>1
      <4>3. i \in 1 .. t - s
        BY <3>5
      <4>4. /\ EntryFits(w[p]) /\ w[p].def >= in.d + 1 /\ (b > 1 => w[p].rep > RepLevel(k))
            /\ (b = 1 /\ i > 1 => w[p].rep = RepLevel(k))
        BY <3>6, <4>2, <4>3
      <4>5. w[p] \in EntryT
        BY <4>4 DEF EntryFits
      <4>6. w[p].def >= c.d
        BY <1>2, <2>3, <2>4, <4>4, <4>5 DEF EntryT
      <4>7. p > 1 => w[p].rep > RepLevel(k - 1)
        <5>1. w[p].rep \in Nat /\ RepLevel(k) = RepLevel(k - 1) + 1 /\ RepLevel(k - 1) \in Nat
          BY <2>2, <2>11, <4>5 DEF EntryT
        <5>2. ss[i] \in Seq(EntryT) /\ (b = 1 \/ b > 1)
          BY <3>6, <4>3
        <5>3. QED
          BY <4>2, <4>4, <5>1, <5>2
      <4>8. QED
        BY <4>4, <4>6, <4>7
    <3>12. QED
      BY <3>8, <3>9, <3>10, <3>11 DEF WalkFits, w
  <2>12. QED
    BY <2>1, <2>7, <2>8, <2>9, <2>10, <2>11, Zenon DEF WalkShape, in, s, t, w
<1>5. \A k \in 1 .. Leaf + 1 : k \in S
  <2> HIDE DEF S
  <2>1. QED
    BY <1>2, <1>3, <1>4, InductDown
<1>6. QED
  <2>1. \A k \in 1 .. Leaf : k \in 1 .. Leaf + 1 /\ k <= Leaf
    BY <1>2
  <2>2. QED
    BY <1>5, <2>1

------------------------------------------------------------------------------
(* The order of the values. *)

\* The elements below element e of array k, from Lo up to Hi.
Lo(k, e) == IF steps[k].kind \in Lists THEN Start(k, e) ELSE e
Hi(k, e) == IF steps[k].kind \in Lists THEN End(k, e) ELSE e + 1

\* A walk that may be made and succeeds.
Walked(k, c) == c \in Call /\ WellCalled(k, c) /\ Walks[k][c].ok
EntriesOf(k, c) == Walks[k][c].entries

\* Entry x of a walk at step k is entry b of the walk of c at the next.
From(k, e, x, c, b) ==
    /\ Walked(k + 1, c) /\ c.e \in Lo(k, e) .. Hi(k, e) - 1
    /\ b \in 1 .. Len(EntriesOf(k + 1, c)) /\ x = EntriesOf(k + 1, c)[b]

\* A walk emits one entry, or what the walks of the elements below emit, in order.
OneOrBelow(k, c) ==
    LET w == EntriesOf(k, c)
    IN \/ Len(w) = 1 /\ w[1].at \in {-1, c.e} /\ (k # Leaf => w[1].at = -1)
       \/ /\ k # Leaf
          /\ \A p \in 1 .. Len(w) : \E d \in Call : \E b \in Nat : From(k, c.e, w[p], d, b)
          /\ \A p, q \in 1 .. Len(w) : p < q =>
               \E d, f \in Call : \E b, h \in Nat :
                 /\ From(k, c.e, w[p], d, b) /\ From(k, c.e, w[q], f, h)
                 /\ d.e < f.e \/ (d = f /\ b < h)

LEMMA Sources ==
    ASSUME ArgsInv, NEW k \in 1 .. Leaf, NEW c, Walked(k, c)
    PROVE  OneOrBelow(k, c)
<1> DEFINE in == Below(k, c)
           s == Start(k, c.e)
           t == End(k, c.e)
           w == EntriesOf(k, c)
<1>1. c \in Call /\ WellCalled(k, c) /\ Walks[k][c].ok /\ c.e \in Int
  BY DEF Walked, Call
<1>2. shape \in Shapes
  BY DEF ArgsInv
<1>3. Leaf \in Nat /\ (steps[k].kind = "leaf" <=> k = Leaf)
  BY <1>2, ShapeFacts
<1>4. WalkShape(k, c)
  BY <1>1, WalkCases
<1>5. \A r, d, at : Len(<<Entry(r, d, at)>>) = 1 /\ <<Entry(r, d, at)>>[1].at = at
  BY DEF Entry
<1> HIDE DEF in, s, t, w
<1>6. CASE \E r, d : w = <<Entry(r, d, -1)>>
  BY <1>5, <1>6 DEF OneOrBelow, w
<1>7. CASE k = Leaf /\ w = <<Entry(c.r, in.d, c.e)>>
  BY <1>5, <1>7 DEF OneOrBelow, w
<1>8. CASE steps[k].kind = "struct" /\ Walks[k + 1][in].ok /\ w = Walks[k + 1][in].entries
  <2>1. k # Leaf /\ steps[k].kind \notin Lists
    BY <1>3, <1>8 DEF Lists
  <2>2. k + 1 \in 1 .. Leaf /\ in \in Call /\ WellCalled(k + 1, in) /\ in.e = c.e
    BY <1>1, <1>8, <2>1, CallsBelow DEF in, Below, Call
  <2>3. Lo(k, c.e) = c.e /\ Hi(k, c.e) = c.e + 1
    BY <2>1 DEF Lo, Hi
  <2>4. Walked(k + 1, in) /\ in.e \in Lo(k, c.e) .. Hi(k, c.e) - 1 /\ w = EntriesOf(k + 1, in)
    BY <1>1, <1>8, <2>2, <2>3 DEF Walked, EntriesOf
  <2>5. WalkFits(k + 1, in)
    BY <1>8, <2>2, WalksFit
  <2>6. Len(w) \in Nat
    BY <2>4, <2>5 DEF WalkFits, EntriesOf
  <2>7. \A p \in 1 .. Len(w) : From(k, c.e, w[p], in, p) /\ p \in Nat
    BY <2>4, <2>6 DEF From
  <2>8. QED
    BY <2>1, <2>2, <2>7 DEF OneOrBelow, w
<1>9. CASE /\ steps[k].kind \in Lists /\ s < t
           /\ \A i \in 1 .. t - s : Walks[k + 1][ItemCall(k, in, i)].ok
           /\ w = FlattenSeq([i \in 1 .. t - s |-> Walks[k + 1][ItemCall(k, in, i)].entries])
  <2> DEFINE n == t - s
             it(i) == ItemCall(k, in, i)
             ss == [i \in 1 .. n |-> Walks[k + 1][it(i)].entries]
  <2>1. k # Leaf /\ s \in Int /\ t \in Int /\ k + 1 \in 1 .. Leaf /\ n \in Nat
    <3>1. c.e \in 0 .. arrays[k].length - 1
      BY <1>4 DEF WalkShape
    <3>2. s \in Int /\ t \in Int /\ k + 1 \in 1 .. Leaf
      BY <1>9, <3>1, OffsetsTyped DEF s, t
    <3>3. QED
      BY <1>3, <1>9, <3>2 DEF Lists
  <2>2. ASSUME NEW i \in 1 .. n
        PROVE  /\ Walked(k + 1, it(i)) /\ it(i) \in Call /\ it(i).e = s + i - 1
               /\ Walks[k + 1][it(i)].entries \in Seq(EntryT)
    <3>1. in.e = c.e
      BY <1>1 DEF in, Below, Call
    <3>2. it(i) \in Call /\ WellCalled(k + 1, it(i))
      BY <1>1, <1>9, <2>1, CallsBelow DEF s, in
    <3>3. it(i).e = s + i - 1
      BY <3>1 DEF ItemCall, s, Start
    <3>4. Walks[k + 1][it(i)].ok
      BY <1>9
    <3> HIDE DEF it
    <3>5. WalkFits(k + 1, it(i))
      BY <2>1, <3>2, <3>4, WalksFit
    <3>6. QED
      BY <3>2, <3>3, <3>4, <3>5 DEF Walked, WalkFits
  <2>3. ss \in Seq(Seq(EntryT)) /\ Len(ss) = n
    <3> HIDE DEF it, n
    <3>1. QED
      BY <2>1, <2>2
  <2>4. \A i \in 1 .. n : ss[i] = EntriesOf(k + 1, it(i)) /\ ss[i] \in Seq(EntryT)
    <3> HIDE DEF it, n
    <3>1. QED
      BY <2>2 DEF EntriesOf
  <2>5. w = FlattenSeq(ss)
    BY <1>9
  <2>6. Lo(k, c.e) = s /\ Hi(k, c.e) = t
    BY <1>9 DEF Lo, Hi, s, t
  <2> HIDE DEF ss, it
  <2>7. ASSUME NEW i \in 1 .. n, NEW b \in 1 .. Len(ss[i])
        PROVE  From(k, c.e, ss[i][b], it(i), b) /\ b \in Nat /\ it(i) \in Call
    <3>1. it(i).e \in s .. t - 1
      BY <2>1, <2>2
    <3>2. b \in Nat
      BY <2>4
    <3>3. QED
      BY <2>2, <2>4, <2>6, <3>1, <3>2 DEF From
  <2>8. w \in Seq(EntryT) /\ Len(w) \in Nat
    BY <2>3, <2>5, FlattenTyped
  <2>9. ASSUME NEW p \in 1 .. Len(w)
        PROVE  \E d \in Call : \E b \in Nat : From(k, c.e, w[p], d, b)
    <3>1. \E i \in 1 .. Len(ss) : \E b \in 1 .. Len(ss[i]) : w[p] = ss[i][b]
      BY <2>3, <2>5, FlattenPlace
    <3>2. PICK i \in 1 .. n : \E b \in 1 .. Len(ss[i]) : w[p] = ss[i][b]
      BY <2>3, <3>1
    <3>3. PICK b \in 1 .. Len(ss[i]) : w[p] = ss[i][b]
      BY <3>2
    <3>4. QED
      BY <2>7, <3>2, <3>3
  <2>10. ASSUME NEW p \in 1 .. Len(w), NEW q \in 1 .. Len(w), p < q
         PROVE  \E d, f \in Call : \E b, h \in Nat :
                  /\ From(k, c.e, w[p], d, b) /\ From(k, c.e, w[q], f, h)
                  /\ d.e < f.e \/ (d = f /\ b < h)
    <3>1. InOrder(ss, w[p], w[q])
      BY <2>3, <2>5, <2>10, FlattenOrder
    <3>2. PICK i \in 1 .. n, j \in 1 .. n : \E b \in 1 .. Len(ss[i]), h \in 1 .. Len(ss[j]) :
            w[p] = ss[i][b] /\ w[q] = ss[j][h] /\ (i < j \/ (i = j /\ b < h))
      BY <2>3, <3>1 DEF InOrder
    <3>3. PICK b \in 1 .. Len(ss[i]), h \in 1 .. Len(ss[j]) :
            w[p] = ss[i][b] /\ w[q] = ss[j][h] /\ (i < j \/ (i = j /\ b < h))
      BY <3>2
    <3>4. /\ From(k, c.e, w[p], it(i), b) /\ b \in Nat /\ it(i) \in Call
          /\ From(k, c.e, w[q], it(j), h) /\ h \in Nat /\ it(j) \in Call
      BY <2>7, <3>2, <3>3
    <3>5. it(i).e < it(j).e \/ (it(i) = it(j) /\ b < h)
      <4>1. CASE i < j
        <5>1. it(i).e = s + i - 1 /\ it(j).e = s + j - 1
          BY <2>2, <3>2
        <5>2. QED
          BY <2>1, <3>2, <4>1, <5>1
      <4>2. CASE i = j /\ b < h
        BY <4>2
      <4>3. QED
        BY <3>3, <4>1, <4>2
    <3>6. QED
      BY <3>4, <3>5
  <2>11. QED
    BY <2>1, <2>9, <2>10 DEF OneOrBelow, w
<1>10. QED
  BY <1>4, <1>6, <1>7, <1>8, <1>9, Zenon DEF WalkShape, in, s, t, w, EntriesOf

------------------------------------------------------------------------------

\* The values of a walk stand in their order, below those of a walk of a later element.
Rises(w) ==
    \A p, q \in 1 .. Len(w) : p < q /\ IsValue(w[p]) /\ IsValue(w[q]) => w[p].at < w[q].at
Precedes(v, w) ==
    \A p \in 1 .. Len(v) : \A q \in 1 .. Len(w) :
      IsValue(v[p]) /\ IsValue(w[q]) => v[p].at < w[q].at

LEMMA OffsetsRise ==
    ASSUME ArgsInv, OffsetsGrow, NEW k \in 1 .. Leaf, k # Leaf,
           NEW d \in 0 .. arrays[k].length - 1, NEW e \in 0 .. arrays[k].length - 1, d < e
    PROVE  Hi(k, d) <= Lo(k, e) /\ Hi(k, d) \in Int /\ Lo(k, e) \in Int /\ Lo(k, d) \in Int
<1>1. shape \in Shapes /\ ArrayFits(k)
  BY DEF ArgsInv
<1>2. Size(k) \in Nat
  BY <1>1, ShapeFacts
<1>3. arrays[k].length <= Size(k) /\ arrays[k].length \in Nat
  BY <1>1, <1>2 DEF ArrayFits
<1>4. CASE steps[k].kind \notin Lists
  BY <1>3, <1>4 DEF Lo, Hi
<1>5. CASE steps[k].kind \in Lists
  <2> DEFINE o == arrays[k].offs
             S == {m \in 0 .. Size(k) : d + 1 <= m => o[d + 1] <= o[m]}
  <2>1. o \in [0 .. Size(k) -> Int]
    BY <1>1, <1>5 DEF ArrayFits
  <2>2. \A j \in 0 .. Size(k) - 1 : o[j] <= o[j + 1]
    BY <1>5 DEF OffsetsGrow, Size
  <2> HIDE DEF o
  <2>3. d \in Nat /\ e \in Nat /\ d + 1 \in 0 .. Size(k) /\ e \in 0 .. Size(k) /\ d + 1 <= e /\ d \in 0 .. Size(k)
    BY <1>2, <1>3
  <2>4. 0 \in S
    BY <1>2, <2>3
  <2>5. ASSUME NEW j \in 0 .. Size(k) - 1, j \in S PROVE j + 1 \in S
    <3>1. j \in 0 .. Size(k) /\ j + 1 \in 0 .. Size(k)
      BY <1>2
    <3>2. o[j] <= o[j + 1] /\ o[j] \in Int /\ o[j + 1] \in Int /\ o[d + 1] \in Int
      BY <2>1, <2>2, <2>3, <3>1
    <3>3. CASE d + 1 <= j
      BY <2>5, <3>1, <3>2, <3>3
    <3>4. CASE d + 1 = j + 1
      <4>1. o[d + 1] <= o[j + 1]
        BY <3>2, <3>4
      <4>2. QED
        BY <3>1, <4>1
    <3>5. CASE d + 1 > j + 1
      BY <2>3, <3>1, <3>5
    <3>6. QED
      BY <2>3, <3>1, <3>3, <3>4, <3>5
  <2>6. \A m \in 0 .. Size(k) : m \in S
    <3> HIDE DEF S
    <3>1. QED
      BY <1>2, <2>4, <2>5, InductTo
  <2>7. o[d + 1] <= o[e] /\ o[d + 1] \in Int /\ o[e] \in Int /\ o[d] \in Int
    BY <2>1, <2>3, <2>6
  <2>8. Hi(k, d) = o[d + 1] /\ Lo(k, e) = o[e] /\ Lo(k, d) = o[d]
    BY <1>5 DEF Hi, Lo, Start, End, o
  <2>9. QED
    BY <2>7, <2>8
<1>6. QED
  BY <1>4, <1>5

LEMMA EntriesTyped ==
    ASSUME ArgsInv, NEW k \in 1 .. Leaf, NEW c, Walked(k, c)
    PROVE  /\ EntriesOf(k, c) \in Seq(EntryT) /\ Len(EntriesOf(k, c)) >= 1 /\ Len(EntriesOf(k, c)) \in Nat
           /\ \A p \in 1 .. Len(EntriesOf(k, c)) :
                EntriesOf(k, c)[p] \in EntryT /\ EntriesOf(k, c)[p].at \in Int
           /\ c.e \in 0 .. arrays[k].length - 1
<1>1. WalkFits(k, c)
  BY WalksFit DEF Walked
<1>2. EntriesOf(k, c) \in Seq(EntryT) /\ Len(EntriesOf(k, c)) >= 1
  BY <1>1 DEF WalkFits, EntriesOf
<1>3. \A p \in 1 .. Len(EntriesOf(k, c)) : EntriesOf(k, c)[p] \in EntryT
  BY <1>2
<1>4. \A x \in EntryT : x.at \in Int
  BY DEF EntryT
<1>5. c.e \in 0 .. arrays[k].length - 1
  BY WalkCases DEF WalkShape, Walked
<1>6. QED
  BY <1>2, <1>3, <1>4, <1>5

\* At each step: within a walk, and from one walk to another, values rise.
RisesAt(k) ==
    /\ \A c : Walked(k, c) => Rises(EntriesOf(k, c))
    /\ \A c, d : Walked(k, c) /\ Walked(k, d) /\ c.e < d.e => Precedes(EntriesOf(k, c), EntriesOf(k, d))

LEMMA RisesAtLeaf == ArgsInv => RisesAt(Leaf)
<1> HAVE ArgsInv
<1>1. Leaf \in 1 .. Leaf
  BY ShapeFacts DEF ArgsInv
<1>2. \A c : Walked(Leaf, c) => /\ Len(EntriesOf(Leaf, c)) = 1 /\ EntriesOf(Leaf, c)[1].at \in {-1, c.e}
                                /\ c.e \in Int
  BY <1>1, Sources DEF OneOrBelow, Walked, Call
<1>3. ASSUME NEW c, Walked(Leaf, c) PROVE Rises(EntriesOf(Leaf, c))
  BY <1>2, <1>3 DEF Rises
<1>4. ASSUME NEW c, NEW d, Walked(Leaf, c), Walked(Leaf, d), c.e < d.e
      PROVE  Precedes(EntriesOf(Leaf, c), EntriesOf(Leaf, d))
  <2> DEFINE v == EntriesOf(Leaf, c)
             w == EntriesOf(Leaf, d)
  <2>1. Len(v) = 1 /\ v[1].at \in {-1, c.e} /\ Len(w) = 1 /\ w[1].at \in {-1, d.e}
    BY <1>2, <1>4
  <2> HIDE DEF v, w
  <2>2. Precedes(v, w)
    <3>1. \A p \in 1 .. 1 : p = 1
      OBVIOUS
    <3>2. IsValue(v[1]) /\ IsValue(w[1]) => v[1].at < w[1].at
      BY <1>4, <2>1 DEF IsValue
    <3>3. QED
      BY <2>1, <3>1, <3>2 DEF Precedes
  <2>3. QED
    BY <2>2 DEF v, w
<1>5. QED
  BY <1>3, <1>4 DEF RisesAt

LEMMA RisesAbove ==
    ASSUME ArgsInv, OffsetsGrow, NEW k \in 1 .. Leaf, k # Leaf, RisesAt(k + 1)
    PROVE  RisesAt(k)
<1>0. k + 1 \in 1 .. Leaf
  BY ShapeFacts DEF ArgsInv
<1>1. ASSUME NEW c, Walked(k, c) PROVE Rises(EntriesOf(k, c))
  <2> DEFINE w == EntriesOf(k, c)
  <2>1. OneOrBelow(k, c)
    BY <1>1, Sources
  <2> SUFFICES ASSUME NEW p \in 1 .. Len(w), NEW q \in 1 .. Len(w), p < q, IsValue(w[p]), IsValue(w[q])
               PROVE  w[p].at < w[q].at
    BY DEF Rises
  <2>2. Len(w) # 1
    OBVIOUS
  <2>3. PICK d \in Call, f \in Call, b \in Nat, h \in Nat :
          /\ From(k, c.e, w[p], d, b) /\ From(k, c.e, w[q], f, h)
          /\ d.e < f.e \/ (d = f /\ b < h)
    BY <2>1, <2>2 DEF OneOrBelow
  <2> DEFINE u == EntriesOf(k + 1, d)
             v == EntriesOf(k + 1, f)
  <2>4. /\ Walked(k + 1, d) /\ b \in 1 .. Len(u) /\ w[p] = u[b]
        /\ Walked(k + 1, f) /\ h \in 1 .. Len(v) /\ w[q] = v[h]
    BY <2>3 DEF From
  <2>5. CASE d.e < f.e
    <3>1. Precedes(u, v)
      BY <2>4, <2>5 DEF RisesAt
    <3> HIDE DEF u, v, w
    <3>2. QED
      BY <2>4, <3>1 DEF Precedes
  <2>6. CASE d = f /\ b < h
    <3>1. Rises(u) /\ u = v
      BY <2>4, <2>6 DEF RisesAt
    <3> HIDE DEF u, v, w
    <3>2. QED
      BY <2>4, <2>6, <3>1 DEF Rises
  <2>7. QED
    BY <2>3, <2>5, <2>6
<1>2. ASSUME NEW c, NEW d, Walked(k, c), Walked(k, d), c.e < d.e
      PROVE  Precedes(EntriesOf(k, c), EntriesOf(k, d))
  <2> DEFINE v == EntriesOf(k, c)
             w == EntriesOf(k, d)
  <2> SUFFICES ASSUME NEW p \in 1 .. Len(v), NEW q \in 1 .. Len(w), IsValue(v[p]), IsValue(w[q])
               PROVE  v[p].at < w[q].at
    BY DEF Precedes
  <2>1. OneOrBelow(k, c) /\ OneOrBelow(k, d)
    BY <1>2, Sources
  <2>2. PICK f \in Call, b \in Nat : From(k, c.e, v[p], f, b)
    <3>1. ~(Len(v) = 1 /\ v[1].at = -1)
      <4>1. Len(v) = 1 => p = 1
        OBVIOUS
      <4>2. QED
        BY <4>1 DEF IsValue
    <3>2. QED
      BY <2>1, <3>1 DEF OneOrBelow
  <2>3. PICK g \in Call, h \in Nat : From(k, d.e, w[q], g, h)
    <3>1. ~(Len(w) = 1 /\ w[1].at = -1)
      <4>1. Len(w) = 1 => q = 1
        OBVIOUS
      <4>2. QED
        BY <4>1 DEF IsValue
    <3>2. QED
      BY <2>1, <3>1 DEF OneOrBelow
  <2>4. /\ Walked(k + 1, f) /\ b \in 1 .. Len(EntriesOf(k + 1, f)) /\ v[p] = EntriesOf(k + 1, f)[b]
        /\ Walked(k + 1, g) /\ h \in 1 .. Len(EntriesOf(k + 1, g)) /\ w[q] = EntriesOf(k + 1, g)[h]
        /\ f.e \in Lo(k, c.e) .. Hi(k, c.e) - 1 /\ g.e \in Lo(k, d.e) .. Hi(k, d.e) - 1
    BY <2>2, <2>3 DEF From
  <2>5. f.e < g.e
    <3>1. c.e \in 0 .. arrays[k].length - 1 /\ d.e \in 0 .. arrays[k].length - 1
      BY <1>2, EntriesTyped
    <3>2. Hi(k, c.e) <= Lo(k, d.e) /\ Hi(k, c.e) \in Int /\ Lo(k, d.e) \in Int /\ Lo(k, c.e) \in Int
      BY <1>2, <3>1, OffsetsRise
    <3>3. f.e \in Int /\ g.e \in Int
      BY <2>2, <2>3 DEF Call
    <3>4. f.e <= Hi(k, c.e) - 1 /\ Lo(k, d.e) <= g.e
      BY <2>4, <3>2, <3>3
    <3>5. QED
      BY <3>2, <3>3, <3>4
  <2>6. Precedes(EntriesOf(k + 1, f), EntriesOf(k + 1, g))
    BY <2>4, <2>5 DEF RisesAt
  <2> HIDE DEF v, w
  <2>7. QED
    BY <2>4, <2>6 DEF Precedes
<1>3. QED
  BY <1>1, <1>2 DEF RisesAt

\* What a walk emits stands in the order of the leaf array.
LEMMA WalksRise == ArgsInv /\ OffsetsGrow => \A k \in 1 .. Leaf : RisesAt(k)
<1> SUFFICES ASSUME ArgsInv, OffsetsGrow PROVE \A k \in 1 .. Leaf : RisesAt(k)
  OBVIOUS
<1> DEFINE S == {k \in 1 .. Leaf + 1 : k <= Leaf => RisesAt(k)}
<1>1. Leaf \in Nat
  BY ShapeFacts DEF ArgsInv
<1>2. Leaf + 1 \in S
  BY <1>1
<1>3. ASSUME NEW k \in 1 .. Leaf, k + 1 \in S PROVE k \in S
  <2>1. CASE k = Leaf
    BY <1>1, <2>1, RisesAtLeaf
  <2>2. CASE k # Leaf
    <3>1. k + 1 <= Leaf /\ k \in 1 .. Leaf + 1
      BY <1>1, <2>2
    <3>2. RisesAt(k)
      BY <1>3, <2>2, <3>1, RisesAbove
    <3>3. QED
      BY <3>1, <3>2
  <2>3. QED
    BY <2>1, <2>2
<1>4. \A k \in 1 .. Leaf + 1 : k \in S
  <2> HIDE DEF S
  <2>1. QED
    BY <1>1, <1>2, <1>3, InductDown
<1>5. \A k \in 1 .. Leaf : k \in 1 .. Leaf + 1 /\ k <= Leaf
  BY <1>1
<1>6. QED
  BY <1>4, <1>5

------------------------------------------------------------------------------
(* The rows. *)

\* The check of the leaf array, as CheckLeaf makes it.
LeafOK ==
    /\ lacking.what # "child"
    /\ ValidateChild(arrays[Leaf], IF HasList THEN arrays[Leaf].length ELSE shape.rows)

\* The entries of a row: the first begins it, the others do not.
RowFits(w) ==
    /\ w \in Seq(EntryT) /\ Len(w) >= 1 /\ w[1].rep = 0
    /\ \A i \in 1 .. Len(w) : EntryFits(w[i]) /\ (i > 1 => w[i].rep > 0)

LEMMA RowIsWalk ==
    ASSUME ArgsInv, HasList, NEW e \in Int, Row(e).ok
    PROVE  LET c == [e |-> e, r |-> 0, d |-> 0]
           IN 1 \in 1 .. Leaf /\ Walked(1, c) /\ Row(e).entries = EntriesOf(1, c) /\ c.e = e /\ c.r = 0
<1> DEFINE c == [e |-> e, r |-> 0, d |-> 0]
<1>1. shape \in Shapes
  BY DEF ArgsInv
<1>2. 1 \in 1 .. Leaf
  BY <1>1, ShapeFacts
<1>3. c \in Call /\ c.e = e /\ c.r = 0 /\ c.d = 0
  BY DEF Call
<1>4. WellCalled(1, c)
  <2>1. RepLevel(0) = 0 /\ DefAbove(1) = 0 /\ 1 - 1 = 0
    BY <1>1, LevelFacts
  <2>2. RepLevel(1 - 1) = 0
    BY <2>1
  <2>3. QED
    BY <1>3, <2>1, <2>2 DEF WellCalled
<1>5. Row(e) = Walks[1][c]
  BY DEF Row
<1>6. QED
  BY <1>2, <1>3, <1>4, <1>5 DEF Walked, EntriesOf

LEMMA FlatFits ==
    ASSUME ArgsInv, LeafOK, ~HasList, NEW e \in 0 .. shape.rows - 1
    PROVE  EntryFits(FlatEntry(e)) /\ FlatEntry(e).rep = 0 /\ FlatEntry(e).at \in {-1, e}
<1> DEFINE optional == {k \in 1 .. Leaf : steps[k].optional}
           absent == {k \in optional : (k = Leaf /\ shape.nullType) \/ e \notin arrays[k].valid}
           above == {k \in optional : \A j \in absent : k < j}
<1>1. shape \in Shapes
  BY DEF ArgsInv
<1>2. Leaf \in Nat /\ Leaf >= 1 /\ shape.rows \in Nat
  BY <1>1, ShapeFacts
<1>4. IsFiniteSet(optional)
  <2>1. IsFiniteSet(1 .. Leaf)
    BY <1>2, FS_Interval
  <2>2. optional \in SUBSET (1 .. Leaf)
    OBVIOUS
  <2>3. QED
    BY <2>1, <2>2, FS_Subset
<1>3. MaxRep = 0 /\ MaxDef \in Nat /\ MaxDef = Cardinality(optional)
  <2>1. MaxRep = 0 /\ MaxDef \in Nat
    BY <1>1, LevelFacts
  <2>2. MaxDef = Cardinality(optional) + MaxRep
    BY DEF MaxDef
  <2>4. Cardinality(optional) \in Nat
    BY <1>4, FS_CardinalityType
  <2>5. QED
    BY <2>1, <2>2, <2>4
<1>5. /\ IsFiniteSet(above) /\ Cardinality(above) <= Cardinality(optional)
      /\ Cardinality(optional) = Cardinality(above) => optional = above
      /\ Cardinality(above) \in Nat
  <2>1. above \in SUBSET optional
    OBVIOUS
  <2>2. /\ IsFiniteSet(above) /\ Cardinality(above) <= Cardinality(optional)
        /\ Cardinality(optional) = Cardinality(above) => optional = above
    BY <1>4, <2>1, FS_Subset
  <2>3. QED
    BY <2>2, FS_CardinalityType
<1>6. absent = {} => above = optional
  OBVIOUS
<1>7. absent # {} => above # optional
  <2> HAVE absent # {}
  <2>1. PICK j \in absent : TRUE
    OBVIOUS
  <2>2. j \in optional /\ j \in Int /\ ~(j < j)
    BY <1>2
  <2>3. QED
    BY <2>1, <2>2
<1>8. FlatEntry(e) = Entry(0, Cardinality(above), IF absent = {} THEN e ELSE -1)
  BY DEF FlatEntry
<1>9. arrays[Leaf].length = shape.rows
  BY DEF LeafOK, ValidateChild
<1> DEFINE x == FlatEntry(e)
<1> HIDE DEF optional, absent, above
<1>10. x.rep = 0 /\ x.def = Cardinality(above) /\ x.at = (IF absent = {} THEN e ELSE -1) /\ x \in EntryT
  BY <1>2, <1>5, <1>8 DEF Entry, EntryT
<1>11. x.def = MaxDef <=> absent = {}
  BY <1>3, <1>5, <1>6, <1>7, <1>10
<1> HIDE DEF x
<1>12. EntryFits(x)
  BY <1>2, <1>3, <1>5, <1>9, <1>10, <1>11 DEF EntryFits, IsValue
<1>13. QED
  BY <1>10, <1>12 DEF x

LEMMA RowsFit ==
    ASSUME ArgsInv, LeafOK, NEW e \in 0 .. shape.rows - 1, Row(e).ok
    PROVE  RowFits(Row(e).entries)
<1>0. shape.rows \in Nat /\ e \in Int
  BY ShapeFacts DEF ArgsInv
<1>1. CASE HasList
  <2> DEFINE c == [e |-> e, r |-> 0, d |-> 0]
             w == EntriesOf(1, c)
  <2>1. 1 \in 1 .. Leaf /\ Walked(1, c) /\ Row(e).entries = w /\ c.r = 0
    BY <1>0, <1>1, RowIsWalk
  <2> HIDE DEF c, w
  <2>2. WalkFits(1, c)
    BY <2>1, WalksFit DEF Walked
  <2>3. RepLevel(1 - 1) = 0
    <3>1. 1 - 1 = 0
      OBVIOUS
    <3>2. QED
      BY <3>1, LevelFacts DEF ArgsInv
  <2>4. QED
    BY <2>1, <2>2, <2>3 DEF WalkFits, RowFits, EntriesOf, w
<1>2. CASE ~HasList
  <2> DEFINE x == FlatEntry(e)
  <2>1. EntryFits(x) /\ x.rep = 0 /\ x \in EntryT
    BY <1>2, FlatFits DEF EntryFits
  <2>2. Row(e).entries = <<x>>
    BY <1>2 DEF Row, Emits
  <2> HIDE DEF x
  <2>3. <<x>> \in Seq(EntryT) /\ Len(<<x>>) = 1 /\ <<x>>[1] = x
    BY <2>1
  <2>4. QED
    BY <2>1, <2>2, <2>3 DEF RowFits
<1>3. QED
  BY <1>1, <1>2

\* The values of a row rise, and lie below those of a later row.
LEMMA RowsRise ==
    ASSUME ArgsInv, LeafOK, OffsetsGrow,
           NEW d \in 0 .. shape.rows - 1, NEW e \in 0 .. shape.rows - 1, Row(d).ok, Row(e).ok
    PROVE  Rises(Row(e).entries) /\ (d < e => Precedes(Row(d).entries, Row(e).entries))
<1>0. shape.rows \in Nat /\ e \in Int /\ d \in Int
  BY ShapeFacts DEF ArgsInv
<1>1. CASE HasList
  <2> DEFINE a == [e |-> d, r |-> 0, d |-> 0]
             b == [e |-> e, r |-> 0, d |-> 0]
  <2>1. 1 \in 1 .. Leaf /\ Walked(1, a) /\ Row(d).entries = EntriesOf(1, a) /\ a.e = d
    BY <1>0, <1>1, RowIsWalk
  <2>2. Walked(1, b) /\ Row(e).entries = EntriesOf(1, b) /\ b.e = e
    BY <1>0, <1>1, RowIsWalk
  <2> HIDE DEF a, b
  <2>3. RisesAt(1)
    BY <2>1, WalksRise
  <2>4. QED
    BY <2>1, <2>2, <2>3 DEF RisesAt
<1>2. CASE ~HasList
  <2> DEFINE x == FlatEntry(d)
             y == FlatEntry(e)
  <2>1. x.at \in {-1, d} /\ y.at \in {-1, e}
    BY <1>2, FlatFits
  <2>2. Row(d).entries = <<x>> /\ Row(e).entries = <<y>>
    BY <1>2 DEF Row, Emits
  <2> HIDE DEF x, y
  <2>3. Len(<<x>>) = 1 /\ Len(<<y>>) = 1 /\ <<x>>[1] = x /\ <<y>>[1] = y /\ \A p \in 1 .. 1 : p = 1
    OBVIOUS
  <2>4. Rises(<<y>>)
    BY <2>3 DEF Rises
  <2>5. d < e => Precedes(<<x>>, <<y>>)
    <3> HAVE d < e
    <3>1. IsValue(x) /\ IsValue(y) => x.at < y.at
      BY <2>1 DEF IsValue
    <3>2. QED
      BY <2>3, <3>1 DEF Precedes
  <2>6. QED
    BY <2>2, <2>4, <2>5
<1>3. QED
  BY <1>1, <1>2

------------------------------------------------------------------------------
(* The inductive invariant. *)

RowsUpTo(n) == [i \in 1 .. n |-> Row(i - 1).entries]

\* What the shredder holds after n rows.
Shredded(n, entries, count, positions) ==
    /\ \A e \in 0 .. n - 1 : Row(e).ok
    /\ entries = FlattenSeq(RowsUpTo(n))
    /\ Cardinality({i \in DOMAIN entries : entries[i].rep = 0}) = n
    /\ count = Cardinality(ValuesAt(entries))
    /\ positions = {entries[i].at : i \in ValuesAt(entries)}

EmptyPage == [levels |-> <<>>, values |-> <<>>, nulls |-> 0]
FullPage ==
    [levels |-> [i \in DOMAIN levels |-> [rep |-> levels[i].rep, def |-> levels[i].def]],
     values |-> PageValues, nulls |-> NullCount]

IInv ==
    /\ ArgsInv
    /\ phase \in {"check", "rows", "written", "refused"} /\ row \in 0 .. shape.rows
    /\ phase = "check" => row = 0
    /\ phase \in {"rows", "written"} \/ row > 0 => LeafOK
    /\ Shredded(row, levels, presentCount, present)
    /\ page = IF phase = "written" THEN FullPage ELSE EmptyPage
    /\ phase = "written" => row = shape.rows
    /\ phase = "refused" => \/ row = 0 /\ ~LeafOK
                            \/ row < shape.rows /\ ~Row(row).ok

LEMMA RowsTyped ==
    ASSUME ArgsInv, NEW n \in 0 .. shape.rows, n > 0 => LeafOK, \A e \in 0 .. n - 1 : Row(e).ok
    PROVE  /\ RowsUpTo(n) \in Seq(Seq(EntryT)) /\ Len(RowsUpTo(n)) = n /\ n \in Nat
           /\ \A i \in 1 .. n : RowsUpTo(n)[i] = Row(i - 1).entries /\ RowFits(RowsUpTo(n)[i])
           /\ FlattenSeq(RowsUpTo(n)) \in Seq(EntryT)
           /\ \A i \in 1 .. Len(FlattenSeq(RowsUpTo(n))) : EntryFits(FlattenSeq(RowsUpTo(n))[i])
<1>1. shape.rows \in Nat
  BY ShapeFacts DEF ArgsInv
<1>2. n \in Nat
  BY <1>1
<1>3. ASSUME NEW i \in 1 .. n PROVE RowFits(Row(i - 1).entries) /\ Row(i - 1).entries \in Seq(EntryT)
  <2>1. i - 1 \in 0 .. shape.rows - 1 /\ i - 1 \in 0 .. n - 1 /\ n > 0
    BY <1>1, <1>2
  <2>2. RowFits(Row(i - 1).entries)
    BY <2>1, RowsFit
  <2>3. QED
    BY <2>2 DEF RowFits
<1>4. \A i \in 1 .. n : RowsUpTo(n)[i] = Row(i - 1).entries
  BY DEF RowsUpTo
<1>5. RowsUpTo(n) \in Seq(Seq(EntryT)) /\ Len(RowsUpTo(n)) = n
  BY <1>2, <1>3 DEF RowsUpTo
<1> DEFINE ss == RowsUpTo(n)
<1> HIDE DEF ss
<1>6. FlattenSeq(ss) \in Seq(EntryT)
  BY <1>5, FlattenTyped DEF ss
<1>7. ASSUME NEW p \in 1 .. Len(FlattenSeq(ss)) PROVE EntryFits(FlattenSeq(ss)[p])
  <2>1. PICK i \in 1 .. Len(ss) : \E b \in 1 .. Len(ss[i]) : FlattenSeq(ss)[p] = ss[i][b]
    BY <1>5, FlattenPlace DEF ss
  <2>2. i \in 1 .. n /\ RowFits(ss[i])
    BY <1>3, <1>4, <1>5, <2>1 DEF ss
  <2>3. QED
    BY <2>1, <2>2 DEF RowFits
<1>8. QED
  BY <1>2, <1>3, <1>4, <1>5, <1>6, <1>7 DEF ss

LEMMA ShreddedNone == Shredded(0, <<>>, 0, {})
<1>1. RowsUpTo(0) = <<>>
  BY DEF RowsUpTo
<1>2. DOMAIN <<>> = {}
  OBVIOUS
<1>3. ValuesAt(<<>>) = {}
  BY <1>2 DEF ValuesAt
<1>4. {i \in DOMAIN <<>> : <<>>[i].rep = 0} = {}
  BY <1>2
<1>5. Cardinality({}) = 0
  BY FS_EmptySet
<1>6. <<>> = FlattenSeq(RowsUpTo(0))
  BY <1>1, FlattenEmpty
<1>7. \A e \in 0 .. 0 - 1 : Row(e).ok
  OBVIOUS
<1>8. 0 = Cardinality(ValuesAt(<<>>))
  BY <1>3, <1>5
<1>9. {} = {<<>>[i].at : i \in ValuesAt(<<>>)}
  BY <1>3
<1>10. Cardinality({i \in DOMAIN <<>> : <<>>[i].rep = 0}) = 0
  BY <1>4, <1>5
<1>11. QED
  BY <1>6, <1>7, <1>8, <1>9, <1>10, Zenon DEF Shredded

\* One row more, as NextRow takes it.
OneRow(n, entries, count, positions, all, count2, positions2) ==
    LET w == Row(n).entries
    IN /\ Row(n).ok /\ all = entries \o w
       /\ count2 = count + Cardinality(ValuesAt(w))
       /\ positions2 = positions \cup {w[i].at : i \in ValuesAt(w)}

LEMMA ShreddedNext ==
    ASSUME ArgsInv, LeafOK, NEW n \in 0 .. shape.rows - 1,
           NEW entries, NEW count, NEW positions, Shredded(n, entries, count, positions),
           NEW all, NEW count2, NEW positions2,
           OneRow(n, entries, count, positions, all, count2, positions2)
    PROVE  Shredded(n + 1, all, count2, positions2)
<1> DEFINE w == Row(n).entries
<1>0. /\ Row(n).ok /\ all = entries \o w
      /\ count2 = count + Cardinality(ValuesAt(w))
      /\ positions2 = positions \cup {w[i].at : i \in ValuesAt(w)}
  BY DEF OneRow
<1>1. shape.rows \in Nat /\ n \in Nat /\ n \in 0 .. shape.rows
  BY ShapeFacts DEF ArgsInv
<1>2. RowFits(w) /\ w \in Seq(EntryT)
  BY <1>0, RowsFit DEF RowFits
<1>3. /\ RowsUpTo(n) \in Seq(Seq(EntryT)) /\ Len(RowsUpTo(n)) = n /\ entries \in Seq(EntryT)
  BY <1>1, RowsTyped DEF Shredded
<1>4. \A e \in 0 .. n : Row(e).ok
  BY <1>0, <1>1 DEF Shredded
<1> HIDE DEF w
<1>5. RowsUpTo(n + 1) = Append(RowsUpTo(n), w)
  <2>1. \A i \in 1 .. n : RowsUpTo(n)[i] = Row(i - 1).entries
    BY DEF RowsUpTo
  <2>2. /\ Append(RowsUpTo(n), w) = [i \in 1 .. n + 1 |-> Append(RowsUpTo(n), w)[i]]
        /\ \A i \in 1 .. n : Append(RowsUpTo(n), w)[i] = RowsUpTo(n)[i]
        /\ Append(RowsUpTo(n), w)[n + 1] = w
    <3> DEFINE q == RowsUpTo(n)
               T == Seq(EntryT)
    <3>1. q \in Seq(T) /\ Len(q) = n /\ w \in T
      BY <1>2, <1>3
    <3> HIDE DEF q, T
    <3>2. /\ Append(q, w) = [i \in 1 .. n + 1 |-> Append(q, w)[i]]
          /\ \A i \in 1 .. n : Append(q, w)[i] = q[i]
          /\ Append(q, w)[n + 1] = w
      <4>1. Append(q, w) \in Seq(T) /\ Len(Append(q, w)) = n + 1
        BY <3>1
      <4>2. DOMAIN Append(q, w) = 1 .. n + 1
        BY <4>1
      <4>3. (\A i \in 1 .. n : Append(q, w)[i] = q[i]) /\ Append(q, w)[n + 1] = w
        BY <1>1, <3>1
      <4> DEFINE f == Append(q, w)
      <4>4. f = [i \in DOMAIN f |-> f[i]]
        <5>1. f \in Seq(T)
          BY <4>1
        <5> HIDE DEF f
        <5>2. QED
          BY <5>1
      <4>5. QED
        BY <4>2, <4>3, <4>4
    <3>3. QED
      BY <3>2 DEF q
  <2>3. \A i \in 1 .. n + 1 : Append(RowsUpTo(n), w)[i] = Row(i - 1).entries
    <3>1. (n + 1) - 1 = n
      BY <1>1
    <3>2. \A i \in 1 .. n + 1 : i \in 1 .. n \/ i = n + 1
      BY <1>1
    <3>3. QED
      BY <2>1, <2>2, <3>1, <3>2 DEF w
  <2>4. QED
    BY <2>2, <2>3 DEF RowsUpTo
<1>6. all = FlattenSeq(RowsUpTo(n + 1))
  <2>1. FlattenSeq(Append(RowsUpTo(n), w)) = FlattenSeq(RowsUpTo(n)) \o w
    BY <1>2, <1>3, FlattenAppend
  <2>2. QED
    BY <1>0, <1>5, <2>1 DEF Shredded
<1> DEFINE l == Len(entries)
           h == Len(w)
<1>7. /\ l \in Nat /\ h \in Nat /\ Len(all) = l + h
      /\ DOMAIN all = 1 .. l + h /\ DOMAIN entries = 1 .. l /\ DOMAIN w = 1 .. h
      /\ \A i \in 1 .. l : all[i] = entries[i]
      /\ \A j \in 1 .. h : all[l + j] = w[j] /\ l + j \in 1 .. l + h
      /\ \A i \in 1 .. l : i \in 1 .. l + h
  BY <1>0, <1>2, <1>3
<1>8. \A i \in 1 .. l + h : i \in 1 .. l \/ \E j \in 1 .. h : i = l + j
  <2> SUFFICES ASSUME NEW i \in 1 .. l + h, i \notin 1 .. l PROVE \E j \in 1 .. h : i = l + j
    OBVIOUS
  <2> HIDE DEF l, h
  <2>1. i - l \in 1 .. h /\ i = l + (i - l)
    BY <1>7
  <2>2. QED
    BY <2>1
<1> HIDE DEF l, h
<1>9. count + Cardinality(ValuesAt(w)) = Cardinality(ValuesAt(all))
  <2>1. /\ ValuesAt(entries) \in SUBSET (1 .. l) /\ ValuesAt(w) \in SUBSET (1 .. h)
        /\ ValuesAt(all) \in SUBSET (1 .. l + h)
    BY <1>7 DEF ValuesAt
  <2>2. /\ \A i \in 1 .. l : i \in ValuesAt(all) <=> i \in ValuesAt(entries)
        /\ \A j \in 1 .. h : l + j \in ValuesAt(all) <=> j \in ValuesAt(w)
    BY <1>7 DEF ValuesAt
  <2>3. Cardinality(ValuesAt(all)) = Cardinality(ValuesAt(entries)) + Cardinality(ValuesAt(w))
    <3>1. Joined(l, h, ValuesAt(entries), ValuesAt(w), ValuesAt(all))
      BY <2>1, <2>2 DEF Joined
    <3>2. QED
      BY <1>7, <3>1, CountConcat
  <2>4. QED
    BY <2>3 DEF Shredded
<1>10. positions \cup {w[i].at : i \in ValuesAt(w)} = {all[i].at : i \in ValuesAt(all)}
  <2>1. positions = {entries[i].at : i \in ValuesAt(entries)}
    BY DEF Shredded
  <2>2. ASSUME NEW i \in ValuesAt(entries) PROVE i \in ValuesAt(all) /\ all[i].at = entries[i].at
    BY <1>7 DEF ValuesAt
  <2>3. ASSUME NEW j \in ValuesAt(w) PROVE l + j \in ValuesAt(all) /\ all[l + j].at = w[j].at
    BY <1>7 DEF ValuesAt
  <2>4. ASSUME NEW i \in ValuesAt(all)
        PROVE  \/ i \in ValuesAt(entries) /\ all[i].at = entries[i].at
               \/ \E j \in ValuesAt(w) : all[i].at = w[j].at
    <3>1. i \in 1 .. l + h /\ IsValue(all[i])
      BY <1>7 DEF ValuesAt
    <3>2. CASE i \in 1 .. l
      <4>1. all[i] = entries[i]
        BY <1>7, <3>2
      <4>2. QED
        BY <1>7, <3>1, <3>2, <4>1 DEF ValuesAt
    <3>3. ASSUME NEW j \in 1 .. h, i = l + j PROVE j \in ValuesAt(w) /\ all[i].at = w[j].at
      <4>1. all[i] = w[j]
        BY <1>7, <3>3
      <4>2. QED
        BY <1>7, <3>1, <4>1 DEF ValuesAt
    <3>4. QED
      BY <1>8, <3>1, <3>2, <3>3
  <2>5. ASSUME NEW x \in positions \cup {w[i].at : i \in ValuesAt(w)}
        PROVE  \E i \in ValuesAt(all) : x = all[i].at
    BY <2>1, <2>2, <2>3
  <2>6. ASSUME NEW i \in ValuesAt(all) PROVE all[i].at \in positions \cup {w[j].at : j \in ValuesAt(w)}
    BY <2>1, <2>4
  <2>7. QED
    BY <2>5, <2>6
<1>11. Cardinality({i \in DOMAIN all : all[i].rep = 0}) = n + 1
  <2> DEFINE I == {i \in 1 .. l : entries[i].rep = 0}
             J == {j \in 1 .. h : w[j].rep = 0}
             K == {i \in 1 .. l + h : all[i].rep = 0}
  <2>1. /\ \A i \in 1 .. l : i \in K <=> i \in I
        /\ \A j \in 1 .. h : l + j \in K <=> j \in J
    BY <1>7
  <2>2. I \in SUBSET (1 .. l) /\ J \in SUBSET (1 .. h) /\ K \in SUBSET (1 .. l + h)
    OBVIOUS
  <2>3. J = {1}
    <3>1. 1 \in 1 .. h
      BY <1>2, <1>7 DEF RowFits, h
    <3>2. \A j \in 1 .. h : j > 1 => w[j].rep > 0 /\ w[j].rep \in Nat
      BY <1>2 DEF RowFits, h, EntryFits, EntryT
    <3>3. \A j \in 1 .. h : j = 1 \/ j > 1
      BY <1>7
    <3>4. w[1].rep = 0
      BY <1>2 DEF RowFits
    <3>5. QED
      BY <3>1, <3>2, <3>3, <3>4
  <2>4. Cardinality(J) = 1
    BY <2>3, FS_Singleton
  <2>5. Cardinality(I) = n
    BY <1>7 DEF Shredded
  <2> HIDE DEF I, J, K
  <2>6. Cardinality(K) = Cardinality(I) + Cardinality(J)
    <3>1. Joined(l, h, I, J, K)
      BY <2>1, <2>2 DEF Joined
    <3>2. QED
      BY <1>7, <3>1, CountConcat
  <2>7. QED
    BY <1>7, <2>4, <2>5, <2>6 DEF K
<1>12. (n + 1) - 1 = n
  BY <1>1
<1>13. QED
  BY <1>0, <1>4, <1>6, <1>9, <1>10, <1>11, <1>12 DEF Shredded

LEMMA SameArgs ==
    ASSUME UNCHANGED arguments
    PROVE  /\ ArgsInv' = ArgsInv /\ LeafOK' = LeafOK /\ OffsetsGrow' = OffsetsGrow
           /\ Leaf' = Leaf /\ HasList' = HasList /\ MaxRep' = MaxRep /\ MaxDef' = MaxDef
           /\ \A e : Row(e)' = Row(e)
           /\ \A n, entries, count, positions :
                Shredded(n, entries, count, positions)' = Shredded(n, entries, count, positions)
<1>1. shape' = shape /\ batchOffset' = batchOffset /\ arrays' = arrays /\ lacking' = lacking
  BY DEF arguments
<1>2. Leaf' = Leaf /\ HasList' = HasList /\ steps' = steps
  BY <1>1 DEF Leaf, HasList, steps
<1>3. MaxRep' = MaxRep /\ MaxDef' = MaxDef /\ OffsetsGrow' = OffsetsGrow
  BY <1>1, <1>2 DEF MaxRep, MaxDef, OffsetsGrow
<1>4. ArgsInv' = ArgsInv
  BY <1>1, <1>2 DEF ArgsInv, ArrayFits, Size, Whole
<1>5. LeafOK' = LeafOK
  BY <1>1, <1>2 DEF LeafOK, ValidateChild
<1>6. \A k : RepLevel(k)' = RepLevel(k)
  BY <1>1, <1>2 DEF RepLevel
<1>7. \A k, c, below : Walk(k, c, below)' = Walk(k, c, below)
  <2>1. \A k, s, t : OutOfBounds(k, s, t)' = OutOfBounds(k, s, t)
    BY <1>1 DEF OutOfBounds
  <2>2. ASSUME NEW k, NEW c, NEW below PROVE Items(k, c, below)' = Items(k, c, below)
    <3>1. RepLevel(k)' = RepLevel(k)
      BY <1>6
    <3>2. QED
      BY <1>1, <1>2, <2>1, <3>1 DEF Items
  <2>3. ASSUME NEW k, NEW c, NEW below PROVE Walk(k, c, below)' = Walk(k, c, below)
    <3>1. \A d : Items(k, d, below)' = Items(k, d, below)
      BY <2>2
    <3>2. IsNull(k, c.e)' = IsNull(k, c.e)
      BY <1>1, <1>2 DEF IsNull
    <3>3. QED
      BY <1>1, <1>2, <3>1, <3>2 DEF Walk
  <2>4. QED
    BY <2>3
<1>8. Walks' = Walks
  BY <1>2, <1>7, Zenon DEF Walks
<1>9. \A e : FlatEntry(e)' = FlatEntry(e)
  BY <1>1, <1>2 DEF FlatEntry
<1>10. \A e : Row(e)' = Row(e)
  BY <1>2, <1>8, <1>9 DEF Row
<1>11. \A n : RowsUpTo(n)' = RowsUpTo(n)
  BY <1>10 DEF RowsUpTo
<1>12. \A n, entries, count, positions :
         Shredded(n, entries, count, positions)' = Shredded(n, entries, count, positions)
  BY <1>10, <1>11 DEF Shredded
<1>13. QED
  BY <1>2, <1>3, <1>4, <1>5, <1>10, <1>12

LEMMA ShreddedThen ==
    ASSUME UNCHANGED arguments, Shredded(row', levels', presentCount', present')
    PROVE  Shredded(row, levels, presentCount, present)'
<1>1. \A e : Row(e)' = Row(e)
  BY SameArgs
<1>2. RowsUpTo(row)' = RowsUpTo(row')
  BY <1>1 DEF RowsUpTo
<1>3. QED
  BY <1>1, <1>2 DEF Shredded

LEMMA ShreddedSame ==
    ASSUME UNCHANGED arguments, Shredded(row, levels, presentCount, present),
           row' = row, levels' = levels, presentCount' = presentCount, present' = present
    PROVE  Shredded(row, levels, presentCount, present)'
<1>1. Shredded(row', levels', presentCount', present')
  OBVIOUS
<1>2. QED
  BY <1>1, ShreddedThen

LEMMA InitInv == Init => IInv
<1> SUFFICES ASSUME Init PROVE IInv
  OBVIOUS
<1>1. ArgsInv
  BY InitArgs
<1>2. shape.rows \in Nat
  BY <1>1, ShapeFacts DEF ArgsInv
<1>3. /\ phase = "check" /\ row = 0 /\ levels = <<>> /\ presentCount = 0 /\ present = {}
      /\ page = EmptyPage
  BY DEF Init, EmptyPage
<1>4. Shredded(row, levels, presentCount, present)
  BY <1>3, ShreddedNone
<1>5. QED
  BY <1>1, <1>2, <1>3, <1>4 DEF IInv

LEMMA StepInv == IInv /\ [Next]_vars => IInv'
<1> SUFFICES ASSUME IInv, [Next]_vars PROVE IInv'
  OBVIOUS
<1>1. UNCHANGED arguments
  BY DEF Next, CheckLeaf, NextRow, RefuseRow, WritePage, vars, arguments
<1>2. shape.rows \in Nat /\ row \in Nat /\ shape' = shape
  <2>1. shape.rows \in Nat
    BY ShapeFacts DEF IInv, ArgsInv
  <2>2. QED
    BY <1>1, <2>1 DEF IInv, arguments
<1>3. /\ ArgsInv' /\ (LeafOK' <=> LeafOK) /\ \A e : Row(e)' = Row(e)
      /\ \A n, entries, count, positions :
           Shredded(n, entries, count, positions)' = Shredded(n, entries, count, positions)
      /\ arrays' = arrays /\ HasList' = HasList
  BY <1>1, SameArgs DEF IInv, arguments
<1>4. CASE CheckLeaf
  <2>1. /\ phase = "check" /\ row = 0 /\ row' = row /\ levels' = levels /\ presentCount' = presentCount
        /\ present' = present /\ page' = page
        /\ phase' = IF LeafOK THEN "rows" ELSE "refused"
    BY <1>4 DEF IInv, CheckLeaf, LeafOK
  <2>2. Shredded(row, levels, presentCount, present)'
    <3>1. Shredded(row, levels, presentCount, present)
      BY DEF IInv
    <3>2. QED
      BY <2>1, <3>1, ShreddedSame, <1>1
  <2>3. QED
    BY <1>2, <1>3, <2>1, <2>2 DEF IInv
<1>5. CASE NextRow
  <2> DEFINE w == Row(row).entries
  <2>1. /\ phase = "rows" /\ phase' = phase /\ row < shape.rows /\ row' = row + 1 /\ page' = page
        /\ Row(row).ok /\ levels' = levels \o w
        /\ present' = present \cup {w[i].at : i \in ValuesAt(w)}
        /\ presentCount' = presentCount + Cardinality(ValuesAt(w))
    BY <1>5 DEF NextRow
  <2> HIDE DEF w
  <2>2. LeafOK /\ row \in 0 .. shape.rows - 1 /\ Shredded(row, levels, presentCount, present) /\ ArgsInv
    BY <1>2, <2>1 DEF IInv
  <2>3. Shredded(row', levels', presentCount', present')
    <3>1. OneRow(row, levels, presentCount, present, levels', presentCount', present')
      BY <2>1 DEF OneRow, w
    <3>2. Shredded(row + 1, levels', presentCount', present')
      BY <2>2, <3>1, ShreddedNext
    <3>3. QED
      BY <2>1, <3>2
  <2>4. Shredded(row, levels, presentCount, present)'
    BY <1>1, <2>3, ShreddedThen
  <2>5. QED
    BY <1>2, <1>3, <2>1, <2>2, <2>4 DEF IInv
<1>6. CASE RefuseRow
  <2>1. /\ phase = "rows" /\ phase' = "refused" /\ row < shape.rows /\ ~Row(row).ok
        /\ row' = row /\ levels' = levels /\ presentCount' = presentCount /\ present' = present /\ page' = page
    BY <1>6 DEF RefuseRow
  <2>2. Shredded(row, levels, presentCount, present)' /\ LeafOK
    <3>1. Shredded(row, levels, presentCount, present) /\ LeafOK
      BY <2>1 DEF IInv
    <3>2. QED
      BY <1>1, <2>1, <3>1, ShreddedSame
  <2>3. (~Row(row).ok)'
    BY <1>3, <2>1
  <2>4. QED
    BY <1>2, <1>3, <2>1, <2>2, <2>3 DEF IInv
<1>7. CASE WritePage
  <2>1. /\ phase = "rows" /\ phase' = "written" /\ row = shape.rows /\ page' = FullPage
        /\ row' = row /\ levels' = levels /\ presentCount' = presentCount /\ present' = present
    BY <1>7 DEF WritePage, FullPage
  <2>2. Shredded(row, levels, presentCount, present)' /\ LeafOK
    <3>1. Shredded(row, levels, presentCount, present) /\ LeafOK
      BY <2>1 DEF IInv
    <3>2. QED
      BY <1>1, <2>1, <3>1, ShreddedSame
  <2>3. page' = FullPage'
    <3>1. Leaf' = Leaf
      BY <1>1, SameArgs
    <3>2. PageValues' = PageValues
      BY <1>3, <2>1, <3>1 DEF PageValues
    <3>3. QED
      BY <2>1, <3>2 DEF FullPage, NullCount
  <2>4. QED
    BY <1>2, <1>3, <2>1, <2>2, <2>3 DEF IInv
<1>8. CASE UNCHANGED vars
  <2>1. /\ phase' = phase /\ page' = page
        /\ row' = row /\ levels' = levels /\ presentCount' = presentCount /\ present' = present
    BY <1>8 DEF vars
  <2>2. Shredded(row, levels, presentCount, present)'
    <3>1. Shredded(row, levels, presentCount, present)
      BY DEF IInv
    <3>2. QED
      BY <1>1, <2>1, <3>1, ShreddedSame
  <2>3. FullPage' = FullPage
    <3>1. Leaf' = Leaf
      BY <1>1, SameArgs
    <3>2. PageValues' = PageValues
      BY <1>3, <2>1, <3>1 DEF PageValues
    <3>3. QED
      BY <2>1, <3>2 DEF FullPage, NullCount
  <2>4. (~Row(row).ok)' <=> ~Row(row).ok
    BY <1>3, <2>1
  <2>5. QED
    BY <1>2, <1>3, <2>1, <2>2, <2>3, <2>4 DEF IInv, EmptyPage
<1>9. QED
  BY <1>4, <1>5, <1>6, <1>7, <1>8 DEF Next

THEOREM Inductive == Spec => []IInv
BY InitInv, StepInv, PTL DEF Spec

------------------------------------------------------------------------------
(* The theorems. *)

LEMMA CountUpTo ==
    ASSUME NEW n \in Nat
    PROVE  IsFiniteSet(1 .. n) /\ Cardinality(1 .. n) = n
<1>1. 1 \in Int /\ n \in Int
  OBVIOUS
<1>2. IsFiniteSet(1 .. n) /\ Cardinality(1 .. n) = IF 1 > n THEN 0 ELSE n - 1 + 1
  BY <1>1, FS_Interval
<1>3. QED
  BY <1>2

\* What the invariant says of the levels.
LEMMA LevelsTyped ==
    ASSUME IInv
    PROVE  /\ levels \in Seq(EntryT) /\ DOMAIN levels = 1 .. Len(levels) /\ Len(levels) \in Nat
           /\ \A i \in DOMAIN levels : EntryFits(levels[i])
           /\ arrays[Leaf].length \in Nat
           /\ ValuesAt(levels) \subseteq 1 .. Len(levels)
           /\ presentCount = Cardinality(ValuesAt(levels)) /\ presentCount \in 0 .. Len(levels)
           /\ IsFiniteSet(ValuesAt(levels))
<1>1. ArgsInv /\ Shredded(row, levels, presentCount, present) /\ row \in 0 .. shape.rows
      /\ (row > 0 => LeafOK)
  BY DEF IInv
<1>2. levels \in Seq(EntryT) /\ \A i \in 1 .. Len(levels) : EntryFits(levels[i])
  <2>1. levels = FlattenSeq(RowsUpTo(row)) /\ \A e \in 0 .. row - 1 : Row(e).ok
    BY <1>1 DEF Shredded
  <2>2. FlattenSeq(RowsUpTo(row)) \in Seq(EntryT)
        /\ \A i \in 1 .. Len(FlattenSeq(RowsUpTo(row))) : EntryFits(FlattenSeq(RowsUpTo(row))[i])
    BY <1>1, <2>1, RowsTyped
  <2>3. QED
    BY <2>1, <2>2
<1>3. DOMAIN levels = 1 .. Len(levels) /\ Len(levels) \in Nat
  BY <1>2
<1>4. ValuesAt(levels) \subseteq 1 .. Len(levels)
  BY <1>3 DEF ValuesAt
<1>5. IsFiniteSet(ValuesAt(levels)) /\ Cardinality(ValuesAt(levels)) \in 0 .. Len(levels)
  <2> DEFINE n == Len(levels)
             V == ValuesAt(levels)
  <2>1. n \in Nat /\ V \in SUBSET (1 .. n)
    BY <1>3, <1>4
  <2> HIDE DEF n, V
  <2>2. IsFiniteSet(1 .. n) /\ Cardinality(1 .. n) = n
    BY <2>1, CountUpTo
  <2>3. IsFiniteSet(V) /\ Cardinality(V) <= n
    BY <2>1, <2>2, FS_Subset
  <2>4. Cardinality(V) \in Nat
    BY <2>3, FS_CardinalityType
  <2>5. Cardinality(V) \in 0 .. n
    BY <2>1, <2>3, <2>4
  <2>6. QED
    BY <2>3, <2>5 DEF n, V
<1>6. presentCount = Cardinality(ValuesAt(levels))
  BY <1>1 DEF Shredded
<1>7. arrays[Leaf].length \in Nat
  BY <1>1, LeafLength
<1>8. QED
  BY <1>2, <1>3, <1>4, <1>5, <1>6, <1>7

LEMMA Typed == IInv => TypeOK
<1> SUFFICES ASSUME IInv PROVE TypeOK
  OBVIOUS
<1>1. /\ phase \in {"check", "rows", "written", "refused"} /\ row \in 0 .. shape.rows
      /\ page = IF phase = "written" THEN FullPage ELSE EmptyPage
  BY DEF IInv
<1>2. \A i \in DOMAIN levels : levels[i].at \in -1 .. arrays[Leaf].length - 1
  BY LevelsTyped DEF EntryFits
<1>3. present \subseteq 0 .. arrays[Leaf].length - 1
  <2>1. present = {levels[i].at : i \in ValuesAt(levels)}
    BY DEF IInv, Shredded
  <2>2. \A i \in ValuesAt(levels) : levels[i].at # -1 /\ levels[i].at \in -1 .. arrays[Leaf].length - 1
    BY <1>2 DEF ValuesAt, IsValue
  <2>3. arrays[Leaf].length \in Nat
    BY LevelsTyped
  <2>4. QED
    BY <2>1, <2>2, <2>3
<1>4. presentCount \in 0 .. Len(levels) /\ Len(levels) \in Nat
  BY LevelsTyped
<1>5. page.nulls \in 0 .. Len(levels)
  BY <1>1, <1>4 DEF FullPage, EmptyPage, NullCount
<1>6. QED
  BY <1>1, <1>2, <1>3, <1>4, <1>5 DEF TypeOK

LEMMA WidthHolds ==
    ASSUME NEW n \in Nat
    PROVE  Powers(n)[BitWidth(n)] \in Nat /\ Powers(n)[BitWidth(n)] >= n
<1> DEFINE P == Powers(n)
           W == {w \in 0 .. n : P[w] >= n}
           Fit(w) == P[w] >= n /\ \A v \in 0 .. w - 1 : P[v] < n
<1>1. \A w \in 0 .. n : P[w] \in Nat /\ P[w] > w
  BY PowersDef
<1> HIDE DEF P
<1>2. n \in W
  BY <1>1
<1>3. PICK w \in W : \A v \in W : w <= v
  <2>1. W \subseteq Nat /\ W # {}
    BY <1>2
  <2> HIDE DEF W
  <2>2. QED
    BY <2>1, Least
<1>4. w \in 0 .. n /\ Fit(w)
  <2>1. ASSUME NEW v \in 0 .. w - 1 PROVE P[v] < n
    <3>1. v \in 0 .. n /\ v \notin W
      BY <1>3
    <3>2. QED
      BY <1>1, <3>1
  <2>2. QED
    BY <1>3, <2>1
<1> DEFINE b == CHOOSE x \in 0 .. n : Fit(x)
<1>5. b \in 0 .. n /\ Fit(b)
  BY <1>4, Zenon
<1>6. b = BitWidth(n)
  BY Zenon DEF BitWidth, P
<1> HIDE DEF b
<1>7. P[b] \in Nat /\ P[b] >= n
  BY <1>1, <1>5
<1>8. QED
  BY <1>6, <1>7 DEF P

LEMMA Fits == IInv => LevelsFit
<1> SUFFICES ASSUME IInv PROVE LevelsFit
  OBVIOUS
<1>1. MaxRep \in Nat /\ MaxDef \in Nat
  BY LevelFacts DEF IInv, ArgsInv
<1> DEFINE r == Powers(MaxRep + 1)[BitWidth(MaxRep + 1)]
           d == Powers(MaxDef + 1)[BitWidth(MaxDef + 1)]
<1>2. r \in Nat /\ r >= MaxRep + 1 /\ d \in Nat /\ d >= MaxDef + 1
  <2>1. MaxRep + 1 \in Nat /\ MaxDef + 1 \in Nat
    BY <1>1
  <2>2. QED
    BY <2>1, WidthHolds
<1> HIDE DEF r, d
<1>3. ASSUME NEW i \in DOMAIN levels
      PROVE  levels[i].rep < r /\ levels[i].def < d /\ (IsValue(levels[i]) <=> levels[i].def = MaxDef)
  <2>1. EntryFits(levels[i])
    BY LevelsTyped
  <2>2. levels[i].rep \in Nat /\ levels[i].def \in Nat
    BY <2>1 DEF EntryFits, EntryT
  <2>3. QED
    BY <1>1, <1>2, <2>1, <2>2 DEF EntryFits
<1>4. Cardinality({i \in DOMAIN levels : levels[i].rep = 0}) = row
  BY DEF IInv, Shredded
<1>5. QED
  BY <1>3, <1>4 DEF LevelsFit, r, d

LEMMA InOrderInv == IInv => ValuesInOrder
<1> SUFFICES ASSUME IInv, OffsetsGrow, NEW i \in DOMAIN levels, NEW j \in DOMAIN levels, i < j,
                    IsValue(levels[i]), IsValue(levels[j])
             PROVE  levels[i].at < levels[j].at
  BY DEF ValuesInOrder
<1> DEFINE ss == RowsUpTo(row)
<1>1. ArgsInv /\ row \in 0 .. shape.rows /\ shape.rows \in Nat /\ (row > 0 => LeafOK)
      /\ levels = FlattenSeq(ss) /\ \A e \in 0 .. row - 1 : Row(e).ok
  BY ShapeFacts DEF IInv, ArgsInv, Shredded
<1>2. ss \in Seq(Seq(EntryT)) /\ Len(ss) = row /\ \A m \in 1 .. row : ss[m] = Row(m - 1).entries
  BY <1>1, RowsTyped
<1>3. i \in 1 .. Len(FlattenSeq(ss)) /\ j \in 1 .. Len(FlattenSeq(ss))
  BY <1>1, LevelsTyped
<1> HIDE DEF ss
<1>4. InOrder(ss, levels[i], levels[j])
  BY <1>1, <1>2, <1>3, FlattenOrder
<1>5. PICK m \in 1 .. row, n \in 1 .. row : \E b \in 1 .. Len(ss[m]), h \in 1 .. Len(ss[n]) :
        levels[i] = ss[m][b] /\ levels[j] = ss[n][h] /\ (m < n \/ (m = n /\ b < h))
  BY <1>2, <1>4 DEF InOrder
<1>6. PICK b \in 1 .. Len(ss[m]), h \in 1 .. Len(ss[n]) :
        levels[i] = ss[m][b] /\ levels[j] = ss[n][h] /\ (m < n \/ (m = n /\ b < h))
  BY <1>5
<1>7. /\ m - 1 \in 0 .. shape.rows - 1 /\ n - 1 \in 0 .. shape.rows - 1 /\ LeafOK
      /\ Row(m - 1).ok /\ Row(n - 1).ok
      /\ m < n => m - 1 < n - 1
  <2>1. row \in Nat /\ row <= shape.rows /\ shape.rows \in Nat
    BY <1>1
  <2>2. m \in 1 .. row /\ n \in 1 .. row
    BY <1>5
  <2>3. m - 1 \in 0 .. row - 1 /\ n - 1 \in 0 .. row - 1 /\ row > 0
    BY <2>1, <2>2
  <2>4. m - 1 \in 0 .. shape.rows - 1 /\ n - 1 \in 0 .. shape.rows - 1
    BY <2>1, <2>3
  <2>5. Row(m - 1).ok /\ Row(n - 1).ok /\ LeafOK
    BY <1>1, <2>3
  <2>6. QED
    BY <2>2, <2>4, <2>5
<1>8. Rises(ss[n]) /\ (m < n => Precedes(ss[m], ss[n]))
  <2>1. Rises(Row(n - 1).entries) /\ (m - 1 < n - 1 => Precedes(Row(m - 1).entries, Row(n - 1).entries))
    BY <1>1, <1>7, RowsRise
  <2>2. QED
    BY <1>2, <1>5, <1>7, <2>1
<1>9. CASE m < n
  BY <1>6, <1>8, <1>9 DEF Precedes
<1>10. CASE m = n /\ b < h
  BY <1>6, <1>8, <1>10 DEF Rises
<1>11. QED
  BY <1>6, <1>9, <1>10

THEOREM LevelsAreOK == Spec => []LevelsOK
<1>1. IInv => LevelsOK
  BY Typed, Fits, InOrderInv DEF LevelsOK
<1>2. QED
  BY <1>1, Inductive, PTL

THEOREM NullsAreCounted == Spec => []NullCountIsExact
<1>1. IInv => NullCountIsExact
  <2> SUFFICES ASSUME IInv, phase = "written"
               PROVE  page.nulls = Cardinality({i \in DOMAIN page.levels : page.levels[i].def < MaxDef})
    BY DEF NullCountIsExact
  <2> DEFINE n == Len(levels)
             V == ValuesAt(levels)
             N == {i \in DOMAIN page.levels : page.levels[i].def < MaxDef}
  <2>1. page = FullPage
    BY DEF IInv
  <2>2. /\ n \in Nat /\ DOMAIN levels = 1 .. n /\ V \subseteq 1 .. n /\ IsFiniteSet(V)
        /\ presentCount = Cardinality(V) /\ \A i \in 1 .. n : EntryFits(levels[i])
    BY LevelsTyped
  <2>3. page.nulls = n - Cardinality(V)
    BY <2>1, <2>2 DEF FullPage, NullCount
  <2>4. N = (1 .. n) \ V
    <3>1. page.levels = [i \in DOMAIN levels |-> [rep |-> levels[i].rep, def |-> levels[i].def]]
      BY <2>1 DEF FullPage
    <3>2. MaxDef \in Nat
      BY LevelFacts DEF IInv, ArgsInv
    <3>3. \A i \in 1 .. n : levels[i].def < MaxDef <=> ~IsValue(levels[i])
      <4> SUFFICES ASSUME NEW i \in 1 .. n PROVE levels[i].def < MaxDef <=> ~IsValue(levels[i])
        OBVIOUS
      <4>1. EntryFits(levels[i])
        BY <2>2
      <4>2. levels[i].def \in Nat /\ levels[i].def <= MaxDef /\ (IsValue(levels[i]) <=> levels[i].def = MaxDef)
        BY <4>1 DEF EntryFits, EntryT
      <4>3. QED
        BY <3>2, <4>2
    <3>4. DOMAIN page.levels = 1 .. n /\ \A i \in 1 .. n : page.levels[i].def = levels[i].def
      BY <2>2, <3>1
    <3>5. V = {i \in 1 .. n : IsValue(levels[i])}
      BY <2>2 DEF ValuesAt
    <3> HIDE DEF V, n
    <3>6. QED
      BY <3>3, <3>4, <3>5
  <2> HIDE DEF n, V, N
  <2>5. IsFiniteSet(1 .. n) /\ Cardinality(1 .. n) = n
    BY <2>2, CountUpTo
  <2>6. Cardinality((1 .. n) \ V) = Cardinality(1 .. n) - Cardinality((1 .. n) \cap V)
    BY <2>5, FS_Difference
  <2>7. (1 .. n) \cap V = V
    BY <2>2
  <2>8. QED
    BY <2>3, <2>4, <2>5, <2>6, <2>7 DEF N
<1>2. QED
  BY <1>1, Inductive, PTL

------------------------------------------------------------------------------
(* Well-formed arrays. *)

\* A required node of well-formed arrays has no null that the walk or the check would see.
LEMMA NoNullSeen ==
    ASSUME ArgsInv, WellFormed, NEW k \in 1 .. Leaf, ~steps[k].optional
    PROVE  arrays[k].nulls <= 0 /\ arrays[k].nulls \in Int
<1>1. arrays[k].offset = 0 /\ arrays[k].valid = 0 .. arrays[k].length - 1
  BY DEF WellFormed
<1>2. ArrayFits(k) /\ Size(k) \in Nat
  BY ShapeFacts DEF ArgsInv
<1>3. arrays[k].length = Size(k)
  BY <1>1, <1>2 DEF ArrayFits
<1>4. QED
  BY <1>1, <1>2, <1>3 DEF ArrayFits, Whole

\* The elements of a list lie in its child.
LEMMA ListsInside ==
    ASSUME ArgsInv, WellFormed, NEW k \in 1 .. Leaf, steps[k].kind \in Lists,
           NEW e \in 0 .. arrays[k].length - 1
    PROVE  /\ ~BadList(k, e) /\ k + 1 \in 1 .. Leaf
           /\ Start(k, e) \in Int /\ End(k, e) \in Int /\ 0 <= Start(k, e)
           /\ End(k, e) <= arrays[k + 1].length /\ arrays[k + 1].length \in Int
<1> DEFINE o == arrays[k].offs
           n == arrays[k].length
<1>1. shape \in Shapes /\ ArrayFits(k) /\ k + 1 \in 1 .. Leaf
  BY OffsetsTyped DEF ArgsInv
<1>2. ArrayFits(k + 1) /\ Size(k) \in Nat /\ Size(k + 1) \in Nat
  BY <1>1, ShapeFacts DEF ArgsInv
<1>3. /\ arrays[k].offset = 0 /\ arrays[k].entries.offset = 0 /\ lacking = Nothing
      /\ \A i \in 0 .. n - 1 : o[i] <= o[i + 1]
      /\ o[0] >= 0 /\ o[n] <= arrays[k + 1].length /\ arrays[k + 1].offset = 0
  BY <1>1 DEF WellFormed
<1>4. n = Size(k) /\ n \in Nat /\ o \in [0 .. n -> Int]
      /\ arrays[k + 1].length = Size(k + 1) /\ arrays[k + 1].length \in Int
      /\ (steps[k].kind = "map" => arrays[k].entries.length = Size(k + 1))
  BY <1>1, <1>2, <1>3 DEF ArrayFits
<1> HIDE DEF o, n
<1>5. e \in 0 .. n /\ e + 1 \in 0 .. n /\ 0 \in 0 .. n /\ n \in 0 .. n
  BY <1>4 DEF n
<1> DEFINE S == {m \in 0 .. n : \A j \in 0 .. m : o[j] <= o[m]}
<1>6. \A m \in 0 .. n : m \in S
  <2>1. 0 \in S
    BY <1>4, <1>5
  <2>2. ASSUME NEW m \in 0 .. n - 1, m \in S PROVE m + 1 \in S
    <3>1. m \in 0 .. n /\ m + 1 \in 0 .. n
      BY <1>4
    <3>2. o[m] <= o[m + 1] /\ o[m] \in Int /\ o[m + 1] \in Int
      BY <1>3, <1>4, <3>1
    <3>3. ASSUME NEW j \in 0 .. m + 1 PROVE o[j] <= o[m + 1]
      <4>1. CASE j \in 0 .. m
        <5>1. o[j] <= o[m] /\ o[j] \in Int
          BY <1>4, <2>2, <3>1, <4>1
        <5>2. QED
          BY <3>2, <5>1
      <4>2. CASE j = m + 1
        BY <3>2, <4>2
      <4>3. QED
        BY <3>1, <4>1, <4>2
    <3>4. QED
      BY <3>1, <3>3
  <2> HIDE DEF S
  <2>3. QED
    BY <1>4, <2>1, <2>2, InductTo
<1>7. o[0] <= o[e] /\ o[e] <= o[e + 1] /\ o[e + 1] <= o[n]
      /\ o[0] \in Int /\ o[e] \in Int /\ o[e + 1] \in Int /\ o[n] \in Int
  <2>1. 0 \in 0 .. e /\ e \in 0 .. e + 1 /\ e + 1 \in 0 .. n
    BY <1>5
  <2>2. QED
    BY <1>4, <1>5, <1>6, <2>1
<1>8. Start(k, e) = o[e] /\ End(k, e) = o[e + 1]
  BY DEF Start, End, o
<1>9. ~OutOfBounds(k, Start(k, e), End(k, e))
  BY <1>3, <1>4, <1>7, <1>8 DEF OutOfBounds
<1>10. lacking.step # k
  BY <1>3 DEF Nothing
<1>11. steps[k].kind = "map" => ~(End(k, e) > arrays[k].entries.length)
  BY <1>3, <1>4, <1>7, <1>8
<1>12. ~BadList(k, e)
  BY <1>3, <1>9, <1>10, <1>11 DEF BadList
<1>13. QED
  BY <1>1, <1>3, <1>4, <1>7, <1>8, <1>12

\* No walk of an element of well-formed arrays fails.
LEMMA WellFormedWalks ==
    ASSUME ArgsInv, WellFormed
    PROVE  \A k \in 1 .. Leaf : \A c \in Call : c.e \in 0 .. arrays[k].length - 1 => Walks[k][c].ok
<1> DEFINE S == {k \in 1 .. Leaf + 1 : k <= Leaf =>
                   \A c \in Call : c.e \in 0 .. arrays[k].length - 1 => Walks[k][c].ok}
<1>1. Leaf \in Nat /\ shape \in Shapes
  BY ShapeFacts DEF ArgsInv
<1>2. Leaf + 1 \in S
  BY <1>1
<1>3. ASSUME NEW k \in 1 .. Leaf, k + 1 \in S PROVE k \in S
  <2> SUFFICES ASSUME NEW c \in Call, c.e \in 0 .. arrays[k].length - 1, ~Walks[k][c].ok PROVE FALSE
    BY <1>1
  <2> DEFINE in == Below(k, c)
             s == Start(k, c.e)
             t == End(k, c.e)
  <2>1. WalkFails(k, c)
    BY WalkCases
  <2>2. arrays[k].offset = 0 /\ arrays[k].length \in Nat /\ c.r \in Nat /\ c.d \in Nat /\ steps[k].optional \in BOOLEAN
    BY <1>1, ShapeFacts DEF WellFormed, ArgsInv, ArrayFits, Call
  <2>3. ~(arrays[k].offset # 0 \/ c.e < 0 \/ c.e >= arrays[k].length)
    BY <2>2
  <2>4. ~Refused(k, c.e)
    <3>1. ~steps[k].optional => arrays[k].nulls <= 0 /\ arrays[k].nulls \in Int
      BY NoNullSeen
    <3>2. QED
      BY <3>1 DEF Refused
  <2>5. in \in Call /\ in.e = c.e /\ in.r \in Nat /\ in.d \in Nat
    BY <2>2 DEF Below, Call
  <2>6. ASSUME steps[k].kind = "struct", ~Walks[k + 1][in].ok PROVE FALSE
    <3>1. k + 1 \in 1 .. Leaf /\ k + 1 <= Leaf
      BY <1>1, <2>6, ShapeFacts
    <3>2. arrays[k + 1].length >= arrays[k].length
      BY <2>6 DEF WellFormed
    <3>3. ArrayFits(k + 1) /\ arrays[k + 1].length \in Nat
      BY <3>1 DEF ArgsInv, ArrayFits
    <3>4. in.e \in 0 .. arrays[k + 1].length - 1
      BY <2>2, <2>5, <3>2, <3>3
    <3>5. QED
      BY <1>3, <2>5, <2>6, <3>1, <3>4
  <2>7. ASSUME steps[k].kind \in Lists, BadList(k, c.e) PROVE FALSE
    BY <2>7, ListsInside
  <2>8. ASSUME steps[k].kind \in Lists, s < t, NEW i \in 1 .. t - s, ~Walks[k + 1][ItemCall(k, in, i)].ok
        PROVE  FALSE
    <3> DEFINE it == ItemCall(k, in, i)
    <3>1. /\ k + 1 \in 1 .. Leaf /\ s \in Int /\ t \in Int /\ 0 <= s
          /\ t <= arrays[k + 1].length /\ arrays[k + 1].length \in Int
      BY <2>8, ListsInside
    <3>2. it.e = s + i - 1 /\ it.r = (IF i = 1 THEN in.r ELSE RepLevel(k)) /\ it.d = in.d + 1
          /\ it = [e |-> it.e, r |-> it.r, d |-> it.d]
      BY <2>5 DEF ItemCall, Start
    <3>3. RepLevel(k) \in Nat
      <4>1. k \in 0 .. Leaf /\ MaxRep \in Nat /\ RepLevel(k) \in 0 .. MaxRep
        BY <1>1, LevelFacts
      <4>2. QED
        BY <4>1
    <3> HIDE DEF it, s, t, in
    <3>4. it.e \in 0 .. arrays[k + 1].length - 1 /\ it.e \in Int
      BY <3>1, <3>2
    <3>5. it \in Call
      <4>1. it.r \in Nat /\ it.d \in Nat
        BY <2>5, <3>2, <3>3
      <4>2. QED
        BY <3>2, <3>4, <4>1 DEF Call
    <3>6. k + 1 <= Leaf
      BY <1>1, <3>1
    <3>7. QED
      BY <1>3, <2>8, <3>4, <3>5, <3>6 DEF it
  <2>9. QED
    BY <2>1, <2>3, <2>4, <2>6, <2>7, <2>8, Zenon DEF WalkFails
<1>4. \A k \in 1 .. Leaf + 1 : k \in S
  <2> HIDE DEF S
  <2>1. QED
    BY <1>1, <1>2, <1>3, InductDown
<1>5. \A k \in 1 .. Leaf : k \in 1 .. Leaf + 1 /\ k <= Leaf
  BY <1>1
<1>6. QED
  BY <1>4, <1>5

THEOREM WellFormedIsTaken == Spec => []WellFormedIsWritten
<1>1. IInv => WellFormedIsWritten
  <2> SUFFICES ASSUME IInv, phase = "refused", WellFormed PROVE FALSE
    BY DEF WellFormedIsWritten
  <2>1. ArgsInv /\ shape \in Shapes /\ Leaf \in 1 .. Leaf /\ shape.rows \in Nat /\ row \in 0 .. shape.rows
    BY ShapeFacts DEF IInv, ArgsInv
  <2>2. LeafOK
    <3>1. lacking.what # "child" /\ lacking # [step |-> Leaf, what |-> "buffer"]
      BY DEF WellFormed, Nothing
    <3>2. arrays[Leaf].offset = 0
      BY <2>1 DEF WellFormed
    <3>3. ~HasList => arrays[Leaf].length = shape.rows
      BY <2>1 DEF WellFormed
    <3>4. ~(arrays[Leaf].nulls > 0 /\ ~steps[Leaf].optional)
      <4>1. ~steps[Leaf].optional => arrays[Leaf].nulls <= 0 /\ arrays[Leaf].nulls \in Int
        BY <2>1, NoNullSeen
      <4>2. QED
        BY <4>1
    <3>5. QED
      BY <3>1, <3>2, <3>3, <3>4 DEF LeafOK, ValidateChild
  <2>3. row < shape.rows /\ ~Row(row).ok
    BY <2>2 DEF IInv
  <2>4. CASE HasList
    <3> DEFINE c == [e |-> row, r |-> 0, d |-> 0]
    <3>1. c \in Call /\ c.e = row
      BY <2>1 DEF Call
    <3>2. 1 \in 1 .. Leaf /\ arrays[1].length >= shape.rows /\ arrays[1].length \in Nat
      <4>1. 1 \in 1 .. Leaf
        BY <2>1
      <4>2. ArrayFits(1)
        BY <2>1, <4>1 DEF ArgsInv
      <4>3. QED
        BY <2>4, <4>1, <4>2 DEF WellFormed, ArrayFits
    <3>3. c.e \in 0 .. arrays[1].length - 1
      BY <2>1, <2>3, <3>1, <3>2
    <3>4. Walks[1][c].ok
      BY <2>1, <3>1, <3>2, <3>3, WellFormedWalks
    <3>5. QED
      BY <2>3, <2>4, <3>4 DEF Row
  <2>5. CASE ~HasList
    BY <2>3, <2>5 DEF Row, Emits
  <2>6. QED
    BY <2>4, <2>5
<1>2. QED
  BY <1>1, Inductive, PTL

------------------------------------------------------------------------------
(* Required nodes. *)

\* The elements of step k that are looked at below, of those of "above" that are no null.
Seen(k, above) == {e \in above : ~steps[k].optional \/ e \in arrays[k].valid}
ReachedBelow(k, above) ==
    IF steps[k].kind \in Lists
    THEN UNION {arrays[k].offs[e] .. arrays[k].offs[e + 1] - 1 : e \in Seen(k, above)}
    ELSE Seen(k, above)

LEMMA ReachesDef ==
    ASSUME Leaf \in Nat, Leaf >= 1
    PROVE  /\ Reached(1) = 0 .. row - 1
           /\ \A k \in 1 .. Leaf - 1 : Reached(k + 1) = ReachedBelow(k, Reached(k))
<1> DEFINE n == Leaf
           Body(k, f) == IF k = 1 THEN 0 .. row - 1 ELSE ReachedBelow(k - 1, f[k - 1])
           Upto(m, f) == f = [k \in 1 .. m |-> Body(k, f)]
           S == {m \in 0 .. n : \E f : Upto(m, f)}
<1>1. Reaches = CHOOSE f : Upto(n, f)
  BY Zenon DEF Reaches, ReachedBelow, Seen
<1>2. \A f : Body(1, f) = 0 .. row - 1
  OBVIOUS
<1>3. \A f, g : \A k \in 2 .. n : f[k - 1] = g[k - 1] => Body(k, f) = Body(k, g)
  OBVIOUS
<1>4. \A f : \A k \in 1 .. n - 1 : Body(k + 1, f) = ReachedBelow(k, f[k])
  <2>1. \A k \in 1 .. n - 1 : k + 1 # 1 /\ (k + 1) - 1 = k
    OBVIOUS
  <2>2. QED
    BY <2>1
<1>5. n \in Nat /\ n >= 1
  OBVIOUS
<1> HIDE DEF Body, n
<1>6. 0 \in S
  <2> DEFINE f == [k \in 1 .. 0 |-> {}]
  <2>1. Upto(0, f)
    OBVIOUS
  <2> HIDE DEF f, Upto
  <2>2. QED
    BY <1>5, <2>1
<1>7. ASSUME NEW m \in 0 .. n - 1, m \in S PROVE m + 1 \in S
  <2>1. PICK f : Upto(m, f)
    BY <1>7
  <2> DEFINE g == [k \in 1 .. m + 1 |-> Body(k, f)]
  <2>2. \A k \in 1 .. m : f[k] = Body(k, f)
    BY <2>1
  <2>3. ASSUME NEW k \in 1 .. m + 1 PROVE g[k] = Body(k, g)
    <3>1. g[k] = Body(k, f)
      OBVIOUS
    <3>2. CASE k = 1
      BY <1>2, <3>1, <3>2
    <3>3. CASE k # 1
      <4>1. k \in 2 .. n /\ k - 1 \in 1 .. m /\ k - 1 \in 1 .. m + 1
        BY <1>5, <3>3
      <4>2. g[k - 1] = Body(k - 1, f) /\ f[k - 1] = Body(k - 1, f)
        BY <2>2, <4>1
      <4> HIDE DEF g
      <4>3. QED
        BY <1>3, <3>1, <4>1, <4>2
    <3>4. QED
      BY <3>2, <3>3
  <2>4. g = [k \in 1 .. m + 1 |-> g[k]]
    OBVIOUS
  <2> HIDE DEF g
  <2>5. Upto(m + 1, g)
    BY <2>3, <2>4
  <2>6. m + 1 \in 0 .. n
    BY <1>5
  <2> HIDE DEF Upto
  <2>7. QED
    BY <2>5, <2>6
<1>8. \E f : Upto(n, f)
  <2>1. \A m \in 0 .. n : m \in S
    <3> HIDE DEF S
    <3>1. QED
      BY <1>5, <1>6, <1>7, InductTo
  <2>2. n \in S
    BY <1>5, <2>1
  <2> HIDE DEF Upto
  <2>3. QED
    BY <2>2
<1>9. Upto(n, Reaches)
  <2> HIDE DEF Upto
  <2>1. QED
    BY <1>1, <1>8
<1>10. \A k \in 1 .. n : Reached(k) = Body(k, Reaches)
  BY <1>9 DEF Reached
<1>11. Reached(1) = 0 .. row - 1
  BY <1>2, <1>5, <1>10
<1>12. ASSUME NEW k \in 1 .. n - 1 PROVE Reached(k + 1) = ReachedBelow(k, Reached(k))
  <2>1. k + 1 \in 1 .. n
    BY <1>5
  <2>2. QED
    BY <1>4, <1>10, <2>1 DEF Reached
<1>13. QED
  BY <1>11, <1>12 DEF n

\* Under a list: a walk has been to every element that is reached.
LEMMA ReachedIsWalked ==
    ASSUME ArgsInv, HasList, row \in Nat, \A e \in 0 .. row - 1 : Row(e).ok
    PROVE  \A k \in 1 .. Leaf : \A e \in Reached(k) : \E c : Walked(k, c) /\ c.e = e
<1> DEFINE S == {i \in 0 .. Leaf - 1 : \A e \in Reached(i + 1) : \E c : Walked(i + 1, c) /\ c.e = e}
<1>1. Leaf \in Nat /\ Leaf >= 1 /\ shape \in Shapes
  BY ShapeFacts DEF ArgsInv
<1>2. 0 \in S
  <2>1. \A e \in 0 .. row - 1 : \E c : Walked(1, c) /\ c.e = e
    <3> SUFFICES ASSUME NEW e \in 0 .. row - 1 PROVE \E c : Walked(1, c) /\ c.e = e
      OBVIOUS
    <3>1. e \in Int /\ Row(e).ok
      OBVIOUS
    <3>2. QED
      BY <3>1, RowIsWalk
  <2>2. Reached(1) = 0 .. row - 1 /\ 0 \in 0 .. Leaf - 1 /\ 0 + 1 = 1
    BY <1>1, ReachesDef
  <2>3. \A e \in Reached(0 + 1) : \E c : Walked(0 + 1, c) /\ c.e = e
    BY <2>1, <2>2
  <2>4. QED
    BY <2>2, <2>3
<1>3. ASSUME NEW i \in 0 .. Leaf - 2, i \in S PROVE i + 1 \in S
  <2> DEFINE k == i + 1
  <2>1. k \in 1 .. Leaf /\ k # Leaf /\ k \in 1 .. Leaf - 1 /\ i + 1 \in 0 .. Leaf - 1 /\ k + 1 \in 1 .. Leaf
    BY <1>1
  <2>2. \A e \in Reached(k) : \E c : Walked(k, c) /\ c.e = e
    BY <1>3
  <2> HIDE DEF k
  <2>3. Reached(k + 1) = ReachedBelow(k, Reached(k))
    BY <1>1, <2>1, ReachesDef
  <2>4. ASSUME NEW x \in Reached(k + 1) PROVE \E c : Walked(k + 1, c) /\ c.e = x
    <3>1. PICK e \in Seen(k, Reached(k)) :
            IF steps[k].kind \in Lists THEN x \in arrays[k].offs[e] .. arrays[k].offs[e + 1] - 1 ELSE x = e
      BY <2>3 DEF ReachedBelow
    <3>2. PICK c : Walked(k, c) /\ c.e = e
      BY <2>2, <3>1 DEF Seen
    <3>3. c \in Call /\ WellCalled(k, c) /\ Walks[k][c].ok
      BY <3>2 DEF Walked
    <3>4. WalkShape(k, c)
      BY <2>1, <3>3, WalkCases
    <3>5. ~NullEntry(k, e)
      <4>1. ~steps[k].optional \/ e \in arrays[k].valid
        BY <3>1 DEF Seen
      <4>2. QED
        BY <2>1, <4>1 DEF NullEntry, IsNull, Valid
    <3> DEFINE in == Below(k, c)
               s == Start(k, c.e)
               t == End(k, c.e)
    <3>6. steps[k].kind # "leaf" /\ steps[k].kind \in Kinds
      BY <1>1, <2>1, ShapeFacts
    <3>7. CASE steps[k].kind = "struct"
      <4>1. Walks[k + 1][in].ok
        BY <2>1, <3>2, <3>4, <3>5, <3>7 DEF WalkShape, Lists
      <4>2. in \in Call /\ WellCalled(k + 1, in)
        BY <2>1, <3>3, <3>7, CallsBelow
      <4>3. in.e = e
        BY <3>2, <3>3 DEF Below, Call
      <4>4. x = e
        BY <3>1, <3>7 DEF Lists
      <4>5. QED
        BY <4>1, <4>2, <4>3, <4>4 DEF Walked
    <3>8. CASE steps[k].kind \in Lists
      <4>1. c.e \in 0 .. arrays[k].length - 1
        BY <3>4 DEF WalkShape
      <4>2. s \in Int /\ t \in Int /\ s = arrays[k].offs[e] /\ t = arrays[k].offs[e + 1]
        BY <2>1, <3>2, <3>8, <4>1, OffsetsTyped DEF Start, End
      <4>3. x \in s .. t - 1
        BY <3>1, <3>8, <4>2
      <4>4. \A j \in 1 .. t - s : Walks[k + 1][ItemCall(k, in, j)].ok
        <5>1. s # t /\ steps[k].kind # "struct"
          BY <3>8, <4>2, <4>3 DEF Lists
        <5> HIDE DEF in, s, t
        <5>2. QED
          BY <2>1, <3>2, <3>4, <3>5, <5>1, Zenon DEF WalkShape, in, s, t
      <4>5. PICK j \in 1 .. t - s : j = x - s + 1
        BY <4>2, <4>3
      <4> DEFINE it == ItemCall(k, in, j)
      <4>6. it \in Call /\ WellCalled(k + 1, it)
        BY <2>1, <3>3, <3>8, <4>2, <4>5, CallsBelow
      <4>7. it.e = x
        <5>1. in.e = c.e
          BY <3>3 DEF Below, Call
        <5>2. it.e = s + j - 1
          BY <5>1 DEF ItemCall, Start
        <5> HIDE DEF it, s, t
        <5>3. QED
          BY <4>2, <4>3, <4>5, <5>2
      <4>8. QED
        BY <4>4, <4>5, <4>6, <4>7 DEF Walked
    <3>9. QED
      BY <3>6, <3>7, <3>8 DEF Kinds, Lists
  <2>5. QED
    BY <2>1, <2>4 DEF k
<1>4. \A i \in 0 .. Leaf - 1 : i \in S
  <2> DEFINE m == Leaf - 1
  <2>1. m \in Nat /\ m - 1 = Leaf - 2
    BY <1>1
  <2>2. \A i \in 0 .. m - 1 : i \in S => i + 1 \in S
    BY <1>3, <2>1
  <2> HIDE DEF S
  <2>3. QED
    BY <1>2, <2>1, <2>2, InductTo
<1>5. ASSUME NEW k \in 1 .. Leaf PROVE \A e \in Reached(k) : \E c : Walked(k, c) /\ c.e = e
  <2>1. k - 1 \in 0 .. Leaf - 1 /\ (k - 1) + 1 = k
    BY <1>1
  <2>2. k - 1 \in S
    BY <1>4, <2>1
  <2>3. QED
    BY <2>1, <2>2
<1>6. QED
  BY <1>5

\* Without a list: the elements reached are among the rows.
LEMMA ReachedIsRow ==
    ASSUME ArgsInv, ~HasList
    PROVE  \A k \in 1 .. Leaf : Reached(k) \subseteq 0 .. row - 1
<1> DEFINE S == {i \in 0 .. Leaf - 1 : Reached(i + 1) \subseteq 0 .. row - 1}
<1>1. Leaf \in Nat /\ Leaf >= 1
  BY ShapeFacts DEF ArgsInv
<1>2. 0 \in S
  <2>1. Reached(1) = 0 .. row - 1 /\ 0 \in 0 .. Leaf - 1 /\ 0 + 1 = 1
    BY <1>1, ReachesDef
  <2>2. QED
    BY <2>1
<1>3. ASSUME NEW i \in 0 .. Leaf - 2, i \in S PROVE i + 1 \in S
  <2>1. i + 1 \in 1 .. Leaf - 1 /\ i + 1 \in 0 .. Leaf - 1 /\ i + 1 \in 1 .. Leaf
    BY <1>1
  <2>2. Reached((i + 1) + 1) = ReachedBelow(i + 1, Reached(i + 1))
    BY <1>1, <2>1, ReachesDef
  <2>3. steps[i + 1].kind \notin Lists
    BY <2>1 DEF HasList
  <2>4. Reached((i + 1) + 1) \subseteq Reached(i + 1)
    BY <2>2, <2>3 DEF ReachedBelow, Seen
  <2>5. QED
    BY <1>3, <2>1, <2>4
<1>4. \A i \in 0 .. Leaf - 1 : i \in S
  <2> DEFINE m == Leaf - 1
  <2>1. m \in Nat /\ m - 1 = Leaf - 2
    BY <1>1
  <2>2. \A i \in 0 .. m - 1 : i \in S => i + 1 \in S
    BY <1>3, <2>1
  <2> HIDE DEF S
  <2>3. QED
    BY <1>2, <2>1, <2>2, InductTo
<1>5. ASSUME NEW k \in 1 .. Leaf PROVE Reached(k) \subseteq 0 .. row - 1
  <2>1. k - 1 \in 0 .. Leaf - 1 /\ (k - 1) + 1 = k
    BY <1>1
  <2>2. k - 1 \in S
    BY <1>4, <2>1
  <2>3. QED
    BY <2>1, <2>2
<1>6. QED
  BY <1>5

\* A written leaf has no null in a REQUIRED node where the writer looks for one, whatever
\* the nesting: null_count is at least 0, and the node is the leaf or its path has a list.
THEOREM RequiredIsPresent == Spec => []SeenNullsAreRejected
<1>1. IInv => SeenNullsAreRejected
  <2> SUFFICES ASSUME IInv, phase = "written", NEW k \in 1 .. Leaf, ~steps[k].optional,
                      LooksForNulls(k), NEW e \in Reached(k)
               PROVE  e \in arrays[k].valid
    BY DEF SeenNullsAreRejected
  <2>0. arrays[k].nulls >= 0 /\ (HasList \/ k = Leaf)
    BY DEF LooksForNulls
  <2>1. /\ ArgsInv /\ LeafOK /\ row = shape.rows /\ row \in Nat /\ shape \in Shapes
        /\ \A x \in 0 .. row - 1 : Row(x).ok
    BY ShapeFacts DEF IInv, ArgsInv, Shredded
  <2>2. ArrayFits(k) /\ Size(k) \in Nat /\ (steps[k].kind = "leaf" <=> k = Leaf) /\ steps[k].kind \in Kinds
    BY <2>1, ShapeFacts DEF ArgsInv
  <2>3. CASE HasList
    <3>1. PICK c : Walked(k, c) /\ c.e = e
      BY <2>1, <2>3, ReachedIsWalked
    <3>2. WalkShape(k, c)
      BY <2>1, <3>1, WalkCases DEF Walked
    <3>3. arrays[k].offset = 0 /\ e \in 0 .. arrays[k].length - 1 /\ ~Refused(k, e)
      BY <3>1, <3>2 DEF WalkShape
    <3>4. arrays[k].length = Size(k)
      BY <2>2, <3>3 DEF ArrayFits
    <3>5. arrays[k].nulls <= 0 \/ Valid(arrays[k], e)
      BY <2>2, <3>3 DEF Refused, ArrayFits
    <3>6. QED
      BY <2>0, <2>2, <3>3, <3>4, <3>5 DEF ArrayFits, Whole, Valid
  <2>4. CASE ~HasList
    <3>1. e \in 0 .. row - 1
      BY <2>1, <2>4, ReachedIsRow
    <3>2. arrays[k].nulls <= 0 /\ arrays[k].length = shape.rows /\ arrays[k].offset = 0
      BY <2>0, <2>1, <2>2, <2>4 DEF LeafOK, ValidateChild, ArrayFits
    <3>3. QED
      BY <2>0, <2>1, <2>2, <3>1, <3>2 DEF ArrayFits, Whole
  <2>5. QED
    BY <2>3, <2>4
<1>2. QED
  BY <1>1, Inductive, PTL

------------------------------------------------------------------------------
(* The page, read back: what a reader cuts out of it. *)

\* The values of a step are made of the values of the next.
LEMMA ValuesDef ==
    ASSUME Leaf \in Nat
    PROVE  \A k \in 1 .. Leaf : Values[k] = [e \in Int |-> ValueOf(k, e, Values[k + 1])]
<1> DEFINE n == Leaf
           Body(k, below) == [e \in Int |-> ValueOf(k, e, below)]
           Made(m, f) == f = [k \in m .. n + 1 |-> IF k > n THEN <<>> ELSE Body(k, f[k + 1])]
           S == {m \in 1 .. n + 1 : \E f : Made(m, f)}
<1>1. Values = CHOOSE f : Made(1, f)
  BY DEF Values
<1>2. \A k, below : Body(k, below) = [e \in Int |-> ValueOf(k, e, below)]
  OBVIOUS
<1>3. n \in Nat
  OBVIOUS
<1> HIDE DEF Body, n
<1>4. n + 1 \in S
  <2> DEFINE f == [k \in n + 1 .. n + 1 |-> <<>>]
  <2>1. Made(n + 1, f)
    BY <1>3
  <2> HIDE DEF f, Made
  <2>2. QED
    BY <1>3, <2>1
<1>5. ASSUME NEW m \in 1 .. n, m + 1 \in S PROVE m \in S
  <2>1. PICK f : Made(m + 1, f)
    BY <1>5
  <2> DEFINE g == [k \in m .. n + 1 |-> IF k = m THEN Body(m, f[m + 1]) ELSE f[k]]
  <2>2. \A k \in m + 1 .. n + 1 : f[k] = IF k > n THEN <<>> ELSE Body(k, f[k + 1])
    BY <2>1
  <2>3. \A k \in m .. n + 1 : g[k] = IF k > n THEN <<>> ELSE Body(k, g[k + 1])
    <3> SUFFICES ASSUME NEW k \in m .. n + 1
                 PROVE  g[k] = IF k > n THEN <<>> ELSE Body(k, g[k + 1])
      OBVIOUS
    <3>1. CASE k = m
      <4>1. m + 1 \in m .. n + 1 /\ m + 1 # m /\ ~(m > n) /\ m \in m .. n + 1
        BY <1>3
      <4>2. g[m + 1] = f[m + 1] /\ g[m] = Body(m, f[m + 1])
        BY <4>1
      <4>3. QED
        BY <3>1, <4>1, <4>2
    <3>2. CASE k # m /\ k <= n
      <4>1. k + 1 \in m .. n + 1 /\ k + 1 # m /\ k \in m + 1 .. n + 1 /\ ~(k > n)
        BY <1>3, <3>2
      <4>2. g[k + 1] = f[k + 1] /\ g[k] = f[k]
        BY <3>2, <4>1
      <4>3. f[k] = Body(k, f[k + 1])
        BY <2>2, <4>1
      <4>4. QED
        BY <4>1, <4>2, <4>3
    <3>3. CASE k > n
      <4>1. k # m /\ k \in m + 1 .. n + 1
        BY <1>3, <3>3
      <4>2. g[k] = f[k] /\ f[k] = <<>>
        BY <2>2, <3>3, <4>1
      <4>3. QED
        BY <3>3, <4>2
    <3>4. QED
      BY <1>3, <3>1, <3>2, <3>3
  <2>4. g = [k \in m .. n + 1 |-> g[k]]
    OBVIOUS
  <2> HIDE DEF g
  <2>5. Made(m, g)
    BY <2>3, <2>4
  <2>6. m \in 1 .. n + 1
    BY <1>3
  <2> HIDE DEF Made
  <2>7. QED
    BY <2>5, <2>6
<1>6. \E f : Made(1, f)
  <2>1. \A m \in 1 .. n + 1 : m \in S
    <3> HIDE DEF S
    <3>1. QED
      BY <1>3, <1>4, <1>5, InductDown
  <2>2. 1 \in S
    BY <1>3, <2>1
  <2> HIDE DEF Made
  <2>3. QED
    BY <2>2
<1>7. Made(1, Values)
  <2> HIDE DEF Made
  <2>1. QED
    BY <1>1, <1>6
<1>8. ASSUME NEW k \in 1 .. n PROVE Values[k] = Body(k, Values[k + 1])
  <2>1. k \in 1 .. n + 1 /\ ~(k > n)
    BY <1>3
  <2>2. Values[k] = IF k > n THEN <<>> ELSE Body(k, Values[k + 1])
    BY <1>7, <2>1
  <2>3. QED
    BY <2>1, <2>2
<1>9. QED
  BY <1>2, <1>8 DEF n

\* What a reader makes of a piece at a step is made of what it reads at the next.
LEMMA ReadsDef ==
    ASSUME Leaf \in Nat
    PROVE  \A k \in 1 .. Leaf : Reads[k] = [p \in Piece |-> ReadPiece(k, p, DefAbove(k), Reads[k + 1])]
<1> DEFINE n == Leaf
           Body(k, below) == [p \in Piece |-> ReadPiece(k, p, DefAbove(k), below)]
           Made(m, f) == f = [k \in m .. n + 1 |-> IF k > n THEN <<>> ELSE Body(k, f[k + 1])]
           S == {m \in 1 .. n + 1 : \E f : Made(m, f)}
<1>1. Reads = CHOOSE f : Made(1, f)
  BY DEF Reads
<1>2. \A k, below : Body(k, below) = [p \in Piece |-> ReadPiece(k, p, DefAbove(k), below)]
  OBVIOUS
<1>3. n \in Nat
  OBVIOUS
<1> HIDE DEF Body, n
<1>4. n + 1 \in S
  <2> DEFINE f == [k \in n + 1 .. n + 1 |-> <<>>]
  <2>1. Made(n + 1, f)
    BY <1>3
  <2> HIDE DEF f, Made
  <2>2. QED
    BY <1>3, <2>1
<1>5. ASSUME NEW m \in 1 .. n, m + 1 \in S PROVE m \in S
  <2>1. PICK f : Made(m + 1, f)
    BY <1>5
  <2> DEFINE g == [k \in m .. n + 1 |-> IF k = m THEN Body(m, f[m + 1]) ELSE f[k]]
  <2>2. \A k \in m + 1 .. n + 1 : f[k] = IF k > n THEN <<>> ELSE Body(k, f[k + 1])
    BY <2>1
  <2>3. \A k \in m .. n + 1 : g[k] = IF k > n THEN <<>> ELSE Body(k, g[k + 1])
    <3> SUFFICES ASSUME NEW k \in m .. n + 1
                 PROVE  g[k] = IF k > n THEN <<>> ELSE Body(k, g[k + 1])
      OBVIOUS
    <3>1. CASE k = m
      <4>1. m + 1 \in m .. n + 1 /\ m + 1 # m /\ ~(m > n) /\ m \in m .. n + 1
        BY <1>3
      <4>2. g[m + 1] = f[m + 1] /\ g[m] = Body(m, f[m + 1])
        BY <4>1
      <4>3. QED
        BY <3>1, <4>1, <4>2
    <3>2. CASE k # m /\ k <= n
      <4>1. k + 1 \in m .. n + 1 /\ k + 1 # m /\ k \in m + 1 .. n + 1 /\ ~(k > n)
        BY <1>3, <3>2
      <4>2. g[k + 1] = f[k + 1] /\ g[k] = f[k]
        BY <3>2, <4>1
      <4>3. f[k] = Body(k, f[k + 1])
        BY <2>2, <4>1
      <4>4. QED
        BY <4>1, <4>2, <4>3
    <3>3. CASE k > n
      <4>1. k # m /\ k \in m + 1 .. n + 1
        BY <1>3, <3>3
      <4>2. g[k] = f[k] /\ f[k] = <<>>
        BY <2>2, <3>3, <4>1
      <4>3. QED
        BY <3>3, <4>2
    <3>4. QED
      BY <1>3, <3>1, <3>2, <3>3
  <2>4. g = [k \in m .. n + 1 |-> g[k]]
    OBVIOUS
  <2> HIDE DEF g
  <2>5. Made(m, g)
    BY <2>3, <2>4
  <2>6. m \in 1 .. n + 1
    BY <1>3
  <2> HIDE DEF Made
  <2>7. QED
    BY <2>5, <2>6
<1>6. \E f : Made(1, f)
  <2>1. \A m \in 1 .. n + 1 : m \in S
    <3> HIDE DEF S
    <3>1. QED
      BY <1>3, <1>4, <1>5, InductDown
  <2>2. 1 \in S
    BY <1>3, <2>1
  <2> HIDE DEF Made
  <2>3. QED
    BY <2>2
<1>7. Made(1, Reads)
  <2> HIDE DEF Made
  <2>1. QED
    BY <1>1, <1>6
<1>8. ASSUME NEW k \in 1 .. n PROVE Reads[k] = Body(k, Reads[k + 1])
  <2>1. k \in 1 .. n + 1 /\ ~(k > n)
    BY <1>3
  <2>2. Reads[k] = IF k > n THEN <<>> ELSE Body(k, Reads[k + 1])
    BY <1>7, <2>1
  <2>3. QED
    BY <2>1, <2>2
<1>9. QED
  BY <1>2, <1>8 DEF n

\* The entries w stand in the page from position lo on.
Held(w, lo) ==
    /\ lo \in Nat /\ lo >= 1 /\ lo + Len(w) - 1 <= Len(levels)
    /\ \A b \in 1 .. Len(w) : levels[lo + b - 1] = w[b]
Span(w, lo) == [lo |-> lo, hi |-> lo + Len(w) - 1]

\* The levels in the page are those of the entries.
PageHolds == levels \in Seq(EntryT) /\ page = FullPage

LEMMA PageLevels ==
    ASSUME PageHolds, NEW w \in Seq(EntryT), NEW lo, Held(w, lo), NEW b \in 1 .. Len(w)
    PROVE  /\ lo + b - 1 \in 1 .. Len(levels) /\ levels[lo + b - 1] = w[b]
           /\ page.levels[lo + b - 1].rep = w[b].rep /\ page.levels[lo + b - 1].def = w[b].def
<1>1. lo + b - 1 \in 1 .. Len(levels) /\ levels[lo + b - 1] = w[b]
  BY DEF Held, PageHolds
<1>2. page.levels = [i \in DOMAIN levels |-> [rep |-> levels[i].rep, def |-> levels[i].def]]
  BY DEF PageHolds, FullPage
<1>3. DOMAIN levels = 1 .. Len(levels)
  BY DEF PageHolds
<1>4. page.levels[lo + b - 1] = [rep |-> w[b].rep, def |-> w[b].def]
  BY <1>1, <1>2, <1>3
<1>5. QED
  BY <1>1, <1>4

\* The entries of a part that repeats at level r, or is the first.
Part(w, r, i) ==
    /\ Len(w) >= 1 /\ (i > 1 => w[1].rep <= r)
    /\ \A b \in 1 .. Len(w) : b > 1 => w[b].rep > r

\* The pieces are the parts, one for one, each where the page holds it.
CutInto(ss, pieces) ==
    /\ DOMAIN pieces = 1 .. Len(ss)
    /\ \A i \in 1 .. Len(ss) : \E x \in Nat : pieces[i] = Span(ss[i], x) /\ Held(ss[i], x)

\* A reader that cuts at level r finds the parts again.
LEMMA PartsAreFound ==
    ASSUME PageHolds, NEW ss \in Seq(Seq(EntryT)), Len(ss) >= 1, NEW r \in Nat, NEW lo,
           Held(FlattenSeq(ss), lo), \A i \in 1 .. Len(ss) : Part(ss[i], r, i)
    PROVE  CutInto(ss, Pieces(lo, Span(FlattenSeq(ss), lo).hi, r))
<1> DEFINE w == FlattenSeq(ss)
           n == Len(ss)
           L == [i \in 1 .. n |-> Len(ss[i])]
           P == Sums(L)
           hi == lo + Len(w) - 1
           q == [i \in 1 .. n |-> lo + P[i - 1]]
           s == [i \in 1 .. hi |-> i]
           I == Cuts(lo, hi, r)
<1>1. /\ n \in Nat /\ n >= 1 /\ L \in Seq(Nat) /\ L \in Seq(Int) /\ Len(L) = n
      /\ \A i \in 1 .. n : L[i] = Len(ss[i]) /\ L[i] \in Nat /\ L[i] >= 1 /\ ss[i] \in Seq(EntryT)
  <2>1. \A i \in 1 .. n : ss[i] \in Seq(EntryT)
    OBVIOUS
  <2>2. \A i \in 1 .. n : Len(ss[i]) \in Nat
    BY <2>1
  <2>3. \A i \in 1 .. n : Len(ss[i]) >= 1
    BY DEF Part
  <2>4. L \in [1 .. n -> Nat] /\ L \in [1 .. n -> Int] /\ n \in Nat /\ n >= 1
    BY <2>2
  <2>5. \A i \in 1 .. n : L[i] = Len(ss[i])
    OBVIOUS
  <2> HIDE DEF L, n
  <2>6. L \in Seq(Nat) /\ L \in Seq(Int) /\ Len(L) = n
    BY <2>4
  <2>7. QED
    BY <2>1, <2>2, <2>3, <2>4, <2>5, <2>6
<1>2. w \in Seq(EntryT) /\ Len(w) \in Nat
  BY FlattenTyped
<1>3. /\ Len(w) = P[n] /\ \A i \in 1 .. n : \A b \in 1 .. L[i] : w[P[i - 1] + b] = ss[i][b]
  <2> HIDE DEF L
  <2>1. QED
    BY <1>1, FlattenAt
<1>4. \A p \in 1 .. Len(w) : \E i \in 1 .. n : \E b \in 1 .. L[i] : p = P[i - 1] + b /\ w[p] = ss[i][b]
  <2> HIDE DEF L
  <2>1. QED
    BY <1>1, FlattenLocate
<1>5. /\ P[0] = 0 /\ \A i \in 0 .. n : P[i] \in Nat
      /\ \A i \in 1 .. n : P[i] = P[i - 1] + L[i]
      /\ \A i, j \in 0 .. n : i <= j => P[i] <= P[j]
  <2> HIDE DEF L
  <2>1. P[0] = 0 /\ \A i \in 1 .. n : P[i] = P[i - 1] + L[i]
    BY <1>1, SumsDef
  <2>2. ASSUME NEW i \in 0 .. n, NEW j \in 0 .. n, i <= j PROVE P[i] \in Nat /\ P[i] <= P[j]
    <3>1. i \in 0 .. Len(L) /\ j \in i .. Len(L)
      BY <1>1, <2>2
    <3>2. QED
      BY <1>1, <3>1, SumsGrow
  <2>3. QED
    BY <2>1, <2>2
<1> HIDE DEF w, L, P, n
<1>6. lo \in Nat /\ lo >= 1 /\ hi \in Nat
  BY <1>2 DEF Held, w
<1>7. \A b \in 1 .. Len(w) : page.levels[lo + b - 1].rep = w[b].rep
  BY <1>2, PageLevels DEF w
<1>8. \A i \in 1 .. n : P[i - 1] \in Nat /\ P[i] \in Nat /\ P[i - 1] < P[i] /\ P[i] <= Len(w)
  <2> SUFFICES ASSUME NEW i \in 1 .. n
               PROVE  P[i - 1] \in Nat /\ P[i] \in Nat /\ P[i - 1] < P[i] /\ P[i] <= Len(w)
    OBVIOUS
  <2>1. i - 1 \in 0 .. n /\ i \in 0 .. n /\ n \in 0 .. n /\ i <= n
    BY <1>1
  <2>2. P[i - 1] \in Nat /\ P[i] \in Nat /\ P[i] <= P[n] /\ P[i] = P[i - 1] + L[i]
    BY <1>5, <2>1
  <2>3. L[i] \in Nat /\ L[i] >= 1
    BY <1>1
  <2>4. QED
    BY <1>3, <2>2, <2>3
<1>9. /\ q \in Seq(Nat) /\ Len(q) = n /\ \A i \in 1 .. n : q[i] = lo + P[i - 1] /\ q[i] \in Nat
  <2>1. ASSUME NEW i \in 1 .. n PROVE lo + P[i - 1] \in Nat
    <3> DEFINE u == P[i - 1]
    <3>1. u \in Nat
      BY <1>8
    <3> HIDE DEF u
    <3>2. lo + u \in Nat
      BY <1>6, <3>1
    <3>3. QED
      BY <3>2 DEF u
  <2>2. q \in [1 .. n -> Nat] /\ n \in Nat
    BY <1>1, <2>1
  <2>3. \A i \in 1 .. n : q[i] = lo + P[i - 1]
    OBVIOUS
  <2> HIDE DEF q
  <2>4. q \in Seq(Nat) /\ Len(q) = n
    BY <2>2
  <2>5. QED
    BY <2>2, <2>3, <2>4
<1> HIDE DEF q
<1>10. \A i \in 1 .. n : q[i] \in lo .. hi /\ q[i] \in 1 .. hi
  <2> SUFFICES ASSUME NEW i \in 1 .. n PROVE q[i] \in lo .. hi /\ q[i] \in 1 .. hi
    OBVIOUS
  <2> DEFINE u == P[i - 1]
             v == P[i]
  <2>1. u \in Nat /\ v \in Nat /\ u < v /\ v <= Len(w) /\ q[i] = lo + u
    BY <1>8, <1>9
  <2> HIDE DEF u, v
  <2>2. QED
    BY <1>2, <1>6, <2>1
<1>11. Ascends(q)
  <2> SUFFICES ASSUME NEW j \in 1 .. n, NEW k \in 1 .. n, j < k PROVE q[j] < q[k]
    BY <1>9 DEF Ascends
  <2>1. j \in 0 .. n /\ k - 1 \in 0 .. n /\ j <= k - 1
    BY <1>1
  <2>2. P[j] <= P[k - 1]
    BY <1>5, <2>1
  <2> DEFINE u == P[j - 1]
             v == P[j]
             x == P[k - 1]
  <2>3. u \in Nat /\ v \in Nat /\ x \in Nat /\ u < v /\ v <= x /\ q[j] = lo + u /\ q[k] = lo + x
    BY <1>8, <1>9, <2>2
  <2> HIDE DEF u, v, x
  <2>4. QED
    BY <1>6, <2>3
<1>12. s \in Seq(Nat) /\ Len(s) = hi /\ \A i \in 1 .. hi : s[i] = i
  BY <1>6
<1> HIDE DEF s
<1>13. ASSUME NEW x \in 1 .. hi PROVE x \in I <=> \E k \in 1 .. n : q[k] = x
  <2>1. ASSUME x \in I PROVE \E k \in 1 .. n : q[k] = x
    <3>1. CASE x = lo
      <4>1. 1 \in 1 .. n /\ q[1] = lo + P[0]
        BY <1>1, <1>9
      <4>2. QED
        BY <1>5, <1>6, <3>1, <4>1
    <3>2. CASE x # lo
      <4>1. x \in lo .. hi /\ page.levels[x].rep <= r
        BY <2>1, <3>2 DEF Cuts
      <4>2. x - lo + 1 \in 1 .. Len(w) /\ lo + (x - lo + 1) - 1 = x
        BY <1>2, <1>6, <4>1
      <4>3a. PICK i \in 1 .. n : \E b \in 1 .. L[i] : x - lo + 1 = P[i - 1] + b /\ w[x - lo + 1] = ss[i][b]
        BY <1>4, <4>2
      <4>3. PICK b \in 1 .. L[i] : x - lo + 1 = P[i - 1] + b /\ w[x - lo + 1] = ss[i][b]
        BY <4>3a
      <4>4. ss[i][b].rep <= r
        BY <1>7, <4>1, <4>2, <4>3
      <4>5. ss[i] \in Seq(EntryT) /\ b \in 1 .. Len(ss[i])
        BY <1>1, <4>3
      <4>6. ss[i][b].rep \in Nat
        <5>1. ss[i][b] \in EntryT
          BY <4>5
        <5>2. QED
          BY <5>1 DEF EntryT
      <4>7. ~(b > 1)
        BY <4>4, <4>5, <4>6 DEF Part, n
      <4>8. b = 1 /\ b \in Nat
        BY <4>5, <4>7
      <4>9. q[i] = x
        <5> DEFINE u == P[i - 1]
        <5>1. u \in Nat /\ x - lo + 1 = u + b /\ q[i] = lo + u
          BY <1>8, <1>9, <4>3
        <5> HIDE DEF u
        <5>2. QED
          BY <1>6, <4>1, <4>8, <5>1
      <4>10. QED
        BY <4>9
    <3>3. QED
      BY <3>1, <3>2
  <2>2. ASSUME NEW k \in 1 .. n, q[k] = x PROVE x \in I
    <3>1. CASE k = 1
      <4>1. x = lo
        BY <1>5, <1>6, <1>9, <2>2, <3>1
      <4>2. QED
        BY <4>1 DEF Cuts
    <3>2. CASE k # 1
      <4>1. x \in lo .. hi
        BY <1>10, <2>2
      <4>2. 1 \in 1 .. L[k] /\ k > 1
        BY <1>1, <3>2
      <4>3. w[P[k - 1] + 1] = ss[k][1] /\ P[k - 1] + 1 \in 1 .. Len(w)
        <5>1. w[P[k - 1] + 1] = ss[k][1]
          BY <1>3, <4>2
        <5> DEFINE u == P[k - 1]
                   v == P[k]
        <5>2. u \in Nat /\ v \in Nat /\ u < v /\ v <= Len(w)
          BY <1>8
        <5> HIDE DEF u, v
        <5>3. u + 1 \in 1 .. Len(w)
          BY <1>2, <5>2
        <5>4. QED
          BY <5>1, <5>3 DEF u
      <4>4. lo + (P[k - 1] + 1) - 1 = x
        <5> DEFINE u == P[k - 1]
        <5>1. u \in Nat /\ x = lo + u
          BY <1>8, <1>9, <2>2
        <5> HIDE DEF u
        <5>2. lo + (u + 1) - 1 = x
          BY <1>6, <5>1
        <5>3. QED
          BY <5>2 DEF u
      <4>5. page.levels[x].rep = ss[k][1].rep
        BY <1>7, <4>3, <4>4
      <4>6. ss[k][1].rep <= r
        BY <4>2 DEF Part, n
      <4>7. QED
        BY <4>1, <4>5, <4>6 DEF Cuts
    <3>3. QED
      BY <3>1, <3>2
  <2>3. QED
    BY <2>1, <2>2
<1> DEFINE cuts == Picked(s, I)
<1>14. Len(cuts) = n /\ \A k \in 1 .. n : cuts[k] = q[k]
  <2>1. \A k \in 1 .. Len(q) : q[k] \in 1 .. Len(s) /\ s[q[k]] = q[k]
    BY <1>9, <1>10, <1>12
  <2>2. \A i \in 1 .. Len(s) : i \in I <=> \E k \in 1 .. Len(q) : q[k] = i
    BY <1>9, <1>12, <1>13
  <2>2a. \A k \in 1 .. Len(q) : q[k] \in 1 .. Len(s)
    BY <2>1
  <2>2b. s \in Seq(Nat) /\ q \in Seq(Nat)
    BY <1>9, <1>12
  <2>2c. Names(q, Len(s), I)
    BY <2>2, <2>2a DEF Names
  <2> HIDE DEF I
  <2>3. Len(cuts) = Len(q) /\ \A k \in 1 .. Len(q) : cuts[k] = s[q[k]]
    BY <1>11, <2>2b, <2>2c, PickedInOrder
  <2>4. QED
    BY <1>9, <2>1, <2>3
<1>15. cuts \in Seq(Nat)
  <2> HIDE DEF I
  <2>1. QED
    BY <1>12, PickedTyped
<1> DEFINE pieces == Pieces(lo, hi, r)
<1>16. pieces = [i \in DOMAIN cuts |-> [lo |-> cuts[i], hi |-> IF i = Len(cuts) THEN hi ELSE cuts[i + 1] - 1]]
  BY DEF Pieces, s
<1> HIDE DEF cuts, pieces, I
<1>17. DOMAIN pieces = 1 .. n
      /\ \A i \in 1 .. n : pieces[i] = [lo |-> q[i], hi |-> IF i = n THEN hi ELSE cuts[i + 1] - 1]
  BY <1>14, <1>15, <1>16
<1>18. ASSUME NEW i \in 1 .. n PROVE pieces[i] = Span(ss[i], q[i])
  <2>1. (IF i = n THEN hi ELSE cuts[i + 1] - 1) = q[i] + Len(ss[i]) - 1
    <3>1. P[i] = P[i - 1] + Len(ss[i]) /\ q[i] = lo + P[i - 1] /\ Len(ss[i]) \in Nat
      BY <1>1, <1>5, <1>9
    <3>2. CASE i = n
      <4> DEFINE u == P[i - 1]
                 z == Len(ss[i])
                 y == Len(w)
      <4>1. u \in Nat /\ y = u + z /\ q[i] = lo + u /\ z \in Nat
        BY <1>3, <1>8, <3>1, <3>2
      <4> HIDE DEF u, z, y
      <4>2. lo + y - 1 = q[i] + z - 1
        BY <1>6, <4>1
      <4>2a. hi = q[i] + Len(ss[i]) - 1
        BY <4>2 DEF y, z
      <4>3. QED
        BY <3>2, <4>2a
    <3>3. CASE i # n
      <4>1. i + 1 \in 1 .. n /\ (i + 1) - 1 = i
        BY <1>1, <3>3
      <4>2. cuts[i + 1] = lo + P[i]
        BY <1>9, <1>14, <4>1
      <4> DEFINE u == P[i - 1]
                 v == P[i]
                 z == Len(ss[i])
      <4>3. u \in Nat /\ v = u + z /\ q[i] = lo + u /\ z \in Nat
        BY <1>8, <3>1
      <4> HIDE DEF u, v, z
      <4>4. (lo + v) - 1 = q[i] + z - 1
        BY <1>6, <4>3
      <4>5. cuts[i + 1] - 1 = q[i] + z - 1
        BY <4>2, <4>4 DEF v
      <4>6. QED
        BY <3>3, <4>5 DEF z
    <3>4. QED
      BY <3>2, <3>3
  <2>2. QED
    BY <1>17, <2>1 DEF Span
<1>19. ASSUME NEW i \in 1 .. n PROVE Held(ss[i], q[i])
  <2> DEFINE u == P[i - 1]
             v == P[i]
  <2>1. q[i] \in Nat /\ q[i] = lo + u /\ Len(ss[i]) \in Nat /\ L[i] = Len(ss[i])
    BY <1>1, <1>9
  <2>2. v = u + Len(ss[i]) /\ v <= Len(w) /\ u \in Nat
    BY <1>5, <1>8, <2>1
  <2> HIDE DEF u, v
  <2>2a. q[i] >= 1
    BY <1>6, <2>1, <2>2
  <2>3. lo + Len(w) - 1 <= Len(levels) /\ \A b \in 1 .. Len(w) : levels[lo + b - 1] = w[b]
    BY DEF Held, w
  <2>4. Len(levels) \in Nat
    BY DEF PageHolds
  <2>5. q[i] + Len(ss[i]) - 1 <= Len(levels)
    <3> DEFINE z == Len(ss[i])
               y == Len(w)
               m == Len(levels)
    <3>1. z \in Nat /\ y \in Nat /\ m \in Nat /\ q[i] = lo + u /\ v = u + z /\ v <= y /\ lo + y - 1 <= m
      BY <1>2, <2>1, <2>2, <2>3, <2>4
    <3> HIDE DEF z, y, m
    <3>2. q[i] + z - 1 <= m
      BY <1>6, <2>2, <3>1
    <3>3. QED
      BY <3>2 DEF z, m
  <2>6. ASSUME NEW b \in 1 .. Len(ss[i]) PROVE levels[q[i] + b - 1] = ss[i][b]
    <3>1. u + b \in 1 .. Len(w) /\ q[i] + b - 1 = lo + (u + b) - 1
      BY <1>2, <1>6, <2>1, <2>2
    <3>2. w[u + b] = ss[i][b]
      BY <1>3, <2>1 DEF u
    <3>3. QED
      BY <2>3, <3>1, <3>2
  <2>7. QED
    BY <2>1, <2>2a, <2>5, <2>6 DEF Held
<1>20. \A i \in 1 .. n : q[i] \in Nat
  BY <1>6, <1>10
<1>21. CutInto(ss, pieces)
  BY <1>17, <1>18, <1>19, <1>20 DEF CutInto, n
<1>22. QED
  BY <1>21 DEF pieces, Span, w

\* The builders take the elements the walk has been to, whichever of the two ways they go.
LEMMA TakenIsPresent ==
    ASSUME IInv, OffsetsGrow, presentCount >= arrays[Leaf].length
    PROVE  present = 0 .. arrays[Leaf].length - 1
<1> DEFINE V == ValuesAt(levels)
           n == arrays[Leaf].length
           f == [j \in V |-> levels[j].at]
<1>1. /\ levels \in Seq(EntryT) /\ n \in Nat /\ V \subseteq 1 .. Len(levels) /\ IsFiniteSet(V)
      /\ presentCount = Cardinality(V) /\ presentCount \in Nat /\ DOMAIN levels = 1 .. Len(levels)
      /\ \A j \in DOMAIN levels : EntryFits(levels[j])
  BY LevelsTyped
<1>2. present = {levels[j].at : j \in V}
  BY DEF IInv, Shredded
<1>3. \A j \in V : IsValue(levels[j]) /\ j \in DOMAIN levels
  BY DEF ValuesAt
<1> HIDE DEF V, n
<1>4. \A j \in V : levels[j].at \in 0 .. n - 1
  <2> SUFFICES ASSUME NEW j \in V PROVE levels[j].at \in 0 .. n - 1
    OBVIOUS
  <2>1. levels[j].at \in -1 .. n - 1 /\ levels[j].at # -1
    BY <1>1, <1>3 DEF EntryFits, IsValue, n
  <2>2. QED
    BY <1>1, <2>1
<1>5. \A i, j \in V : levels[i].at = levels[j].at => i = j
  <2> SUFFICES ASSUME NEW i \in V, NEW j \in V, i # j PROVE levels[i].at # levels[j].at
    OBVIOUS
  <2>1. \A x, y \in V : x < y => levels[x].at < levels[y].at
    BY <1>3, InOrderInv DEF ValuesInOrder
  <2>2. i < j \/ j < i
    BY <1>1
  <2>3. levels[i].at \in Int /\ levels[j].at \in Int
    BY <1>4
  <2>4. QED
    BY <2>1, <2>2, <2>3
<1>6. f \in [V -> 0 .. n - 1] /\ \A i, j \in V : f[i] = f[j] => i = j
  BY <1>4, <1>5
<1>7. \A j \in V : f[j] = levels[j].at
  OBVIOUS
<1> HIDE DEF f
<1>8. f \in Injection(V, 0 .. n - 1)
  BY <1>6 DEF Injection, IsInjective
<1>9. IsFiniteSet(0 .. n - 1) /\ Cardinality(0 .. n - 1) = n
  <2>1. 0 \in Int /\ n - 1 \in Int
    BY <1>1
  <2>2. IsFiniteSet(0 .. n - 1) /\ Cardinality(0 .. n - 1) = IF 0 > n - 1 THEN 0 ELSE (n - 1) - 0 + 1
    BY <2>1, FS_Interval
  <2>3. QED
    BY <1>1, <2>2
<1>10. /\ Cardinality(V) <= Cardinality(0 .. n - 1)
       /\ Cardinality(V) = Cardinality(0 .. n - 1) <=> f \in Surjection(V, 0 .. n - 1)
  BY <1>8, <1>9, FS_Injection
<1>11. Cardinality(V) = Cardinality(0 .. n - 1)
  <2>1. presentCount >= n
    BY DEF n
  <2>2. QED
    BY <1>1, <1>9, <1>10, <2>1
<1>12. \A y \in 0 .. n - 1 : \E j \in V : f[j] = y
  BY <1>10, <1>11 DEF Surjection
<1>13. present = 0 .. n - 1
  BY <1>2, <1>4, <1>7, <1>12
<1>14. QED
  BY <1>13 DEF n

\* A reader that takes the next value at each greatest definition level takes the right one.
LEMMA ValueIsRead ==
    ASSUME IInv, phase = "written", OffsetsGrow, NEW i \in 1 .. Len(levels), IsValue(levels[i])
    PROVE  Full(i) \in DOMAIN page.values /\ page.values[Full(i)] = levels[i].at
<1> DEFINE n == arrays[Leaf].length
           x == levels[i].at + 1
           s == [y \in 1 .. n |-> y - 1]
           I == {y + 1 : y \in present}
           F == {j \in 1 .. i : page.levels[j].def = MaxDef}
           G == {y \in 1 .. x : y \in I}
           g == [j \in F |-> levels[j].at + 1]
<1>1. /\ levels \in Seq(EntryT) /\ n \in Nat /\ DOMAIN levels = 1 .. Len(levels)
      /\ \A j \in 1 .. Len(levels) : EntryFits(levels[j])
  BY LevelsTyped
<1>2. present = {levels[j].at : j \in ValuesAt(levels)} /\ page = FullPage
  BY DEF IInv, Shredded
<1>3. page.values = Picked(s, I)
  <2>1. page.values = PageValues
    BY <1>2 DEF FullPage
  <2>2. presentCount < n \/ presentCount >= n
    BY <1>1, LevelsTyped
  <2>3. (IF presentCount < n THEN present ELSE 0 .. n - 1) = present
    BY <2>2, TakenIsPresent
  <2>4. PageValues = Picked(s, {y + 1 : y \in IF presentCount < n THEN present ELSE 0 .. n - 1})
    BY DEF PageValues
  <2>5. QED
    BY <2>1, <2>3, <2>4
<1>4. \A j \in 1 .. Len(levels) : page.levels[j].def = MaxDef <=> IsValue(levels[j])
  <2>1. \A j \in 1 .. Len(levels) : page.levels[j].def = levels[j].def
    BY <1>1, <1>2 DEF FullPage
  <2>2. QED
    BY <1>1, <2>1 DEF EntryFits
<1>5. \A j \in 1 .. Len(levels) : IsValue(levels[j]) => levels[j].at + 1 \in 1 .. n /\ levels[j].at + 1 \in I
  <2> SUFFICES ASSUME NEW j \in 1 .. Len(levels), IsValue(levels[j])
               PROVE  levels[j].at + 1 \in 1 .. n /\ levels[j].at + 1 \in I
    OBVIOUS
  <2>1. levels[j].at \in -1 .. n - 1 /\ levels[j].at # -1
    BY <1>1 DEF EntryFits, IsValue
  <2>2. j \in ValuesAt(levels)
    BY <1>1 DEF ValuesAt
  <2>3. levels[j].at \in present
    BY <1>2, <2>2
  <2> HIDE DEF n
  <2>4. QED
    BY <1>1, <2>1, <2>3
<1>6. \A y \in I : \E j \in 1 .. Len(levels) : IsValue(levels[j]) /\ y = levels[j].at + 1
  BY <1>1, <1>2 DEF ValuesAt
<1>7. \A j, k \in 1 .. Len(levels) :
        j < k /\ IsValue(levels[j]) /\ IsValue(levels[k]) => levels[j].at < levels[k].at
  BY <1>1, InOrderInv DEF ValuesInOrder
<1>8. \A j \in 1 .. Len(levels) : levels[j].at \in Int
  BY <1>1 DEF EntryFits, EntryT
<1>9. s \in Seq(Int) /\ Len(s) = n /\ \A y \in 1 .. n : s[y] = y - 1
  <2>1. n \in Nat
    BY <1>1
  <2> HIDE DEF n
  <2>2. s \in [1 .. n -> Int] /\ \A y \in 1 .. n : s[y] = y - 1
    OBVIOUS
  <2> HIDE DEF s
  <2>3. QED
    BY <2>1, <2>2
<1>10. x \in 1 .. n /\ x \in I /\ x - 1 = levels[i].at /\ i \in Nat /\ i <= Len(levels) /\ Len(levels) \in Nat
  <2>1. x - 1 = levels[i].at
    BY <1>8
  <2>2. QED
    BY <1>1, <1>5, <2>1
<1>11. F = {j \in 1 .. i : IsValue(levels[j])}
  <2>1. \A j \in 1 .. i : j \in 1 .. Len(levels)
    BY <1>10
  <2>2. QED
    BY <1>4, <2>1
<1> HIDE DEF I, s, n, F
<1>12. g \in [F -> G]
  <2> SUFFICES ASSUME NEW j \in F PROVE levels[j].at + 1 \in G
    OBVIOUS
  <2>1. j \in 1 .. Len(levels) /\ j \in 1 .. i /\ IsValue(levels[j])
    BY <1>10, <1>11
  <2>2. levels[j].at + 1 \in I /\ levels[j].at + 1 \in 1 .. n
    BY <1>5, <2>1
  <2>3. levels[j].at <= levels[i].at
    <3>1. CASE j = i
      BY <1>8, <3>1
    <3>2. CASE j # i
      <4>1. j < i
        BY <2>1, <3>2
      <4>2. QED
        BY <1>7, <1>8, <2>1, <4>1
    <3>3. QED
      BY <3>1, <3>2
  <2>4. levels[j].at + 1 \in 1 .. x
    BY <1>1, <1>8, <2>1, <2>2, <2>3
  <2>5. QED
    BY <2>2, <2>4
<1>13. \A j, k \in F : g[j] = g[k] => j = k
  <2> SUFFICES ASSUME NEW j \in F, NEW k \in F, j # k PROVE levels[j].at + 1 # levels[k].at + 1
    OBVIOUS
  <2>1. j \in 1 .. Len(levels) /\ k \in 1 .. Len(levels) /\ IsValue(levels[j]) /\ IsValue(levels[k])
    BY <1>10, <1>11
  <2>2. j < k \/ k < j
    BY <2>1
  <2>3. levels[j].at \in Int /\ levels[k].at \in Int
    BY <1>8, <2>1
  <2>4. levels[j].at < levels[k].at \/ levels[k].at < levels[j].at
    BY <1>7, <2>1, <2>2
  <2>5. QED
    BY <2>3, <2>4
<1>14. \A y \in G : \E j \in F : g[j] = y
  <2> SUFFICES ASSUME NEW y \in G PROVE \E j \in F : levels[j].at + 1 = y
    OBVIOUS
  <2>1. y \in I /\ y \in 1 .. x
    OBVIOUS
  <2>2. PICK j \in 1 .. Len(levels) : IsValue(levels[j]) /\ y = levels[j].at + 1
    BY <1>6, <2>1
  <2>3. levels[j].at <= levels[i].at
    BY <1>8, <2>1, <2>2
  <2>4. ~(i < j)
    <3>1. ASSUME i < j PROVE FALSE
      <4>1. levels[i].at < levels[j].at
        BY <1>7, <2>2, <3>1
      <4>2. QED
        BY <1>8, <2>3, <4>1
    <3>2. QED
      BY <3>1
  <2>5. j \in 1 .. i
    BY <1>10, <2>4
  <2>6. QED
    BY <1>11, <2>2, <2>5
<1> HIDE DEF g, G
<1>15. g \in Bijection(F, G)
  BY <1>12, <1>13, <1>14 DEF Bijection, Injection, Surjection, IsInjective
<1>16. IsFiniteSet(F)
  <2>1. F \subseteq 1 .. i
    BY <1>11
  <2>2. IsFiniteSet(1 .. i)
    BY <1>10, CountUpTo
  <2>3. QED
    BY <2>1, <2>2, FS_Subset
<1>17. Cardinality(G) = Cardinality(F)
  BY <1>15, <1>16, FS_Bijection DEF ExistsBijection
<1>18. Cardinality(G) \in 1 .. Len(Picked(s, I)) /\ Picked(s, I)[Cardinality(G)] = s[x]
  <2>1. x \in 1 .. Len(s)
    BY <1>9, <1>10
  <2>2. s \in Seq(Int) /\ x \in I
    BY <1>9, <1>10
  <2> HIDE DEF x
  <2>3. Rank(x, I) \in 1 .. Len(Picked(s, I)) /\ Picked(s, I)[Rank(x, I)] = s[x]
    BY <2>1, <2>2, PickedAt
  <2>4. QED
    BY <2>3 DEF G, Rank
<1>19. Full(i) = Cardinality(G)
  BY <1>17 DEF Full, F
<1>20. DOMAIN Picked(s, I) = 1 .. Len(Picked(s, I))
  <2>1. Picked(s, I) \in Seq(Int)
    BY <1>9, PickedTyped
  <2>2. QED
    BY <2>1
<1>21. s[x] = levels[i].at
  BY <1>9, <1>10
<1>22. QED
  BY <1>3, <1>18, <1>19, <1>20, <1>21

------------------------------------------------------------------------------
(* The page, read back: what a walk left. *)

\* A page to read, of a caller that keeps its part.
Readable == IInv /\ phase = "written" /\ batchOffset = 0 /\ OffsetsGrow /\ NullsAreSeen

LEMMA ReadableFacts ==
    ASSUME Readable
    PROVE  /\ ArgsInv /\ PageHolds /\ LeafOK /\ row = shape.rows /\ batchOffset = 0
           /\ Len(levels) \in Nat /\ shape \in Shapes /\ Leaf \in Nat /\ Leaf >= 1
<1>1. IInv /\ ArgsInv /\ phase = "written" /\ batchOffset = 0
  BY DEF Readable, IInv
<1>2. levels \in Seq(EntryT) /\ Len(levels) \in Nat
  BY <1>1, LevelsTyped
<1>3. page = FullPage /\ LeafOK /\ row = shape.rows
  BY <1>1 DEF IInv
<1>4. batchOffset = 0 /\ shape \in Shapes
  BY <1>1 DEF ArgsInv
<1>5. QED
  BY <1>1, <1>2, <1>3, <1>4, ShapeFacts DEF PageHolds

\* Valid answers as the bitmap does, and a required node that is not refused is present.
LEMMA NullIsSeen ==
    ASSUME ArgsInv, NullsAreSeen, NEW k \in 1 .. Leaf, arrays[k].offset = 0,
           NEW e \in 0 .. arrays[k].length - 1
    PROVE  /\ Valid(arrays[k], e) <=> e \in arrays[k].valid
           /\ ~steps[k].optional /\ ~Refused(k, e) => e \in arrays[k].valid
           /\ ~steps[k].optional => ~(k = Leaf /\ shape.nullType)
<1>1. ArrayFits(k) /\ shape \in Shapes
  BY DEF ArgsInv
<1>2. /\ arrays[k].length = Size(k) /\ arrays[k].nulls \in Int
      /\ arrays[k].nulls = 0 => arrays[k].valid = Whole(k)
      /\ ~steps[k].optional /\ arrays[k].nulls < 0 => arrays[k].valid = Whole(k)
  <2>1. Size(k) \in Nat
    BY <1>1, ShapeFacts
  <2>2. arrays[k].nulls \in Int
    BY <1>1 DEF ArrayFits
  <2>3. ~steps[k].optional /\ arrays[k].nulls < 0 => arrays[k].valid = Whole(k)
    BY <2>2 DEF NullsAreSeen, LooksForNulls, Whole, Size
  <2>4. QED
    BY <1>1, <2>1, <2>3 DEF ArrayFits
<1>3. e \in Whole(k)
  BY <1>2 DEF Whole
<1>4. Valid(arrays[k], e) <=> e \in arrays[k].valid
  BY <1>2, <1>3 DEF Valid
<1>5. ~steps[k].optional /\ ~Refused(k, e) => e \in arrays[k].valid
  <2> SUFFICES ASSUME ~steps[k].optional, ~Refused(k, e), e \notin arrays[k].valid PROVE FALSE
    OBVIOUS
  <2>1. ~(arrays[k].nulls > 0)
    BY <1>4 DEF Refused
  <2>2. arrays[k].nulls # 0 /\ ~(arrays[k].nulls < 0)
    BY <1>2, <1>3
  <2>3. QED
    BY <1>2, <2>1, <2>2
<1>6. ~steps[k].optional => ~(k = Leaf /\ shape.nullType)
  BY <1>1, ShapeFacts
<1>7. QED
  BY <1>4, <1>5, <1>6

\* What a walk stands in the page as reads back as the element it was called for.
ReadsBack(k) ==
    \A c, lo : Walked(k, c) /\ Held(EntriesOf(k, c), lo) =>
      Reads[k][Span(EntriesOf(k, c), lo)] = Values[k][c.e]

\* What the reader finds at the beginning of a span.
LEMMA SpanFacts ==
    ASSUME Readable, NEW k \in 1 .. Leaf, NEW w \in Seq(EntryT), Len(w) >= 1, NEW lo, Held(w, lo)
    PROVE  /\ Span(w, lo) \in Piece /\ Span(w, lo).lo = lo /\ lo \in 1 .. Len(levels)
           /\ levels[lo] = w[1] /\ page.levels[lo].def = w[1].def
           /\ Reads[k][Span(w, lo)] = ReadPiece(k, Span(w, lo), DefAbove(k), Reads[k + 1])
<1>1. PageHolds /\ Leaf \in Nat
  BY ReadableFacts
<1>2. Len(w) \in Nat /\ lo \in Nat /\ lo >= 1
  BY DEF Held
<1>3. lo + Len(w) - 1 \in Nat /\ lo + 1 - 1 = lo /\ 1 \in 1 .. Len(w)
  BY <1>2
<1>4. Span(w, lo) \in Piece /\ Span(w, lo).lo = lo
  BY <1>2, <1>3 DEF Span, Piece
<1>5. lo \in 1 .. Len(levels) /\ levels[lo] = w[1] /\ page.levels[lo].def = w[1].def
  <2>1. /\ lo + 1 - 1 \in 1 .. Len(levels) /\ levels[lo + 1 - 1] = w[1]
        /\ page.levels[lo + 1 - 1].def = w[1].def
    BY <1>1, <1>3, PageLevels
  <2>2. QED
    BY <1>3, <2>1
<1>6. Reads[k] = [p \in Piece |-> ReadPiece(k, p, DefAbove(k), Reads[k + 1])]
  BY <1>1, ReadsDef
<1>7. QED
  BY <1>4, <1>5, <1>6

Inside(k) == IF steps[k].optional THEN DefAbove(k) + 1 ELSE DefAbove(k)

\* A walk whose entries the page holds, from lo on.
At(k, c, lo) == Walked(k, c) /\ Held(EntriesOf(k, c), lo)

LEMMA AtFacts ==
    ASSUME Readable, NEW k \in 1 .. Leaf, NEW c, NEW lo, At(k, c, lo)
    PROVE  /\ EntriesOf(k, c) \in Seq(EntryT) /\ Len(EntriesOf(k, c)) >= 1
           /\ c \in Call /\ c.e \in 0 .. arrays[k].length - 1 /\ c.e \in Int /\ c.d = DefAbove(k)
           /\ arrays[k].offset = 0 /\ WalkShape(k, c)
           /\ DefAbove(k) \in Nat /\ Inside(k) \in Nat /\ Below(k, c).d = Inside(k)
           /\ Below(k, c).e = c.e /\ Below(k, c).r = c.r
           /\ Values[k][c.e] = ValueOf(k, c.e, Values[k + 1])
<1>1. ArgsInv /\ shape \in Shapes /\ Leaf \in Nat
  BY ReadableFacts
<1>2. Walked(k, c) /\ c \in Call /\ WellCalled(k, c) /\ Walks[k][c].ok
  BY DEF At, Walked
<1>3. EntriesOf(k, c) \in Seq(EntryT) /\ Len(EntriesOf(k, c)) >= 1
      /\ c.e \in 0 .. arrays[k].length - 1
  BY <1>1, <1>2, EntriesTyped
<1>4. WalkShape(k, c)
  BY <1>1, <1>2, WalkCases
<1>5. arrays[k].offset = 0
  BY <1>4 DEF WalkShape
<1>6. c.e \in Int /\ c.d \in Nat /\ c.d = DefAbove(k)
  BY <1>2 DEF Call, WellCalled
<1>7. Below(k, c).d = Inside(k) /\ Below(k, c).e = c.e /\ Below(k, c).r = c.r
  BY <1>2, <1>6 DEF Below, Call, Inside
<1>8. Inside(k) \in Nat
  BY <1>6 DEF Inside
<1>9. Values[k][c.e] = ValueOf(k, c.e, Values[k + 1])
  <2>1. Values[k] = [e \in Int |-> ValueOf(k, e, Values[k + 1])]
    BY <1>1, ValuesDef
  <2>2. QED
    BY <1>6, <2>1
<1>10. QED
  BY <1>2, <1>3, <1>4, <1>5, <1>6, <1>7, <1>8, <1>9

\* A null.
LEMMA ReadsNull ==
    ASSUME Readable, NEW k \in 1 .. Leaf, NEW c, NEW lo, At(k, c, lo),
           NullEntry(k, c.e), EntriesOf(k, c) = <<Entry(c.r, c.d, -1)>>
    PROVE  Reads[k][Span(EntriesOf(k, c), lo)] = Values[k][c.e]
<1> DEFINE w == EntriesOf(k, c)
           p == Span(w, lo)
<1>1. Reads[k][p] = ReadPiece(k, p, DefAbove(k), Reads[k + 1]) /\ page.levels[p.lo].def = w[1].def
  BY AtFacts, SpanFacts DEF At
<1>2. w[1].def = c.d /\ c.d = DefAbove(k) /\ DefAbove(k) \in Nat
  BY AtFacts DEF Entry
<1>3. steps[k].optional /\ IsNull(k, c.e)
  BY DEF NullEntry
<1>4. Reads[k][p] = Null
  <2>1. page.levels[p.lo].def < Inside(k)
    BY <1>1, <1>2, <1>3 DEF Inside
  <2>2. QED
    BY <1>1, <2>1 DEF ReadPiece, Inside
<1>5. Values[k][c.e] = Null
  <2>1. arrays[k].offset = 0 /\ c.e \in Int /\ c.e \in 0 .. arrays[k].length - 1
        /\ Values[k][c.e] = ValueOf(k, c.e, Values[k + 1])
    BY AtFacts
  <2>2. arrays[k].offset + c.e = c.e
    BY <2>1
  <2>3. (k = Leaf /\ shape.nullType) \/ c.e \notin arrays[k].valid
    <3>1. ArgsInv /\ NullsAreSeen
      BY ReadableFacts DEF Readable
    <3>2. Valid(arrays[k], c.e) <=> c.e \in arrays[k].valid
      BY <2>1, <3>1, NullIsSeen
    <3>3. QED
      BY <1>3, <3>2 DEF IsNull
  <2>4. QED
    BY <2>1, <2>2, <2>3 DEF ValueOf
<1>6. QED
  BY <1>4, <1>5

\* An element that is no null: what both sides make of it.
Content(k, p, below) ==
    LET n == Full(p.lo)
        items == Pieces(p.lo, p.hi, RepLevel(k))
    IN IF steps[k].kind = "leaf"
         THEN [kind |-> "value", at |-> IF n \in DOMAIN page.values THEN page.values[n] ELSE -1]
       ELSE IF steps[k].kind = "struct" THEN [kind |-> "struct", field |-> below[p]]
       ELSE [kind |-> "list",
             items |-> IF page.levels[p.lo].def = Inside(k) THEN <<>>
                       ELSE [i \in DOMAIN items |-> below[items[i]]]]
Meant(k, e, below) ==
    IF steps[k].kind = "leaf" THEN [kind |-> "value", at |-> e]
    ELSE IF steps[k].kind = "struct" THEN [kind |-> "struct", field |-> below[e]]
    ELSE [kind |-> "list",
          items |-> [i \in 1 .. End(k, e) - Start(k, e) |->
                       below[arrays[k].entries.offset + Start(k, e) + i - 1]]]

LEMMA ContentOf ==
    ASSUME NEW k, NEW p, NEW below, ~(page.levels[p.lo].def < Inside(k))
    PROVE  ReadPiece(k, p, DefAbove(k), below) = Content(k, p, below)
BY DEF ReadPiece, Inside, Content

LEMMA MeantOf ==
    ASSUME NEW k, NEW e \in Int, NEW below, arrays[k].offset = 0,
           ~(k = Leaf /\ shape.nullType), e \in arrays[k].valid
    PROVE  ValueOf(k, e, below) = Meant(k, e, below)
<1>1. arrays[k].offset + e = e
  OBVIOUS
<1>2. ValueOf(k, e, below) =
        LET a == arrays[k]
            first == a.entries.offset + a.offs[e]
        IN IF (k = Leaf /\ shape.nullType) \/ e \notin a.valid THEN Null
           ELSE IF steps[k].kind = "leaf" THEN [kind |-> "value", at |-> e]
           ELSE IF steps[k].kind = "struct" THEN [kind |-> "struct", field |-> below[e]]
           ELSE [kind |-> "list",
                 items |-> [i \in 1 .. a.offs[e + 1] - a.offs[e] |-> below[first + i - 1]]]
  BY <1>1, Zenon DEF ValueOf
<1>3. QED
  BY <1>2 DEF Meant, Start, End

LEMMA Present ==
    ASSUME Readable, NEW k \in 1 .. Leaf, NEW c, NEW lo, At(k, c, lo), ~NullEntry(k, c.e),
           EntriesOf(k, c)[1].def \in Nat, EntriesOf(k, c)[1].def >= Inside(k)
    PROVE  /\ Reads[k][Span(EntriesOf(k, c), lo)] = Content(k, Span(EntriesOf(k, c), lo), Reads[k + 1])
           /\ Values[k][c.e] = Meant(k, c.e, Values[k + 1])
<1> DEFINE w == EntriesOf(k, c)
           p == Span(w, lo)
<1>1. Reads[k][p] = ReadPiece(k, p, DefAbove(k), Reads[k + 1]) /\ page.levels[p.lo].def = w[1].def
  BY AtFacts, SpanFacts DEF At
<1>2. Inside(k) \in Nat
  BY AtFacts
<1>3. ~(page.levels[p.lo].def < Inside(k))
  BY <1>1, <1>2
<1>4. Reads[k][p] = Content(k, p, Reads[k + 1])
  <2> HIDE DEF p
  <2>1. QED
    BY <1>1, <1>3, ContentOf
<1>5. arrays[k].offset = 0 /\ c.e \in Int /\ c.e \in 0 .. arrays[k].length - 1
      /\ Values[k][c.e] = ValueOf(k, c.e, Values[k + 1])
  BY AtFacts
<1>6. ~(k = Leaf /\ shape.nullType) /\ c.e \in arrays[k].valid
  <2>1. ArgsInv /\ NullsAreSeen
    BY ReadableFacts DEF Readable
  <2>2. /\ Valid(arrays[k], c.e) <=> c.e \in arrays[k].valid
        /\ ~steps[k].optional /\ ~Refused(k, c.e) => c.e \in arrays[k].valid
        /\ ~steps[k].optional => ~(k = Leaf /\ shape.nullType)
    BY <1>5, <2>1, NullIsSeen
  <2>3. ~Refused(k, c.e)
    BY AtFacts DEF WalkShape
  <2>4. QED
    BY <2>2, <2>3 DEF NullEntry, IsNull
<1>7. Values[k][c.e] = Meant(k, c.e, Values[k + 1])
  BY <1>5, <1>6, MeantOf
<1>8. QED
  BY <1>4, <1>7

LEMMA AtSpan ==
    ASSUME Readable, NEW k \in 1 .. Leaf, NEW c, NEW lo, At(k, c, lo)
    PROVE  /\ Span(EntriesOf(k, c), lo).lo = lo /\ lo \in 1 .. Len(levels)
           /\ levels[lo] = EntriesOf(k, c)[1] /\ page.levels[lo].def = EntriesOf(k, c)[1].def
<1>1. EntriesOf(k, c) \in Seq(EntryT) /\ Len(EntriesOf(k, c)) >= 1 /\ Held(EntriesOf(k, c), lo)
  BY AtFacts DEF At
<1>2. QED
  BY <1>1, SpanFacts

\* A value of the leaf.
LEMMA ReadsLeaf ==
    ASSUME Readable, NEW k \in 1 .. Leaf, NEW c, NEW lo, At(k, c, lo),
           ~NullEntry(k, c.e), steps[k].kind = "leaf", EntriesOf(k, c) = <<Entry(c.r, Below(k, c).d, c.e)>>
    PROVE  Reads[k][Span(EntriesOf(k, c), lo)] = Values[k][c.e]
<1> DEFINE w == EntriesOf(k, c)
           p == Span(w, lo)
<1>1. /\ w \in Seq(EntryT) /\ Len(w) >= 1 /\ c.e \in Int /\ c.e \in 0 .. arrays[k].length - 1
      /\ Inside(k) \in Nat /\ Below(k, c).d = Inside(k)
  BY AtFacts
<1>2. w[1].def = Inside(k) /\ w[1].at = c.e
  BY <1>1 DEF Entry
<1>3. /\ Reads[k][p] = Content(k, p, Reads[k + 1])
      /\ Values[k][c.e] = Meant(k, c.e, Values[k + 1])
  BY <1>1, <1>2, Present
<1>4. lo \in 1 .. Len(levels) /\ levels[lo] = w[1] /\ p.lo = lo
  BY AtSpan
<1>5. IsValue(levels[lo])
  BY <1>1, <1>2, <1>4 DEF IsValue
<1>6. Full(lo) \in DOMAIN page.values /\ page.values[Full(lo)] = c.e
  BY <1>2, <1>4, <1>5, ValueIsRead DEF Readable
<1>7. QED
  BY <1>3, <1>4, <1>6 DEF Content, Meant

\* A struct: its field is read from the same entries.
LEMMA ReadsStruct ==
    ASSUME Readable, NEW k \in 1 .. Leaf, NEW c, NEW lo, At(k, c, lo), k # Leaf, ReadsBack(k + 1),
           ~NullEntry(k, c.e), steps[k].kind = "struct", Walks[k + 1][Below(k, c)].ok,
           EntriesOf(k, c) = Walks[k + 1][Below(k, c)].entries
    PROVE  Reads[k][Span(EntriesOf(k, c), lo)] = Values[k][c.e]
<1> DEFINE w == EntriesOf(k, c)
           p == Span(w, lo)
           in == Below(k, c)
<1>1. /\ w \in Seq(EntryT) /\ Len(w) >= 1 /\ c \in Call /\ Inside(k) \in Nat /\ in.d = Inside(k)
      /\ in.e = c.e
  BY AtFacts
<1>2. ArgsInv /\ WellCalled(k, c)
  BY ReadableFacts DEF At, Walked
<1>3. k + 1 \in 1 .. Leaf /\ in \in Call /\ WellCalled(k + 1, in)
  BY <1>1, <1>2, CallsBelow
<1>4. Walked(k + 1, in) /\ EntriesOf(k + 1, in) = w
  BY <1>3 DEF Walked, EntriesOf
<1>5. w[1].def >= in.d /\ w[1].def \in Nat
  <2>1. WalkFits(k + 1, in)
    BY <1>2, <1>3, WalksFit
  <2>2. 1 \in 1 .. Len(w) /\ w[1] \in EntryT
    BY <1>1
  <2>3. w[1].def >= in.d
    BY <2>1, <2>2 DEF WalkFits, EntriesOf
  <2>4. QED
    BY <2>2, <2>3 DEF EntryT
<1>6. /\ Reads[k][p] = Content(k, p, Reads[k + 1])
      /\ Values[k][c.e] = Meant(k, c.e, Values[k + 1])
  BY <1>1, <1>5, Present
<1>7. Reads[k + 1][p] = Values[k + 1][in.e]
  <2>1. Held(w, lo)
    BY DEF At
  <2>2. Walked(k + 1, in) /\ Held(EntriesOf(k + 1, in), lo)
    BY <1>4, <2>1
  <2>3. Reads[k + 1][Span(EntriesOf(k + 1, in), lo)] = Values[k + 1][in.e]
    BY <2>2 DEF ReadsBack
  <2>4. QED
    BY <1>4, <2>3
<1>8. Content(k, p, Reads[k + 1]) = [kind |-> "struct", field |-> Reads[k + 1][p]]
  BY DEF Content
<1>9. Meant(k, c.e, Values[k + 1]) = [kind |-> "struct", field |-> Values[k + 1][c.e]]
  BY DEF Meant
<1>10. QED
  BY <1>1, <1>6, <1>7, <1>8, <1>9

\* An empty list.
LEMMA ReadsEmpty ==
    ASSUME Readable, NEW k \in 1 .. Leaf, NEW c, NEW lo, At(k, c, lo), k # Leaf,
           ~NullEntry(k, c.e), steps[k].kind \in Lists, Start(k, c.e) = End(k, c.e),
           EntriesOf(k, c) = <<Entry(Below(k, c).r, Below(k, c).d, -1)>>
    PROVE  Reads[k][Span(EntriesOf(k, c), lo)] = Values[k][c.e]
<1> DEFINE w == EntriesOf(k, c)
           p == Span(w, lo)
<1>1. /\ w \in Seq(EntryT) /\ Len(w) >= 1 /\ c.e \in 0 .. arrays[k].length - 1
      /\ Inside(k) \in Nat /\ Below(k, c).d = Inside(k)
  BY AtFacts
<1>2. w[1].def = Inside(k)
  BY <1>1 DEF Entry
<1>3. /\ Reads[k][p] = Content(k, p, Reads[k + 1])
      /\ Values[k][c.e] = Meant(k, c.e, Values[k + 1])
  BY <1>1, <1>2, Present
<1>4. page.levels[p.lo].def = Inside(k)
  BY <1>2, AtSpan
<1>5. Content(k, p, Reads[k + 1]) = [kind |-> "list", items |-> <<>>]
  BY <1>4 DEF Content, Lists
<1>6. Start(k, c.e) \in Int
  BY <1>1, OffsetsTyped, ReadableFacts
<1>7. \A f : [i \in 1 .. End(k, c.e) - Start(k, c.e) |-> f[arrays[k].entries.offset + Start(k, c.e) + i - 1]] = <<>>
  <2>1. End(k, c.e) - Start(k, c.e) = 0
    BY <1>6
  <2>2. QED
    BY <2>1
<1>8. Meant(k, c.e, Values[k + 1]) = [kind |-> "list", items |-> <<>>]
  BY <1>7 DEF Meant, Lists
<1>9. QED
  BY <1>3, <1>5, <1>8

\* A list: the pieces are the entries of its elements.
LEMMA ReadsList ==
    ASSUME Readable, NEW k \in 1 .. Leaf, NEW c, NEW lo, At(k, c, lo), k # Leaf, ReadsBack(k + 1),
           ~NullEntry(k, c.e), steps[k].kind \in Lists, ~BadList(k, c.e), Start(k, c.e) < End(k, c.e),
           \A i \in 1 .. End(k, c.e) - Start(k, c.e) : Walks[k + 1][ItemCall(k, Below(k, c), i)].ok,
           EntriesOf(k, c) = FlattenSeq([i \in 1 .. End(k, c.e) - Start(k, c.e) |->
                                           Walks[k + 1][ItemCall(k, Below(k, c), i)].entries])
    PROVE  Reads[k][Span(EntriesOf(k, c), lo)] = Values[k][c.e]
<1> DEFINE w == EntriesOf(k, c)
           p == Span(w, lo)
           in == Below(k, c)
           s == Start(k, c.e)
           t == End(k, c.e)
           call(i) == ItemCall(k, in, i)
           ss == [i \in 1 .. t - s |-> EntriesOf(k + 1, call(i))]
           items == Pieces(lo, Span(w, lo).hi, RepLevel(k))
<1>1. /\ w \in Seq(EntryT) /\ Len(w) >= 1 /\ c \in Call /\ c.e \in 0 .. arrays[k].length - 1
      /\ Inside(k) \in Nat /\ in.d = Inside(k) /\ in.e = c.e /\ in.r = c.r
  BY AtFacts
<1>2. ArgsInv /\ WellCalled(k, c) /\ PageHolds /\ shape \in Shapes
  BY ReadableFacts DEF At, Walked
<1>3. s \in Int /\ t \in Int
  BY <1>1, <1>2, OffsetsTyped
<1>4. k + 1 \in 1 .. Leaf /\ (k + 1) - 1 = k /\ in \in Call
  BY <1>1, <1>2, CallsBelow
<1>5. \A i \in 1 .. t - s : Walked(k + 1, call(i)) /\ call(i) \in Call
  <2>1. \A i \in 1 .. t - s : call(i) \in Call /\ WellCalled(k + 1, call(i))
    BY <1>1, <1>2, <1>3, CallsBelow
  <2>2. QED
    BY <2>1 DEF Walked
<1>6. \A i \in 1 .. t - s : /\ call(i).r = (IF i = 1 THEN c.r ELSE RepLevel(k))
                            /\ call(i).d = Inside(k) + 1 /\ call(i).e = s + i - 1
  BY <1>1 DEF ItemCall, Start
<1>7. w = FlattenSeq(ss)
  BY DEF EntriesOf
<1>8. RepLevel(k) \in Nat
  <2>1. k \in 0 .. Leaf
    OBVIOUS
  <2>2. RepLevel(k) \in 0 .. MaxRep /\ MaxRep \in Nat
    BY <1>2, <2>1, LevelFacts
  <2>3. QED
    BY <2>2
<1> HIDE DEF call, s, t
<1>9. \A i \in 1 .. t - s :
        /\ EntriesOf(k + 1, call(i)) \in Seq(EntryT)
        /\ Part(EntriesOf(k + 1, call(i)), RepLevel(k), i)
        /\ EntriesOf(k + 1, call(i))[1].def >= Inside(k) + 1
        /\ EntriesOf(k + 1, call(i))[1].def \in Nat
  <2> SUFFICES ASSUME NEW i \in 1 .. t - s
               PROVE  /\ EntriesOf(k + 1, call(i)) \in Seq(EntryT)
                      /\ Part(EntriesOf(k + 1, call(i)), RepLevel(k), i)
                      /\ EntriesOf(k + 1, call(i))[1].def >= Inside(k) + 1
                      /\ EntriesOf(k + 1, call(i))[1].def \in Nat
    OBVIOUS
  <2> DEFINE v == EntriesOf(k + 1, call(i))
  <2>1. WalkFits(k + 1, call(i))
    BY <1>2, <1>4, <1>5, WalksFit DEF Walked
  <2>2. /\ v \in Seq(EntryT) /\ Len(v) >= 1 /\ v[1].rep = call(i).r
        /\ \A b \in 1 .. Len(v) : v[b].def >= call(i).d /\ (b > 1 => v[b].rep > RepLevel(k))
    BY <1>4, <2>1 DEF WalkFits, EntriesOf
  <2>3. 1 \in 1 .. Len(v) /\ v[1] \in EntryT
    BY <2>2
  <2>4. v[1].def >= Inside(k) + 1 /\ v[1].def \in Nat
    BY <1>6, <2>2, <2>3 DEF EntryT
  <2>5. i > 1 => v[1].rep <= RepLevel(k)
    BY <1>6, <1>8, <2>2
  <2>6. QED
    BY <2>2, <2>4, <2>5 DEF Part
<1>10. /\ ss \in Seq(Seq(EntryT)) /\ Len(ss) = t - s /\ Len(ss) >= 1
       /\ \A i \in 1 .. t - s : ss[i] = EntriesOf(k + 1, call(i))
  <2>1. t - s \in Nat /\ t - s >= 1
    BY <1>3 DEF s, t
  <2>2. QED
    BY <1>9, <2>1
<1> HIDE DEF ss
<1>11. \A i \in 1 .. Len(ss) : Part(ss[i], RepLevel(k), i)
  BY <1>9, <1>10
<1>12. CutInto(ss, items)
  <2>1. Held(FlattenSeq(ss), lo)
    BY <1>7 DEF At
  <2>2. CutInto(ss, Pieces(lo, Span(FlattenSeq(ss), lo).hi, RepLevel(k)))
    BY <1>2, <1>8, <1>10, <1>11, <2>1, PartsAreFound
  <2>3. QED
    BY <1>7, <2>2
<1>13. w[1].def >= Inside(k) + 1 /\ w[1].def \in Nat
  <2>1. 1 \in 1 .. t - s
    BY <1>10
  <2>2. Len(ss[1]) >= 1
    BY <1>10, <1>11, <2>1 DEF Part
  <2>3. w[1] = ss[1][1]
    BY <1>7, <1>10, <2>2, FlattenFirst
  <2>4. QED
    BY <1>9, <1>10, <2>1, <2>3
<1>14. /\ Reads[k][p] = Content(k, p, Reads[k + 1])
       /\ Values[k][c.e] = Meant(k, c.e, Values[k + 1])
  BY <1>1, <1>13, Present
<1>15. p.lo = lo /\ page.levels[lo].def # Inside(k)
  BY <1>1, <1>13, AtSpan
<1>16. Content(k, p, Reads[k + 1]) =
         [kind |-> "list", items |-> [i \in DOMAIN items |-> Reads[k + 1][items[i]]]]
  BY <1>15 DEF Content, Lists
<1>17. arrays[k].entries.offset = 0
  <2>1. CASE steps[k].kind = "map"
    BY <2>1 DEF BadList
  <2>2. CASE steps[k].kind # "map"
    BY <1>2, <2>2 DEF ArgsInv, ArrayFits
  <2>3. QED
    BY <2>1, <2>2
<1>18. Meant(k, c.e, Values[k + 1]) =
         [kind |-> "list", items |-> [i \in 1 .. t - s |-> Values[k + 1][0 + s + i - 1]]]
  BY <1>17 DEF Meant, Lists, s, t
<1>19. ASSUME NEW i \in 1 .. t - s PROVE Reads[k + 1][items[i]] = Values[k + 1][0 + s + i - 1]
  <2>1. PICK x \in Nat : items[i] = Span(ss[i], x) /\ Held(ss[i], x)
    BY <1>10, <1>12 DEF CutInto
  <2>2. Walked(k + 1, call(i)) /\ Held(EntriesOf(k + 1, call(i)), x)
    BY <1>5, <1>10, <2>1
  <2>3. Reads[k + 1][Span(EntriesOf(k + 1, call(i)), x)] = Values[k + 1][call(i).e]
    BY <2>2 DEF ReadsBack
  <2>4. call(i).e = 0 + s + i - 1
    BY <1>3, <1>6
  <2>5. QED
    BY <1>10, <2>1, <2>3, <2>4
<1>20. DOMAIN items = 1 .. t - s
  BY <1>10, <1>12 DEF CutInto
<1> HIDE DEF items
<1>21. [i \in DOMAIN items |-> Reads[k + 1][items[i]]] = [i \in 1 .. t - s |-> Values[k + 1][0 + s + i - 1]]
  BY <1>19, <1>20
<1>22. QED
  BY <1>14, <1>16, <1>18, <1>21

\* What a walk has put into the page reads back as what it was called for.
LEMMA WalksReadBack == Readable => \A k \in 1 .. Leaf : ReadsBack(k)
<1> SUFFICES ASSUME Readable PROVE \A k \in 1 .. Leaf : ReadsBack(k)
  OBVIOUS
<1>1. ASSUME NEW k \in 1 .. Leaf, k # Leaf => ReadsBack(k + 1) PROVE ReadsBack(k)
  <2> SUFFICES ASSUME NEW c, NEW lo, At(k, c, lo)
               PROVE  Reads[k][Span(EntriesOf(k, c), lo)] = Values[k][c.e]
    BY DEF ReadsBack, At
  <2>1. WalkShape(k, c)
    BY AtFacts
  <2>2. steps[k].kind = "leaf" <=> k = Leaf
    BY ReadableFacts, ShapeFacts
  <2>3. CASE NullEntry(k, c.e) /\ EntriesOf(k, c) = <<Entry(c.r, c.d, -1)>>
    BY <2>3, ReadsNull
  <2>4. CASE ~NullEntry(k, c.e) /\ k = Leaf /\ EntriesOf(k, c) = <<Entry(c.r, Below(k, c).d, c.e)>>
    BY <2>2, <2>4, ReadsLeaf
  <2>5. CASE /\ ~NullEntry(k, c.e) /\ steps[k].kind = "struct"
             /\ Walks[k + 1][Below(k, c)].ok /\ EntriesOf(k, c) = Walks[k + 1][Below(k, c)].entries
    BY <1>1, <2>2, <2>5, ReadsStruct
  <2>6. CASE /\ ~NullEntry(k, c.e) /\ steps[k].kind \in Lists /\ Start(k, c.e) = End(k, c.e)
             /\ EntriesOf(k, c) = <<Entry(Below(k, c).r, Below(k, c).d, -1)>>
    <3>1. k # Leaf
      BY <2>2, <2>6 DEF Lists
    <3>2. QED
      BY <2>6, <3>1, ReadsEmpty
  <2>7. CASE /\ ~NullEntry(k, c.e) /\ steps[k].kind \in Lists /\ ~BadList(k, c.e)
             /\ Start(k, c.e) < End(k, c.e)
             /\ \A i \in 1 .. End(k, c.e) - Start(k, c.e) : Walks[k + 1][ItemCall(k, Below(k, c), i)].ok
             /\ EntriesOf(k, c) = FlattenSeq([i \in 1 .. End(k, c.e) - Start(k, c.e) |->
                                                Walks[k + 1][ItemCall(k, Below(k, c), i)].entries])
    <3>1. k # Leaf
      BY <2>2, <2>7 DEF Lists
    <3>2. QED
      BY <1>1, <2>7, <3>1, ReadsList
  <2>8. QED
    BY <2>1, <2>3, <2>4, <2>5, <2>6, <2>7 DEF WalkShape, EntriesOf
<1> DEFINE S == {k \in 1 .. Leaf + 1 : k # Leaf + 1 => ReadsBack(k)}
<1>2. Leaf \in Nat
  BY ReadableFacts
<1>3. Leaf + 1 \in S
  BY <1>2
<1>4. \A k \in 1 .. Leaf : k + 1 \in S => k \in S
  <2> SUFFICES ASSUME NEW k \in 1 .. Leaf, k + 1 \in S PROVE k \in S
    OBVIOUS
  <2>1. k # Leaf => k + 1 # Leaf + 1
    BY <1>2
  <2>2. k # Leaf => ReadsBack(k + 1)
    BY <2>1
  <2>3. ReadsBack(k) /\ k \in 1 .. Leaf + 1
    BY <1>1, <1>2, <2>2
  <2>4. QED
    BY <2>3
<1>5. \A k \in 1 .. Leaf + 1 : k \in S
  <2> HIDE DEF S
  <2>1. QED
    BY <1>2, <1>3, <1>4, InductDown
<1>6. \A k \in 1 .. Leaf : k \in 1 .. Leaf + 1 /\ k # Leaf + 1
  BY <1>2
<1>7. QED
  BY <1>5, <1>6

------------------------------------------------------------------------------
(* The page, read back: columns without a list, and the rows. *)

\* The nodes of the path that are OPTIONAL, and those of them that are null in row e.
OptionalSteps == {k \in 1 .. Leaf : steps[k].optional}
AbsentAt(e) == {k \in OptionalSteps : (k = Leaf /\ shape.nullType) \/ e \notin arrays[k].valid}
Above(k) == {j \in 1 .. k - 1 : steps[j].optional}

\* Without a list no array on the path is a slice, and each has the row.
LEMMA FlatArrays ==
    ASSUME ArgsInv, LeafOK, ~HasList
    PROVE  \A k \in 1 .. Leaf : arrays[k].offset = 0 /\ arrays[k].length >= shape.rows
<1>1. shape \in Shapes /\ (\A k \in 1 .. Leaf : ArrayFits(k))
      /\ \A k \in 1 .. Leaf - 1 : arrays[k].length >= shape.rows
  BY DEF ArgsInv
<1>2. /\ Leaf \in Nat /\ Leaf >= 1 /\ shape.rows \in Nat
      /\ \A k \in 1 .. Leaf :
           /\ steps[k].kind \in Kinds /\ Size(k) \in Nat /\ (steps[k].kind = "leaf" <=> k = Leaf)
           /\ steps[k].kind = "struct" => Size(k + 1) >= Size(k)
  BY <1>1, ShapeFacts
<1>3. arrays[Leaf].length = shape.rows /\ arrays[Leaf].offset = 0
  BY DEF LeafOK, ValidateChild
<1>4. \A k \in 1 .. Leaf : arrays[k].length = Size(k) - arrays[k].offset /\ arrays[k].offset \in {0, 1}
  BY <1>1 DEF ArrayFits
<1>5. Size(Leaf) = shape.rows
  <2>1. Leaf \in 1 .. Leaf
    BY <1>2
  <2>2. QED
    BY <1>2, <1>3, <1>4, <2>1
<1> DEFINE S == {k \in 1 .. Leaf + 1 : k # Leaf + 1 => Size(k) <= shape.rows}
<1>6. Leaf + 1 \in S
  BY <1>2
<1>7. ASSUME NEW k \in 1 .. Leaf, k + 1 \in S PROVE k \in S
  <2>1. CASE k = Leaf
    BY <1>2, <1>5, <2>1
  <2>2. CASE k # Leaf
    <3>1. k + 1 \in 1 .. Leaf /\ k + 1 # Leaf + 1 /\ k \in 1 .. Leaf + 1
      BY <1>2, <2>2
    <3>2. steps[k].kind = "struct"
      BY <1>2, <2>2 DEF Kinds, HasList, Lists
    <3>3. Size(k + 1) >= Size(k) /\ Size(k + 1) <= shape.rows /\ Size(k) \in Nat /\ Size(k + 1) \in Nat
      BY <1>2, <1>7, <3>1, <3>2
    <3>4. QED
      BY <1>2, <3>1, <3>3
  <2>3. QED
    BY <2>1, <2>2
<1>8. \A k \in 1 .. Leaf + 1 : k \in S
  <2> HIDE DEF S
  <2>1. QED
    BY <1>2, <1>6, <1>7, InductDown
<1>9. ASSUME NEW k \in 1 .. Leaf PROVE arrays[k].offset = 0 /\ arrays[k].length >= shape.rows
  <2>1. Size(k) <= shape.rows
    BY <1>2, <1>8
  <2>2. arrays[k].length >= shape.rows
    <3>1. CASE k = Leaf
      BY <1>2, <1>3, <3>1
    <3>2. CASE k # Leaf
      <4>1. k \in 1 .. Leaf - 1
        BY <1>2, <3>2
      <4>2. QED
        BY <1>1, <4>1
    <3>3. QED
      BY <3>1, <3>2
  <2>3. QED
    BY <1>2, <1>4, <2>1, <2>2
<1>10. QED
  BY <1>9

\* Without a list: a node of the row is null exactly if it is among those absent.
LEMMA FlatNulls ==
    ASSUME ArgsInv, LeafOK, NullsAreSeen, ~HasList, NEW e \in 0 .. shape.rows - 1, NEW k \in 1 .. Leaf
    PROVE  (k = Leaf /\ shape.nullType) \/ e \notin arrays[k].valid <=> k \in AbsentAt(e)
<1>1. shape \in Shapes /\ ArrayFits(k)
  BY DEF ArgsInv
<1>2. arrays[k].offset = 0 /\ arrays[k].length >= shape.rows
  BY FlatArrays
<1>3. Size(k) \in Nat /\ shape.rows \in Nat /\ (shape.nullType => steps[Leaf].optional)
      /\ steps[k].kind \in Kinds /\ (steps[k].kind = "leaf" <=> k = Leaf)
  BY <1>1, ShapeFacts
<1>4. e \in Whole(k)
  <2>1. arrays[k].length = Size(k)
    BY <1>1, <1>2, <1>3 DEF ArrayFits
  <2>2. QED
    BY <1>2, <1>3, <2>1 DEF Whole
<1>5. ~steps[k].optional => arrays[k].valid = Whole(k)
  <2> HAVE ~steps[k].optional
  <2>1. CASE k = Leaf
    <3>1. ~(arrays[k].nulls > 0) /\ arrays[k].nulls \in Int
      BY <1>1, <2>1 DEF LeafOK, ValidateChild, ArrayFits
    <3>2. arrays[k].nulls = 0 \/ arrays[k].nulls < 0
      BY <3>1
    <3>3. QED
      <4>1. arrays[k].nulls < 0 => arrays[k].valid = Whole(k)
        BY <3>1 DEF NullsAreSeen, LooksForNulls, Whole, Size
      <4>2. QED
        BY <1>1, <3>2, <4>1 DEF ArrayFits
  <2>2. CASE k # Leaf
    BY <2>2 DEF NullsAreSeen, LooksForNulls, Whole, Size
  <2>3. QED
    BY <2>1, <2>2
<1>6. QED
  BY <1>3, <1>4, <1>5 DEF AbsentAt, OptionalSteps

\* The level of a row counts the OPTIONAL nodes above its first null.
LEMMA FlatDepth ==
    ASSUME shape \in Shapes, ~HasList, NEW e, NEW k \in 1 .. Leaf + 1, \A a \in AbsentAt(e) : a >= k
    PROVE  /\ FlatEntry(e).def \in Nat /\ DefAbove(k) \in Nat /\ FlatEntry(e).def >= DefAbove(k)
           /\ k \in AbsentAt(e) => FlatEntry(e).def = DefAbove(k)
<1> DEFINE Q == {j \in OptionalSteps : \A a \in AbsentAt(e) : j < a}
<1>1. Leaf \in Nat
  BY ShapeFacts
<1>2. FlatEntry(e).def = Cardinality(Q)
  BY DEF FlatEntry, Entry, OptionalSteps, AbsentAt
<1>3. DefAbove(k) = Cardinality(Above(k))
  <2>1. k - 1 \in 0 .. Leaf
    BY <1>1
  <2>2. RepLevel(k - 1) = 0
    BY <2>1, LevelFacts
  <2>3. IsFiniteSet(Above(k))
    <3>1. IsFiniteSet(1 .. k - 1)
      BY <2>1, CountUpTo
    <3>2. QED
      BY <3>1, FS_Subset DEF Above
  <2>4. Cardinality(Above(k)) \in Nat
    BY <2>3, FS_CardinalityType
  <2>5. QED
    BY <2>2, <2>4 DEF DefAbove, Above
<1>4. IsFiniteSet(Q)
  <2>1. IsFiniteSet(1 .. Leaf)
    BY <1>1, CountUpTo
  <2>2. Q \subseteq 1 .. Leaf
    BY DEF OptionalSteps
  <2>3. QED
    BY <2>1, <2>2, FS_Subset
<1>5. AbsentAt(e) \subseteq 1 .. Leaf
  BY DEF AbsentAt, OptionalSteps
<1>6. Above(k) \subseteq Q
  <2> SUFFICES ASSUME NEW j \in Above(k) PROVE j \in Q
    OBVIOUS
  <2>1. j \in 1 .. k - 1 /\ steps[j].optional /\ j \in 1 .. Leaf
    BY <1>1 DEF Above
  <2>2. \A a \in AbsentAt(e) : j < a
    BY <1>1, <1>5, <2>1
  <2>3. QED
    BY <2>1, <2>2 DEF OptionalSteps
<1>7. k \in AbsentAt(e) => Q \subseteq Above(k)
  <2> SUFFICES ASSUME k \in AbsentAt(e), NEW j \in Q PROVE j \in Above(k)
    OBVIOUS
  <2>1. j < k /\ j \in 1 .. Leaf /\ steps[j].optional
    BY DEF OptionalSteps
  <2>2. QED
    BY <1>1, <2>1 DEF Above
<1> HIDE DEF Q
<1>8. Cardinality(Q) \in Nat /\ Cardinality(Above(k)) \in Nat /\ Cardinality(Above(k)) <= Cardinality(Q)
  <2>1. IsFiniteSet(Above(k)) /\ Cardinality(Above(k)) <= Cardinality(Q)
    BY <1>4, <1>6, FS_Subset
  <2>2. QED
    BY <1>4, <2>1, FS_CardinalityType
<1>9. k \in AbsentAt(e) => Q = Above(k)
  BY <1>6, <1>7
<1>10. QED
  BY <1>2, <1>3, <1>8, <1>9

\* Without a list: from the first node on, the row is read from its one entry.
FlatReads(k, e, p) == (\A a \in AbsentAt(e) : a >= k) => Reads[k][p] = Values[k][e]

LEMMA FlatReadsBack ==
    ASSUME Readable, ~HasList, NEW e \in 0 .. shape.rows - 1, NEW p \in Piece,
           p.lo \in 1 .. Len(levels), levels[p.lo] = FlatEntry(e)
    PROVE  Reads[1][p] = Values[1][e]
<1>1. /\ ArgsInv /\ LeafOK /\ shape \in Shapes /\ Leaf \in Nat /\ Leaf >= 1 /\ NullsAreSeen /\ PageHolds
      /\ shape.rows \in Nat
  BY ReadableFacts, ShapeFacts DEF Readable
<1>2. page.levels[p.lo].def = FlatEntry(e).def
  <2>1. DOMAIN levels = 1 .. Len(levels) /\ page = FullPage
    BY <1>1 DEF PageHolds
  <2>2. QED
    BY <2>1 DEF FullPage
<1>3. ASSUME NEW k \in 1 .. Leaf, k # Leaf => FlatReads(k + 1, e, p) PROVE FlatReads(k, e, p)
  <2> SUFFICES ASSUME \A a \in AbsentAt(e) : a >= k PROVE Reads[k][p] = Values[k][e]
    BY DEF FlatReads
  <2>1. Reads[k][p] = ReadPiece(k, p, DefAbove(k), Reads[k + 1])
    <3>1. Reads[k] = [x \in Piece |-> ReadPiece(k, x, DefAbove(k), Reads[k + 1])]
      BY <1>1, ReadsDef
    <3>2. QED
      BY <3>1
  <2>2. e \in Int /\ Values[k][e] = ValueOf(k, e, Values[k + 1])
    <3>1. Values[k] = [x \in Int |-> ValueOf(k, x, Values[k + 1])] /\ e \in Int
      BY <1>1, ValuesDef
    <3>2. QED
      BY <3>1
  <2>3. arrays[k].offset = 0
    BY <1>1, FlatArrays
  <2>4. (k = Leaf /\ shape.nullType) \/ e \notin arrays[k].valid <=> k \in AbsentAt(e)
    BY <1>1, FlatNulls
  <2>5. CASE k \in AbsentAt(e)
    <3>1. FlatEntry(e).def = DefAbove(k) /\ DefAbove(k) \in Nat
      <4>1. k \in 1 .. Leaf + 1
        BY <1>1
      <4>2. QED
        BY <1>1, <2>5, <4>1, FlatDepth
    <3>2. steps[k].optional
      BY <2>5 DEF AbsentAt, OptionalSteps
    <3>3. page.levels[p.lo].def < Inside(k)
      BY <1>2, <3>1, <3>2 DEF Inside
    <3>4. Reads[k][p] = Null
      BY <2>1, <3>3 DEF ReadPiece, Inside
    <3>5. arrays[k].offset + e = e
      BY <2>2, <2>3
    <3>6. Values[k][e] = Null
      BY <2>2, <2>4, <2>5, <3>5 DEF ValueOf
    <3>7. QED
      BY <3>4, <3>6
  <2>6. CASE k \notin AbsentAt(e)
    <3>1. \A a \in AbsentAt(e) : a >= k + 1 /\ a \in 1 .. Leaf
      BY <2>6 DEF AbsentAt, OptionalSteps
    <3>2. steps[k].kind \notin Lists
      BY DEF HasList
    <3>3. FlatEntry(e).def \in Nat /\ DefAbove(k + 1) \in Nat /\ FlatEntry(e).def >= DefAbove(k + 1)
      <4>1. k + 1 \in 1 .. Leaf + 1
        BY <1>1
      <4>2. QED
        BY <1>1, <3>1, <4>1, FlatDepth
    <3>4. DefAbove(k + 1) = Inside(k)
      <4>1. k - 1 \in 0 .. Leaf /\ (k - 1) + 1 = k
        BY <1>1
      <4>2. DefAbove(k) \in 0 .. MaxDef /\ MaxDef \in Nat
        BY <1>1, <4>1, LevelFacts
      <4>3. DefAbove(k + 1) = DefAbove(k) + 0 + (IF steps[k].optional THEN 1 ELSE 0)
        BY <1>1, <3>2, LevelFacts
      <4>4. QED
        BY <4>2, <4>3 DEF Inside
    <3>5. ~(page.levels[p.lo].def < Inside(k))
      BY <1>2, <3>3, <3>4
    <3>6. Reads[k][p] = Content(k, p, Reads[k + 1])
      BY <2>1, <3>5, ContentOf
    <3>7. Values[k][e] = Meant(k, e, Values[k + 1])
      BY <2>2, <2>3, <2>4, <2>6, MeantOf
    <3>8. steps[k].kind = "leaf" <=> k = Leaf
      BY <1>1, ShapeFacts
    <3>9. CASE k = Leaf
      <4>1. AbsentAt(e) = {}
        BY <1>1, <3>1, <3>9
      <4>2. FlatEntry(e).at = e
        BY <4>1 DEF FlatEntry, Entry, AbsentAt, OptionalSteps
      <4>3. IsValue(levels[p.lo])
        BY <1>1, <4>2 DEF IsValue
      <4>4. Full(p.lo) \in DOMAIN page.values /\ page.values[Full(p.lo)] = e
        BY <4>2, <4>3, ValueIsRead DEF Readable
      <4>5. QED
        BY <3>6, <3>7, <3>8, <3>9, <4>4 DEF Content, Meant
    <3>10. CASE k # Leaf
      <4>1. steps[k].kind = "struct"
        BY <1>1, <3>2, <3>8, <3>10, ShapeFacts DEF Kinds, Lists
      <4>2. Reads[k + 1][p] = Values[k + 1][e]
        BY <1>3, <3>1, <3>10 DEF FlatReads
      <4>3. QED
        BY <3>6, <3>7, <4>1, <4>2 DEF Content, Meant
    <3>11. QED
      BY <3>9, <3>10
  <2>7. QED
    BY <2>5, <2>6
<1> DEFINE S == {k \in 1 .. Leaf + 1 : k # Leaf + 1 => FlatReads(k, e, p)}
<1>4. Leaf + 1 \in S
  BY <1>1
<1>5. ASSUME NEW k \in 1 .. Leaf, k + 1 \in S PROVE k \in S
  <2>1. k # Leaf => k + 1 # Leaf + 1
    BY <1>1
  <2>2. k # Leaf => FlatReads(k + 1, e, p)
    BY <1>5, <2>1
  <2>3. FlatReads(k, e, p) /\ k \in 1 .. Leaf + 1
    BY <1>1, <1>3, <2>2
  <2>4. QED
    BY <2>3
<1>6. \A k \in 1 .. Leaf + 1 : k \in S
  <2> HIDE DEF S
  <2>1. QED
    BY <1>1, <1>4, <1>5, InductDown
<1>7. FlatReads(1, e, p)
  <2>1. 1 \in 1 .. Leaf + 1 /\ 1 # Leaf + 1
    BY <1>1
  <2>2. QED
    BY <1>6, <2>1
<1>8. \A a \in AbsentAt(e) : a >= 1
  BY <1>1 DEF AbsentAt, OptionalSteps
<1>9. QED
  BY <1>7, <1>8 DEF FlatReads

\* The entries of row e, where the page holds them, read back as the row.
LEMMA RowReadsBack ==
    ASSUME Readable, NEW e \in 0 .. shape.rows - 1, Row(e).ok, RowFits(Row(e).entries),
           NEW lo, Held(Row(e).entries, lo)
    PROVE  Reads[1][Span(Row(e).entries, lo)] = Values[1][e]
<1>1. ArgsInv /\ shape \in Shapes /\ Leaf \in Nat /\ Leaf >= 1 /\ shape.rows \in Nat
  BY ReadableFacts, ShapeFacts
<1>2. 1 \in 1 .. Leaf /\ e \in Int
  BY <1>1
<1>3. CASE HasList
  <2> DEFINE c == [e |-> e, r |-> 0, d |-> 0]
  <2>1. Walked(1, c) /\ Row(e).entries = EntriesOf(1, c) /\ c.e = e
    BY <1>1, <1>2, <1>3, RowIsWalk
  <2> HIDE DEF c
  <2>2. ReadsBack(1)
    BY <1>2, WalksReadBack
  <2>3. QED
    BY <2>1, <2>2 DEF ReadsBack
<1>4. CASE ~HasList
  <2> DEFINE w == Row(e).entries
             p == Span(w, lo)
  <2>1. w = <<FlatEntry(e)>>
    BY <1>4 DEF Row, Emits
  <2>2. w[1] = FlatEntry(e)
    BY <2>1
  <2>3. w \in Seq(EntryT) /\ Len(w) >= 1 /\ Held(w, lo)
    BY DEF RowFits
  <2> HIDE DEF w
  <2>4. p \in Piece /\ p.lo = lo /\ lo \in 1 .. Len(levels) /\ levels[lo] = w[1]
    BY <1>2, <2>3, SpanFacts
  <2> HIDE DEF p
  <2>5. p.lo \in 1 .. Len(levels) /\ levels[p.lo] = FlatEntry(e)
    BY <2>2, <2>4
  <2>6. Reads[1][p] = Values[1][e]
    BY <1>4, <2>4, <2>5, FlatReadsBack
  <2>7. QED
    BY <2>6 DEF p, w
<1>5. QED
  BY <1>3, <1>4

\* The rows, one behind the other, are cut apart at repetition level 0.
LEMMA RowsReadBack == Readable => RowsRead = Rows
<1> SUFFICES ASSUME Readable PROVE RowsRead = Rows
  OBVIOUS
<1> DEFINE n == shape.rows
           ss == RowsUpTo(n)
           hi == Len(page.levels)
           pieces == Pieces(1, hi, 0)
<1>1. /\ ArgsInv /\ PageHolds /\ LeafOK /\ row = n /\ batchOffset = 0 /\ n \in Nat
      /\ Len(levels) \in Nat
  BY ReadableFacts, ShapeFacts
<1>2. (\A e \in 0 .. n - 1 : Row(e).ok) /\ levels = FlattenSeq(ss)
  BY <1>1 DEF Readable, IInv, Shredded
<1>3. /\ ss \in Seq(Seq(EntryT)) /\ Len(ss) = n
      /\ \A i \in 1 .. n : ss[i] = Row(i - 1).entries /\ RowFits(ss[i])
  <2>1. n \in 0 .. shape.rows
    BY <1>1
  <2>2. QED
    BY <1>1, <1>2, <2>1, RowsTyped
<1>4. DOMAIN page.levels = 1 .. Len(levels) /\ page.levels \in Seq([rep : Nat, def : Nat]) /\ hi = Len(levels)
  <2>1. page.levels = [i \in DOMAIN levels |-> [rep |-> levels[i].rep, def |-> levels[i].def]]
    BY <1>1 DEF PageHolds, FullPage
  <2>2. levels \in Seq(EntryT) /\ DOMAIN levels = 1 .. Len(levels)
    BY <1>1 DEF PageHolds
  <2>3. \A i \in 1 .. Len(levels) : [rep |-> levels[i].rep, def |-> levels[i].def] \in [rep : Nat, def : Nat]
    <3> SUFFICES ASSUME NEW i \in 1 .. Len(levels)
                 PROVE  [rep |-> levels[i].rep, def |-> levels[i].def] \in [rep : Nat, def : Nat]
      OBVIOUS
    <3>1. levels[i] \in EntryT
      BY <2>2
    <3>2. QED
      BY <3>1 DEF EntryT
  <2>4. page.levels \in [1 .. Len(levels) -> [rep : Nat, def : Nat]]
    BY <2>1, <2>2, <2>3
  <2> DEFINE LevelT == [rep : Nat, def : Nat]
             u == page.levels
  <2>5. u \in [1 .. Len(levels) -> LevelT]
    BY <2>4
  <2> HIDE DEF LevelT, u
  <2>6. u \in Seq(LevelT) /\ Len(u) = Len(levels) /\ DOMAIN u = 1 .. Len(levels)
    BY <1>1, <2>5
  <2>7. QED
    BY <2>6 DEF u, LevelT
<1>5. \A i \in 1 .. n : Rows[i] = Values[1][i - 1]
  BY <1>1 DEF Rows
<1> HIDE DEF ss
<1>6. CASE n = 0
  <2>1. ss = <<>>
    BY <1>3, <1>6
  <2>2. levels = <<>>
    BY <1>2, <2>1, FlattenEmpty
  <2>3. Len(levels) = 0
    BY <2>2
  <2>4. page.levels = <<>>
    BY <1>4, <2>3
  <2>5. Rows = <<>>
    BY <1>6 DEF Rows
  <2>6. QED
    BY <2>4, <2>5 DEF RowsRead
<1>7. CASE n # 0
  <2>1. n >= 1 /\ Len(ss) >= 1 /\ 1 \in 1 .. n
    BY <1>1, <1>3, <1>7
  <2>2. \A i \in 1 .. Len(ss) : Part(ss[i], 0, i)
    <3> SUFFICES ASSUME NEW i \in 1 .. Len(ss) PROVE Part(ss[i], 0, i)
      OBVIOUS
    <3>1. RowFits(ss[i])
      BY <1>3
    <3>2. Len(ss[i]) >= 1 /\ ss[i][1].rep <= 0 /\ \A b \in 1 .. Len(ss[i]) : b > 1 => ss[i][b].rep > 0
      BY <3>1 DEF RowFits
    <3>3. QED
      BY <3>2 DEF Part
  <2>3. Len(levels) >= 1
    <3>1. Len(ss[1]) >= 1
      BY <1>3, <2>1 DEF RowFits
    <3>2. Len(FlattenSeq(ss)) >= 1
      BY <1>3, <2>1, <3>1, FlattenFirst
    <3>3. QED
      BY <1>2, <3>2
  <2>4. page.levels # <<>>
    BY <1>4, <2>3
  <2>5. Held(FlattenSeq(ss), 1) /\ Span(FlattenSeq(ss), 1).hi = hi
    <3>1. \A b \in 1 .. Len(levels) : 1 + b - 1 = b
      BY <1>1
    <3>2. 1 + Len(levels) - 1 = Len(levels)
      BY <1>1
    <3>3. Held(levels, 1) /\ Span(levels, 1).hi = hi
      BY <1>1, <1>4, <3>1, <3>2 DEF Held, Span
    <3>4. QED
      BY <1>2, <3>3
  <2>6. CutInto(ss, pieces)
    <3>1. CutInto(ss, Pieces(1, Span(FlattenSeq(ss), 1).hi, 0))
      BY <1>1, <1>3, <2>1, <2>2, <2>5, PartsAreFound
    <3>2. QED
      BY <2>5, <3>1
  <2> HIDE DEF hi, pieces
  <2>7. RowsRead = [i \in DOMAIN pieces |-> Reads[1][pieces[i]]]
    BY <2>4 DEF RowsRead, pieces, hi
  <2>8. DOMAIN pieces = 1 .. n
    BY <1>3, <2>6 DEF CutInto
  <2>9. ASSUME NEW i \in 1 .. n PROVE Reads[1][pieces[i]] = Values[1][i - 1]
    <3>1. i - 1 \in 0 .. shape.rows - 1
      BY <1>1
    <3>2. ss[i] = Row(i - 1).entries /\ RowFits(Row(i - 1).entries) /\ Row(i - 1).ok
      BY <1>2, <1>3, <3>1
    <3>3. PICK x \in Nat : pieces[i] = Span(ss[i], x) /\ Held(ss[i], x)
      BY <1>3, <2>6 DEF CutInto
    <3>4. Reads[1][Span(Row(i - 1).entries, x)] = Values[1][i - 1]
      BY <3>1, <3>2, <3>3, RowReadsBack
    <3>5. QED
      BY <3>2, <3>3, <3>4
  <2>10. \A i \in 1 .. n : Reads[1][pieces[i]] = Rows[i]
    BY <1>5, <2>9
  <2>11. Rows = [i \in 1 .. n |-> Rows[i]]
    BY DEF Rows
  <2>12. QED
    BY <2>7, <2>8, <2>10, <2>11
<1>8. QED
  BY <1>6, <1>7

\* A reader assembles from the page exactly the rows the Arrow arrays hold, whatever the
\* nesting, the lists' sizes and the nulls, for a caller that keeps the three conditions
\* that PageDecodesToRows names.
THEOREM PageReadsBack == Spec => []PageDecodesToRows
<1>1. IInv => PageDecodesToRows
  BY RowsReadBack DEF Readable, PageDecodesToRows
<1>2. QED
  BY <1>1, Inductive, PTL
==============================================================================
