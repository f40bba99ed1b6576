------------------------------ MODULE LeafLevels ------------------------------
(***************************************************************************)
(* One leaf of a batch becomes the body of its data page (writer.cpp): the  *)
(* checks of the arrays on the leaf's path, the repetition and definition   *)
(* levels, one row after the other, and the values that go with them.  A    *)
(* leaf under a list or map is shredded (write_list_leaf, Shredder); any    *)
(* other takes one definition level per row (write_one_batch).              *)
(*                                                                          *)
(* A value is the position of the leaf array it lies at.                    *)
(***************************************************************************)
EXTENDS Integers, Sequences, SequencesExt, FiniteSets, SequenceLoops

CONSTANTS
    Shapes,        \* the paths and array sizes a caller may pass
    BatchOffsets   \* the offsets that the record batch's own array may have

Step == [kind : {"struct", "list", "map", "leaf"}, optional : BOOLEAN]

\* steps: the Arrow nodes from the column to the leaf.  rows: the length of the
\* batch.  sizes: how many elements the buffers of each array hold.  nullType:
\* the leaf has Arrow's null type.  tidy bounds the arrays to well-formed ones.
Shape == [steps : Seq(Step), rows : Nat, sizes : Seq(Nat),
          nullType : BOOLEAN, tidy : BOOLEAN]

Lists == {"list", "map"}

ASSUME ShapesAssumption ==
    \A s \in Shapes :
      /\ s \in Shape /\ s.steps # <<>>
      /\ Len(s.sizes) = Len(s.steps)
      /\ \A k \in DOMAIN s.steps : s.steps[k].kind = "leaf" <=> k = Len(s.steps)
      /\ s.nullType => s.steps[Len(s.steps)].optional
      \* the child of a struct is no shorter than the struct, as Arrow requires
      /\ \A k \in DOMAIN s.steps : s.steps[k].kind = "struct" => s.sizes[k + 1] >= s.sizes[k]
ASSUME BatchOffsetsAssumption == BatchOffsets \subseteq {0, 1}

VARIABLES
    \* the arguments: never change
    shape,         \* a member of Shapes
    batchOffset,   \* offset of the record batch's own array
    arrays,        \* arrays[k]: the ArrowArray of step k
    lacking,       \* the array that lacks its "child" or its "buffer", if any
    \* the writing of the leaf
    phase,         \* "check", "rows", "written" or "refused"
    row,           \* rows done
    levels,        \* Shredded.rep and .def; at: the position of the value, or -1
    presentCount,  \* Shredded.present_count
    present,       \* Shredded.present: the positions that hold values
    page           \* the data page: levels, values, and the chunk's null_count

arguments == <<shape, batchOffset, arrays, lacking>>
vars == <<arguments, phase, row, levels, presentCount, present, page>>

steps == shape.steps
Leaf == Len(steps)
HasList == \E k \in 1 .. Leaf : steps[k].kind \in Lists

(* What flatten_node derives from the steps of a leaf. *)
MaxRep == Cardinality({k \in 1 .. Leaf : steps[k].kind \in Lists})
MaxDef == Cardinality({k \in 1 .. Leaf : steps[k].optional}) + MaxRep
\* Fault: the repetition level of a list counts the lists above it only.
RepLevelAbove(k) == Cardinality({j \in 1 .. k - 1 : steps[j].kind \in Lists})
RepLevel(k) == Cardinality({j \in 1 .. k : steps[j].kind \in Lists})

\* dictionary_bit_width: the least width that tells n values apart.
BitWidth(n) ==
    CHOOSE w \in 0 .. n : Powers(n)[w] >= n /\ \A v \in 0 .. w - 1 : Powers(n)[v] < n

------------------------------------------------------------------------------
(* The arrays a caller may pass. *)

\* A validity bitmap and its null_count, exact or -1, "not computed".  A node that is
\* not nullable may hold nulls all the same.
Validities(s, k) ==
    LET size  == s.sizes[k]
        whole == 0 .. size - 1
    IN {x \in [valid : SUBSET whole, nulls : -1 .. size] :
          /\ x.nulls = size - Cardinality(x.valid) \/ (x.nulls = -1 /\ ~s.tidy)
          /\ s.tidy /\ ~s.steps[k].optional => x.valid = whole}

\* The offsets of a list over a child of n elements.
Offsets(s, k) ==
    LET size == s.sizes[k]
        n    == s.sizes[k + 1]
    IN {o \in [0 .. size -> (IF s.tidy THEN 0 ELSE -1) .. n] :
          s.tidy => \A e \in 0 .. size - 1 : o[e] <= o[e + 1]}

ArraysOf(s, k) ==
    LET kind == s.steps[k].kind
        size == s.sizes[k]
        n    == IF kind = "map" THEN s.sizes[k + 1] ELSE 0
        \* the entries of a map may be a slice of longer keys and values
        entries == {[offset |-> 0, length |-> n]}
                   \cup (IF n > 0 /\ ~s.tidy THEN {[offset |-> 1, length |-> n - 1]} ELSE {})
    IN UNION {
         {[offset |-> 0, length |-> size, valid |-> v.valid, nulls |-> v.nulls,
           offs |-> o, entries |-> m] :
            o \in IF kind \in Lists THEN Offsets(s, k) ELSE {<<>>}, m \in entries} :
         v \in Validities(s, k)}

\* An array for each step.
Chains(s) == OneOfEach([k \in DOMAIN s.steps |-> ArraysOf(s, k)])

\* An array that is a slice of its buffers starts one element later.
Sliced(chain, k) == [chain EXCEPT ![k].offset = 1, ![k].length = @ - 1]

Nothing == [step |-> 0, what |-> "none"]
Lackings == {[step |-> k, what |-> "child"] : k \in 1 .. Leaf - 1}
            \cup {[step |-> k, what |-> "buffer"] :
                    k \in {j \in 1 .. Leaf : steps[j].kind # "struct"}}

Init ==
    /\ shape \in Shapes
    /\ batchOffset \in BatchOffsets
    /\ \E chain \in Chains(shape) :
         \/ arrays = chain /\ lacking = Nothing
         \/ ~shape.tidy /\ arrays = chain /\ lacking \in Lackings
         \/ /\ ~shape.tidy /\ lacking = Nothing
            /\ \E k \in {j \in 1 .. Leaf : shape.sizes[j] > 0} : arrays = Sliced(chain, k)
    \* nor is a struct shorter than the batch
    /\ HasList \/ \A k \in 1 .. Leaf - 1 : arrays[k].length >= shape.rows
    /\ phase = "check" /\ row = 0
    /\ levels = <<>> /\ presentCount = 0 /\ present = {}
    /\ page = [levels |-> <<>>, values |-> <<>>, nulls |-> 0]

------------------------------------------------------------------------------
(* The checks before the first row: the path is there, and validate_child. *)

\* Fault: only a null_count that says every element is null is refused.
ValidateChildAllNull(a, expectedRows) ==
    /\ a.length = expectedRows
    /\ a.offset = 0
    /\ ~(a.nulls = a.length /\ a.length > 0 /\ ~steps[Leaf].optional)
    /\ shape.nullType \/ lacking # [step |-> Leaf, what |-> "buffer"]
\* Fault: the offset of the leaf array is not looked at.
ValidateChildSlice(a, expectedRows) ==
    /\ a.length = expectedRows
    /\ ~(a.nulls > 0 /\ ~steps[Leaf].optional)
    /\ shape.nullType \/ lacking # [step |-> Leaf, what |-> "buffer"]
ValidateChild(a, expectedRows) ==
    /\ a.length = expectedRows
    /\ a.offset = 0
    /\ ~(a.nulls > 0 /\ ~steps[Leaf].optional)
    /\ shape.nullType \/ lacking # [step |-> Leaf, what |-> "buffer"]

CheckLeaf ==
    /\ phase = "check"
    /\ LET leaf == arrays[Leaf]
           expected == IF HasList THEN leaf.length ELSE shape.rows
       IN phase' = IF lacking.what # "child" /\ ValidateChild(leaf, expected)
                   THEN "rows" ELSE "refused"
    /\ UNCHANGED <<arguments, row, levels, presentCount, present, page>>

------------------------------------------------------------------------------
(* Shredder: a walk from the column down to the leaf either fails or emits     *)
(* level entries.                                                              *)

Entry(r, d, at) == [rep |-> r, def |-> d, at |-> at]
Emits(entries) == [ok |-> TRUE, entries |-> entries]
Fails == [ok |-> FALSE, entries |-> <<>>]

\* What walk is called with: an element, and the levels it is met at.
Call == [e : Int, r : Nat, d : Nat]

\* Shredder::valid asks null_count first.
Valid(a, e) == a.nulls = 0 \/ e \in a.valid
IsNull(k, e) == (k = Leaf /\ shape.nullType) \/ ~Valid(arrays[k], e)

\* Fault: a list may not end with its child.
OutOfBoundsAtEnd(k, s, t) == s < 0 \/ t < s \/ t >= arrays[k + 1].length
OutOfBounds(k, s, t) == s < 0 \/ t < s \/ t > arrays[k + 1].length

\* Fault: the element after the last is taken too.
ElementsToEnd(s, t) == [i \in 1 .. t - s + 1 |-> s + i - 1]
Elements(s, t) == [i \in 1 .. t - s |-> s + i - 1]

\* The elements of list c.e, walked below: the first continues the row as the list was
\* met, the others repeat at the level of the list.
Items(k, c, below) ==
    LET a == arrays[k]
        s == a.offs[c.e]
        t == a.offs[c.e + 1]
        badEntries == steps[k].kind = "map" /\ (a.entries.offset # 0 \/ t > a.entries.length)
        elements == Elements(s, t)
        items == [i \in DOMAIN elements |->
                    below[[e |-> elements[i], r |-> IF i = 1 THEN c.r ELSE RepLevel(k),
                           d |-> c.d + 1]]]
    IN IF lacking.step = k \/ badEntries \/ OutOfBounds(k, s, t) THEN Fails
       ELSE IF s = t THEN Emits(<<Entry(c.r, c.d, -1)>>)
       ELSE IF \E i \in DOMAIN items : ~items[i].ok THEN Fails
       ELSE Emits(FlattenSeq([i \in DOMAIN items |-> items[i].entries]))

\* Shredder::walk at step k, where "below" is the walk at the next step.
Walk(k, c, below) ==
    LET a == arrays[k]
        inside == [c EXCEPT !.d = IF steps[k].optional THEN c.d + 1 ELSE c.d]
    IN IF a.offset # 0 \/ c.e < 0 \/ c.e >= a.length THEN Fails
       ELSE IF steps[k].optional /\ IsNull(k, c.e) THEN Emits(<<Entry(c.r, c.d, -1)>>)
       ELSE IF ~steps[k].optional /\ a.nulls > 0 /\ ~Valid(a, c.e) THEN Fails
       ELSE IF steps[k].kind = "leaf" THEN Emits(<<Entry(c.r, inside.d, c.e)>>)
       ELSE IF steps[k].kind = "struct" THEN below[inside]
       ELSE Items(k, inside, below)

\* Below the leaf there is nothing to walk.
Walks ==
    LET walk[k \in 1 .. Leaf + 1] ==
          IF k > Leaf THEN <<>> ELSE [c \in Call |-> Walk(k, c, walk[k + 1])]
    IN walk

(* write_one_batch: without a list, the level of row e counts the OPTIONAL    *)
(* nodes down to the first null; a REQUIRED node is taken to be present, and  *)
(* the bitmaps are read whatever null_count says.                             *)
\* Fault: the level counts every OPTIONAL node that is present, also below a null.
FlatEntryCountsAll(e) ==
    LET optional == {k \in 1 .. Leaf : steps[k].optional}
        absent   == {k \in optional : (k = Leaf /\ shape.nullType) \/ e \notin arrays[k].valid}
    IN Entry(0, Cardinality(optional \ absent), IF absent = {} THEN e ELSE -1)
FlatEntry(e) ==
    LET optional == {k \in 1 .. Leaf : steps[k].optional}
        absent   == {k \in optional : (k = Leaf /\ shape.nullType) \/ e \notin arrays[k].valid}
    IN Entry(0, Cardinality({k \in optional : \A j \in absent : k < j}),
             IF absent = {} THEN e ELSE -1)

\* Row e of the column.
Row(e) == IF HasList THEN Walks[1][[e |-> e, r |-> 0, d |-> 0]] ELSE Emits(<<FlatEntry(e)>>)

IsValue(entry) == entry.at # -1
ValuesAt(entries) == {i \in DOMAIN entries : IsValue(entries[i])}

NextRow ==
    /\ phase = "rows" /\ row < shape.rows
    /\ LET walked == Row(row)
       IN /\ walked.ok
          /\ levels' = levels \o walked.entries
          /\ present' = present \cup {walked.entries[i].at : i \in ValuesAt(walked.entries)}
          /\ presentCount' = presentCount + Cardinality(ValuesAt(walked.entries))
    /\ row' = row + 1
    /\ UNCHANGED <<arguments, phase, page>>

RefuseRow ==
    /\ phase = "rows" /\ row < shape.rows
    /\ ~Row(row).ok
    /\ phase' = "refused"
    /\ UNCHANGED <<arguments, row, levels, presentCount, present, page>>

\* Fault: null_count counts the rows without a value.
NullCountOfRows == shape.rows - presentCount
\* Fault: null_count counts the elements of the leaf array that are no value.
NullCountOfLeaf == arrays[Leaf].length - presentCount
NullCount == Len(levels) - presentCount

\* The value builders take every element of the leaf array when as many values
\* were seen as it has elements, and the present ones otherwise.
PageValues ==
    LET length == arrays[Leaf].length
        taken  == IF presentCount < length THEN present ELSE 0 .. length - 1
    IN Picked([i \in 1 .. length |-> i - 1], {x + 1 : x \in taken})

WritePage ==
    /\ phase = "rows" /\ row = shape.rows
    /\ phase' = "written"
    /\ page' = [levels |-> [i \in DOMAIN levels |-> [rep |-> levels[i].rep, def |-> levels[i].def]],
                values |-> PageValues, nulls |-> NullCount]
    /\ UNCHANGED <<arguments, row, levels, presentCount, present>>

Next == CheckLeaf \/ NextRow \/ RefuseRow \/ WritePage

Spec == Init /\ [][Next]_vars

------------------------------------------------------------------------------
(* What the rows hold, read off the Arrow arrays as the Arrow format says:    *)
(* element e of an array lies at its offset plus e.                           *)

Null == [kind |-> "null"]

ValueOf(k, e, below) ==
    LET a == arrays[k]
        p == a.offset + e
        first == a.entries.offset + a.offs[p]
    IN IF (k = Leaf /\ shape.nullType) \/ p \notin a.valid THEN Null
       ELSE IF steps[k].kind = "leaf" THEN [kind |-> "value", at |-> p]
       ELSE IF steps[k].kind = "struct" THEN [kind |-> "struct", field |-> below[p]]
       ELSE [kind |-> "list",
             items |-> [i \in 1 .. a.offs[p + 1] - a.offs[p] |-> below[first + i - 1]]]
Values ==
    LET value[k \in 1 .. Leaf + 1] ==
          IF k > Leaf THEN <<>> ELSE [e \in Int |-> ValueOf(k, e, value[k + 1])]
    IN value

Rows == [i \in 1 .. shape.rows |-> Values[1][batchOffset + i - 1]]

(* What a reader assembles from the page: it cuts the levels into rows at     *)
(* repetition level 0, then into the elements of each list at the list's      *)
(* level, and takes the next value at the greatest definition level.          *)

Cuts(lo, hi, r) == {lo} \cup {i \in lo .. hi : page.levels[i].rep <= r}
\* The pieces lo .. hi falls into, in order, one from each cut.
Pieces(lo, hi, r) ==
    LET cuts == Picked([i \in 1 .. hi |-> i], Cuts(lo, hi, r))
    IN [i \in DOMAIN cuts |->
          [lo |-> cuts[i], hi |-> IF i = Len(cuts) THEN hi ELSE cuts[i + 1] - 1]]
Piece == [lo : Nat, hi : Nat]

\* How many of the first n entries stand for a value.
Full(n) == Cardinality({i \in 1 .. n : page.levels[i].def = MaxDef})

ReadPiece(k, p, above, below) ==
    LET def    == page.levels[p.lo].def
        inside == IF steps[k].optional THEN above + 1 ELSE above
        n      == Full(p.lo)
        items  == Pieces(p.lo, p.hi, RepLevel(k))
    IN IF def < inside THEN Null
       ELSE IF steps[k].kind = "leaf"
         THEN [kind |-> "value", at |-> IF n \in DOMAIN page.values THEN page.values[n] ELSE -1]
       ELSE IF steps[k].kind = "struct" THEN [kind |-> "struct", field |-> below[p]]
       ELSE [kind |-> "list",
             items |-> IF def = inside THEN <<>> ELSE [i \in DOMAIN items |-> below[items[i]]]]
\* The definition level of a step counts the OPTIONAL nodes and the lists above it.
DefAbove(k) == Cardinality({j \in 1 .. k - 1 : steps[j].optional}) + RepLevel(k - 1)
Reads ==
    LET read[k \in 1 .. Leaf + 1] ==
          IF k > Leaf THEN <<>> ELSE [p \in Piece |-> ReadPiece(k, p, DefAbove(k), read[k + 1])]
    IN read

RowsRead ==
    IF page.levels = <<>> THEN <<>>
    ELSE LET rows == Pieces(1, Len(page.levels), 0)
         IN [i \in DOMAIN rows |-> Reads[1][rows[i]]]

------------------------------------------------------------------------------
(* Properties. *)

TypeOK ==
    /\ phase \in {"check", "rows", "written", "refused"}
    /\ row \in 0 .. shape.rows
    /\ \A i \in DOMAIN levels : levels[i].at \in -1 .. arrays[Leaf].length - 1
    /\ present \subseteq 0 .. arrays[Leaf].length - 1
    /\ presentCount \in 0 .. Len(levels)
    /\ page.nulls \in 0 .. Len(levels)

\* The offsets of a list grow, as the Arrow format has them, also where it is null or
\* lies in a null: those the walk never looks at.
OffsetsGrow ==
    \A k \in 1 .. Leaf : steps[k].kind \in Lists =>
      \A e \in 0 .. shape.sizes[k] - 1 : arrays[k].offs[e] <= arrays[k].offs[e + 1]

\* The writer asks null_count for the nulls of a REQUIRED node: -1, "not computed", says
\* none to it.  Of a path without a list it asks the leaf alone.
LooksForNulls(k) == arrays[k].nulls >= 0 /\ (HasList \/ k = Leaf)

\* The caller's REQUIRED nodes hold no null that the writer does not look for.
NullsAreSeen ==
    \A k \in 1 .. Leaf :
      ~steps[k].optional /\ ~LooksForNulls(k) => arrays[k].valid = 0 .. shape.sizes[k] - 1

\* A reader gets from the page the rows the Arrow arrays hold: the levels and
\* the values, which the writer counts apart, agree with each other and with
\* the arrays at every null, empty list and nesting.  The caller's part: a batch that
\* is not sliced, offsets that grow, and no null where the writer does not look.
PageDecodesToRows ==
    phase = "written" /\ batchOffset = 0 /\ OffsetsGrow /\ NullsAreSeen => RowsRead = Rows

\* The comment of struct Shredded: "Values come out in increasing position order
\* (list offsets only grow)", which is why a set of positions may stand for the
\* sequence of values.
ValuesInOrder ==
    OffsetsGrow => \A i, j \in DOMAIN levels :
      i < j /\ IsValue(levels[i]) /\ IsValue(levels[j]) => levels[i].at < levels[j].at

\* Every level fits the width it is packed with (rep_bit_width, def_bit_width),
\* the greatest definition level is the mark of a value, and a row begins
\* exactly where the repetition level is 0.
LevelsFit ==
    /\ \A i \in DOMAIN levels :
         /\ levels[i].rep < Powers(MaxRep + 1)[BitWidth(MaxRep + 1)]
         /\ levels[i].def < Powers(MaxDef + 1)[BitWidth(MaxDef + 1)]
         /\ IsValue(levels[i]) <=> levels[i].def = MaxDef
    /\ Cardinality({i \in DOMAIN levels : levels[i].rep = 0}) = row

\* What emit_page packs: levels that fit their widths, and values that stand in the
\* order of their levels.
LevelsOK == TypeOK /\ LevelsFit /\ ValuesInOrder

\* The null_count of the statistics is the number of level entries without a
\* value, of which a null or empty list is one.
NullCountIsExact ==
    phase = "written" =>
      page.nulls = Cardinality({i \in DOMAIN page.levels : page.levels[i].def < MaxDef})

\* Arrays as the Arrow format and the README ask for: not sliced, nothing
\* lacking, each as long as its parent needs, offsets in order, no null in a
\* required node.
WellFormed ==
    /\ batchOffset = 0 /\ lacking = Nothing
    /\ IF HasList THEN arrays[1].length >= shape.rows
                  ELSE \A k \in 1 .. Leaf : arrays[k].length = shape.rows
    /\ \A k \in 1 .. Leaf :
         LET a == arrays[k]
         IN /\ a.offset = 0 /\ a.entries.offset = 0
            /\ steps[k].optional \/ a.valid = 0 .. a.length - 1
            /\ steps[k].kind \in Lists =>
                 /\ \A e \in 0 .. a.length - 1 : a.offs[e] <= a.offs[e + 1]
                 /\ a.offs[0] >= 0 /\ a.offs[a.length] <= arrays[k + 1].length
            /\ steps[k].kind = "struct" => arrays[k + 1].length >= a.length

\* Every check of the writer is about ill-formed arrays: it writes the others.
WellFormedIsWritten == phase = "refused" => ~WellFormed

\* The elements of array k that some row of the batch reaches.
Reaches ==
    LET reached[k \in 1 .. Leaf] ==
          IF k = 1 THEN 0 .. row - 1
          ELSE LET a == arrays[k - 1]
                   above == {e \in reached[k - 1] : ~steps[k - 1].optional \/ e \in a.valid}
               IN IF steps[k - 1].kind \in Lists
                  THEN UNION {a.offs[e] .. a.offs[e + 1] - 1 : e \in above}
                  ELSE above
    IN reached
Reached(k) == Reaches[k]

\* README: "REQUIRED columns reject actual nulls", as far as the code keeps it: a
\* written leaf has no null that a row reaches in a REQUIRED node where the writer
\* looks for one.  Where null_count is -1, or the node is a struct on a path without
\* a list, such a null is written as a value.
SeenNullsAreRejected ==
    phase = "written" =>
      \A k \in 1 .. Leaf :
        ~steps[k].optional /\ LooksForNulls(k) => Reached(k) \subseteq arrays[k].valid

\* README: "REQUIRED columns reject actual nulls", as it is written.  No run checks it,
\* for it does not hold: the two exceptions above.
RequiredHoldsNoNull ==
    phase = "written" =>
      \A k \in 1 .. Leaf :
        steps[k].optional \/ Reached(k) \subseteq arrays[k].valid

\* README: "Arrays must not be sliced (a non-zero ArrowArray offset is refused),
\* for lists and maps as for every other column."
SlicesAreRefused ==
    phase = "written" =>
      /\ batchOffset = 0
      /\ \A k \in 1 .. Leaf : Reached(k) # {} => arrays[k].offset = 0
==============================================================================
