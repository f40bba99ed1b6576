------------------------------- MODULE LeafPages -------------------------------
(***************************************************************************)
(* The columns of a batch become column chunks (writer.cpp): the schema is  *)
(* flattened and locked, then each leaf gets its pages, the values in one of *)
(* the encodings, and its statistics.  LeafLevels says which values are      *)
(* present and N2PWriter where the pages go; here a value is its bytes, and  *)
(* a reader that knows the footer and the page headers must get them back.   *)
(***************************************************************************)
EXTENDS SchemaTree, FiniteSets

CONSTANTS
    Batches  \* the batches a caller may write

\* schema: the columns.  arrays: the array each leaf of it has.  cells: the value at
\* each position, a byte sequence, for BOOL one bit.  valid: the positions that are
\* present, the others hold anything.  spare: what fills the last byte of a BOOL buffer.
Array == [cells : Seq(Seq(0 .. 255)), valid : SUBSET Nat, spare : Seq({0, 1})]

\* The leaves of an Arrow schema, each with the children that lead to it.
Nested == {"+s", "+l", "+L", "+m"}
RECURSIVE Leaves(_, _)
Leaves(node, at) ==
    IF node.format \notin Nested THEN <<[at |-> at, node |-> node]>>
    ELSE FlattenSeq([i \in DOMAIN node.children |-> Leaves(node.children[i], Append(at, i - 1))])
ArrowLeaves(columns) == FlattenSeq([i \in DOMAIN columns |-> Leaves(columns[i], <<i - 1>>)])

ASSUME BatchesAssumption ==
    \A b \in Batches :
      /\ DOMAIN b.arrays = {l.at : l \in ToSet(ArrowLeaves(b.schema))}
      /\ \A l \in ToSet(ArrowLeaves(b.schema)) :
           LET a == b.arrays[l.at]
           IN /\ a.valid \subseteq DOMAIN a.cells
              /\ l.node.format = "n" => a.valid = {}
              /\ l.node.format = "b" => Len(a.spare) = (8 - (Len(a.cells) % 8)) % 8

VARIABLES
    batch,   \* a member of Batches
    mode,    \* the N2PEncoding in force
    phase,   \* "schema", "leaves" or "refused"
    nodes,   \* the elements of the footer's schema
    leaves,  \* the LeafSpecs
    chunks   \* the column chunks so far

vars == <<batch, mode, phase, nodes, leaves, chunks>>

Modes == {"auto", "plain", "delta", "split"}

------------------------------------------------------------------------------
(* Values *)

\* The values that are present, in order.
Present(array) ==
    LET at == SelectSeq([i \in DOMAIN array.cells |-> i], LAMBDA i : i \in array.valid)
    IN [i \in DOMAIN at |-> array.cells[at[i]]]

\* append_widened: the four bytes of the same number.
Widen(type, cell) ==
    cell \o [k \in 1 .. 4 - Len(cell) |-> IF type.signed /\ cell[Len(cell)] > 127 THEN 255 ELSE 0]

\* build_plain_fixed.
PlainFixed(type, array) ==
    IF type.extract = "fixed" THEN Present(array)
    ELSE [i \in DOMAIN Present(array) |-> Widen(type, Present(array)[i])]

\* Whole bytes of bits.
Padded(bits) == bits \o [k \in 1 .. (8 - (Len(bits) % 8)) % 8 |-> 0]
\* build_plain_bool: the buffer as it is, or the present bits packed anew.
PlainBool(array) ==
    IF array.valid = DOMAIN array.cells THEN FlattenSeq(array.cells) \o array.spare
    ELSE Padded(FlattenSeq(Present(array)))

------------------------------------------------------------------------------
(* nanom's encoders *)

\* The difference of two numbers in little-endian bytes, modulo their width.
Subtract(a, b) ==
    LET borrow[k \in 0 .. Len(a)] ==
          IF k = 0 THEN 0 ELSE IF a[k] - b[k] - borrow[k - 1] < 0 THEN 1 ELSE 0
    IN [k \in DOMAIN a |-> (a[k] - b[k] - borrow[k - 1] + 256) % 256]
Plus(a, b) ==
    LET carry[k \in 0 .. Len(a)] == IF k = 0 THEN 0 ELSE (a[k] + b[k] + carry[k - 1]) \div 256
    IN [k \in DOMAIN a |-> (a[k] + b[k] + carry[k - 1]) % 256]
\* delta_binary_packed_encode: the first value, then differences.
Deltas(values) ==
    [i \in DOMAIN values |-> IF i = 1 THEN values[1] ELSE Subtract(values[i], values[i - 1])]
\* byte_stream_split_encode: the first bytes of all values, then the second ones.
Split(values, width) ==
    FlattenSeq([k \in 1 .. width |-> [i \in DOMAIN values |-> values[i][k]]])

\* delta_prefix_encode: how much a value shares with the one before, and the rest.
SharedPrefix(a, b) ==
    CHOOSE n \in 0 .. Len(a) :
      /\ n <= Len(b) /\ SubSeq(a, 1, n) = SubSeq(b, 1, n)
      /\ n = Len(a) \/ n = Len(b) \/ a[n + 1] # b[n + 1]
FrontCoded(values) ==
    [i \in DOMAIN values |->
       LET n == IF i = 1 THEN 0 ELSE SharedPrefix(values[i], values[i - 1])
       IN [shared |-> n, rest |-> SubSeq(values[i], n + 1, Len(values[i]))]]

\* string_dictionary: the distinct values as they come.
Dictionary(values) ==
    FoldLeft(LAMBDA d, v : IF v \in ToSet(d) THEN d ELSE Append(d, v), <<>>, values)
\* rle_hybrid_encode keeps the low bits of each index; its size depends on the runs.
Packed(indices, width) == [i \in DOMAIN indices |-> indices[i] % 2^width]
PackedSizes(n, width) ==
    IF n = 0 THEN {0} ELSE 1 .. n + width * ((n + 7) \div 8)

------------------------------------------------------------------------------
(* Statistics *)

\* How the bytes of a value order: as an unsigned or two's complement number, as an
\* IEEE number, or from the first byte on.
Orders == {"unsigned", "signed", "float", "bytes"}
Zero(v) == \A k \in DOMAIN v : v[k] = 0 \/ (k = Len(v) /\ v[k] = 128)
\* The exponent is in the last two bytes of a float, its least bits in the second.
ExponentLow(v) == IF Len(v) = 4 THEN 128 ELSE 240
IsNaN(v) ==
    LET n == Len(v)
    IN /\ v[n] % 128 = 127 /\ v[n - 1] >= ExponentLow(v)
       /\ v[n - 1] > ExponentLow(v) \/ \E k \in 1 .. n - 2 : v[k] # 0
Key(v, order) ==
    LET n == Len(v)
        top == [k \in 1 .. n |-> v[n + 1 - k]]
    IN CASE order = "bytes"    -> v
         [] order = "unsigned" -> top
         [] order = "signed"   -> [top EXCEPT ![1] = (@ + 128) % 256]
         [] order = "float"    ->
              IF Zero(v) THEN [top EXCEPT ![1] = 128]
              ELSE IF top[1] > 127 THEN [k \in 1 .. n |-> 255 - top[k]]
              ELSE [top EXCEPT ![1] = @ + 128]
Before(a, b) ==
    \/ \E k \in DOMAIN a : /\ k \in DOMAIN b /\ a[k] < b[k]
                           /\ \A j \in 1 .. k - 1 : a[j] = b[j]
    \/ Len(a) < Len(b) /\ a = SubSeq(b, 1, Len(a))
Less(a, b, order) == Before(Key(a, order), Key(b, order))

Comparable(values, order) == {v \in ToSet(values) : ~(order = "float" /\ IsNaN(v))}
\* compute_stats: the least and greatest value, NaN ignored, a zero as the zero that
\* lies outside; nothing when there is none.
SignedZero(v, order, byte) ==
    IF order = "float" /\ Zero(v) THEN [v EXCEPT ![Len(v)] = byte] ELSE v
ComputeStats(values, order) ==
    LET known == Comparable(values, order)
        least == CHOOSE v \in known : \A u \in known : ~Less(u, v, order)
        most  == CHOOSE v \in known : \A u \in known : ~Less(v, u, order)
    IN IF known = {} THEN {}
       ELSE {[min |-> SignedZero(least, order, 128), max |-> SignedZero(most, order, 0)]}

\* fixed_stats: the type the buffer is compared as.
StatsOrder(type) ==
    IF type.extract = "widen" THEN IF type.signed THEN "signed" ELSE "unsigned"
    ELSE CASE type.physical \in {"INT32", "INT64"} ->
                IF type.converted \in {"UINT_32", "UINT_64"} THEN "unsigned" ELSE "signed"
           [] type.physical \in {"FLOAT", "DOUBLE"} -> "float"
           [] OTHER -> "bytes"

\* Fault: a statistic keeps the width of the buffer.
NarrowStats(type, array) == ComputeStats(Present(array), StatsOrder(type))
FixedStats(type, array) ==
    LET values == Present(array)
        stats == ComputeStats(values, StatsOrder(type))
    IN CASE type.extract = "null" -> {}
         [] type.extract = "widen" ->
              {[min |-> Widen(type, s.min), max |-> Widen(type, s.max)] : s \in stats}
         [] OTHER -> stats

------------------------------------------------------------------------------
(* write_leaf_pages *)

\* encoding and body of the data page, the dictionary page, and the statistics.
Chunk(encoding, body, dictionary, stats) ==
    [encoding |-> encoding, body |-> body, dictionary |-> dictionary, stats |-> stats]

\* encode_fixed_values.
FixedChunk(type, array) ==
    LET values == PlainFixed(type, array)
        stats  == FixedStats(type, array)
        width  == IF type.physical = "FLOAT" THEN 4 ELSE 8
    IN CASE mode = "delta" /\ type.physical \in {"INT32", "INT64"} ->
              Chunk("DELTA_BINARY_PACKED", Deltas(values), <<>>, stats)
         [] mode = "split" /\ type.physical \in {"FLOAT", "DOUBLE"} ->
              Chunk("BYTE_STREAM_SPLIT", Split(values, width), <<>>, stats)
         [] OTHER -> Chunk("PLAIN", FlattenSeq(values), <<>>, stats)

\* Fault: the last index of a dictionary has no width of its own.
BitWidthOfLast(n) == CHOOSE w \in 0 .. n : 2^w >= n - 1 /\ \A v \in 0 .. w - 1 : 2^v < n - 1
\* dictionary_bit_width: the least width that tells n indices apart.
BitWidth(n) == CHOOSE w \in 0 .. n : 2^w >= n /\ \A v \in 0 .. w - 1 : 2^v < n

\* Each value after its length.
Prefixed(values) == FlattenSeq([i \in DOMAIN values |-> <<Len(values[i])>> \o values[i]])
\* A length takes four bytes.
PlainSize(values) == FoldLeft(LAMBDA n, v : n + 4 + Len(v), 0, values)

\* build_byte_array_pages: in AUTO the dictionary unless PLAIN is smaller, whose size
\* has to be known for that.
ByteArrayChunks(array) ==
    LET values == Present(array)
        dict   == Dictionary(values)
        index  == [i \in DOMAIN values |-> (CHOOSE k \in DOMAIN dict : dict[k] = values[i]) - 1]
        width  == BitWidth(Len(dict))
        plain  == Chunk("PLAIN", Prefixed(values), <<>>, ComputeStats(values, "bytes"))
    IN CASE mode = "plain" -> {plain}
         [] mode = "delta" ->
              {Chunk("DELTA_BYTE_ARRAY", FrontCoded(values), <<>>, ComputeStats(values, "bytes"))}
         [] OTHER ->
              {IF PlainSize(values) < PlainSize(dict) + 1 + size THEN plain
               ELSE Chunk("RLE_DICTIONARY", <<width>> \o Packed(index, width), Prefixed(dict),
                          ComputeStats(dict, "bytes")) :
                 size \in PackedSizes(Len(values), width)}

LeafChunks(type, array) ==
    CASE type.extract = "bytes" -> ByteArrayChunks(array)
      [] type.extract = "bool"  ->
           {Chunk("PLAIN", PlainBool(array), <<>>, ComputeStats(Present(array), "unsigned"))}
      [] type.extract = "null"  -> {Chunk("PLAIN", <<>>, <<>>, {})}
      [] OTHER                  -> {FixedChunk(type, array)}

------------------------------------------------------------------------------
(* write_one_batch *)

Init ==
    /\ batch \in Batches /\ mode \in Modes
    /\ phase = "schema" /\ nodes = <<>> /\ leaves = <<>> /\ chunks = <<>>

\* Fault: a schema without leaves is locked.
LockEmptySchema ==
    /\ phase = "schema"
    /\ LET f == FlattenBatch(batch.schema)
       IN f.ok /\ nodes' = f.nodes /\ leaves' = f.leaves
    /\ phase' = "leaves"
    /\ UNCHANGED <<batch, mode, chunks>>
LockSchema ==
    /\ phase = "schema"
    /\ LET f == FlattenBatch(batch.schema)
       IN /\ f.ok /\ f.leaves # <<>>
          /\ nodes' = f.nodes /\ leaves' = f.leaves
    /\ phase' = "leaves"
    /\ UNCHANGED <<batch, mode, chunks>>

RefuseSchema ==
    /\ phase = "schema"
    /\ LET f == FlattenBatch(batch.schema) IN ~f.ok \/ f.leaves = <<>>
    /\ phase' = "refused"
    /\ UNCHANGED <<batch, mode, nodes, leaves, chunks>>

\* A leaf reads the array its walk leads to.
WriteLeaf ==
    /\ phase = "leaves" /\ Len(chunks) < Len(leaves)
    /\ LET leaf == leaves[Len(chunks) + 1]
       IN \E c \in LeafChunks(leaf.type, batch.arrays[Walk(leaf)]) : chunks' = Append(chunks, c)
    /\ UNCHANGED <<batch, mode, phase, nodes, leaves>>

Next == LockSchema \/ RefuseSchema \/ WriteLeaf

Spec == Init /\ [][Next]_vars

------------------------------------------------------------------------------
(* A reader *)

File == Parse(nodes, 1, <<>>, 0, 0)

\* A column of the file, in Arrow's terms.
ReadFormat(t) ==
    CASE t.physical = "BOOLEAN" -> "b"
      [] t.physical = "INT32" ->
           (CASE t.converted = "INT_8"   -> "c" [] t.converted = "UINT_8"  -> "C"
              [] t.converted = "INT_16"  -> "s" [] t.converted = "UINT_16" -> "S"
              [] t.converted = "UINT_32" -> "I" [] OTHER -> "i")
      [] t.physical = "INT64" -> IF t.converted = "UINT_64" THEN "L" ELSE "l"
      [] t.physical = "FLOAT" -> "f" [] t.physical = "DOUBLE" -> "g"
      [] t.physical = "FIXED_LEN_BYTE_ARRAY" -> "w"
      [] OTHER -> IF t.converted = "UTF8" THEN "u" ELSE "z"
IsUnsigned(format) == format \in {"b", "C", "S", "I", "L"}
ReadOrder(format) ==
    IF format \in {"f", "g"} THEN "float" ELSE IF format \in {"w", "u", "U", "z", "Z"} THEN "bytes"
    ELSE IF IsUnsigned(format) THEN "unsigned" ELSE "signed"

\* The tree of the file, in Arrow's terms.
RECURSIVE ReadTree(_)
ReadTree(t) ==
    LET node(format, children) ==
          [Node(format, t.name, t.repetition = "OPTIONAL", children) EXCEPT
             !.width = IF format = "w" THEN (CHOOSE y \in t.type : TRUE).length ELSE 0]
        fields(u) == [i \in DOMAIN u.fields |-> ReadTree(u.fields[i])]
    IN IF "type" \in DOMAIN t THEN node(ReadFormat(CHOOSE y \in t.type : TRUE), <<>>)
       ELSE CASE t.logical = "LIST" -> node("+l", fields(t.fields[1]))
              [] t.logical = "MAP"  ->
                   node("+m", <<Node("+s", t.fields[1].name, FALSE, fields(t.fields[1]))>>)
              [] OTHER -> node("+s", fields(t))

\* Cuts a sequence into pieces of n.
Pieces(s, n) == [i \in 1 .. Len(s) \div n |-> SubSeq(s, (i - 1) * n + 1, i * n)]
Sums(deltas) ==
    LET sum[i \in 0 .. Len(deltas)] ==
          IF i <= 1 THEN IF i = 0 THEN <<>> ELSE deltas[1] ELSE Plus(sum[i - 1], deltas[i])
    IN [i \in DOMAIN deltas |-> sum[i]]
Unsplit(s, n) ==
    LET count == Len(s) \div n
    IN [i \in 1 .. count |-> [k \in 1 .. n |-> s[(k - 1) * count + i]]]
RECURSIVE Unprefixed(_)
Unprefixed(s) ==
    IF s = <<>> THEN <<>>
    ELSE <<SubSeq(s, 2, s[1] + 1)>> \o Unprefixed(SubSeq(s, s[1] + 2, Len(s)))
Unfronted(parts) ==
    LET value[i \in 0 .. Len(parts)] ==
          IF i = 0 THEN <<>> ELSE SubSeq(value[i - 1], 1, parts[i].shared) \o parts[i].rest
    IN [i \in DOMAIN parts |-> value[i]]

\* The n values of a chunk of a column, by the type in the footer.
ReadValues(c, t, n) ==
    LET width == CASE t.physical \in {"INT32", "FLOAT"} -> 4 [] t.physical \in {"INT64", "DOUBLE"} -> 8
                   [] t.physical = "BOOLEAN" -> 1 [] OTHER -> t.length
        dict  == Unprefixed(c.dictionary)
        all   == CASE c.encoding = "DELTA_BINARY_PACKED" -> Sums(c.body)
                   [] c.encoding = "BYTE_STREAM_SPLIT"   -> Unsplit(c.body, width)
                   [] c.encoding = "DELTA_BYTE_ARRAY"    -> Unfronted(c.body)
                   [] c.encoding = "RLE_DICTIONARY"      -> [i \in 1 .. Len(c.body) - 1 |-> dict[c.body[i + 1] + 1]]
                   [] OTHER -> IF t.physical = "BYTE_ARRAY" THEN Unprefixed(c.body)
                               ELSE Pieces(c.body, width)
    IN SubSeq(all, 1, n)

\* The same number in eight bytes, whatever its width.
Number(v, format) ==
    IF ReadOrder(format) \in {"float", "bytes"} THEN v
    ELSE v \o [k \in 1 .. 8 - Len(v) |-> IF ~IsUnsigned(format) /\ v[Len(v)] > 127 THEN 255 ELSE 0]

------------------------------------------------------------------------------
(* Properties. *)

Arrow == ArrowLeaves(batch.schema)
ArrayOf(i) == batch.arrays[Arrow[i].at]
\* The type of column i of the file.
Types == [i \in 1 .. Len(SelectSeq(nodes, LAMBDA e : e.type # {})) |->
            CHOOSE t \in SelectSeq(nodes, LAMBDA e : e.type # {})[i].type : TRUE]

\* The locked schema and the chunks are of the same columns.
TypeOK ==
    /\ phase \in {"schema", "leaves", "refused"}
    /\ Len(chunks) <= Len(leaves)
    /\ phase = "leaves" <=> leaves # <<>>
    /\ \A c \in ToSet(chunks) : Cardinality(c.stats) <= 1

\* What a schema turns into: lists and strings have one width of offsets in a file, the
\* item of a list and the parts of a map have names of their own, a key is never null.
RECURSIVE Meant(_, _, _)
Meant(node, name, nullable) ==
    LET format == CASE node.format = "+L" -> "+l" [] node.format = "U" -> "u" [] node.format = "Z" -> "z"
                    [] node.format = "n" -> "i" [] OTHER -> node.format
        fields(n) == [i \in DOMAIN n.children |->
                        Meant(n.children[i], n.children[i].name, Nullable(n.children[i]))]
        entry == node.children[1]
        parts == <<Meant(entry.children[1], "key", entry.children[1].format = "n"),
                   Meant(entry.children[2], "value", Nullable(entry.children[2]))>>
    IN [Node(format, name, nullable,
             CASE format = "+l" -> <<Meant(entry, "element", Nullable(entry))>>
               [] format = "+m" -> <<Node("+s", "key_value", FALSE, parts)>>
               [] OTHER -> fields(node)) EXCEPT !.width = node.width]

\* A reader of the footer assembles the tree of the Arrow schema from the flat list of
\* elements: every field below its parent, with its name, type and nullability.
SchemaReadsBack ==
    phase = "leaves" =>
      /\ File.next = Len(nodes) + 1
      /\ [i \in DOMAIN File.tree.fields |-> ReadTree(File.tree.fields[i])]
           = [i \in DOMAIN batch.schema |->
                Meant(batch.schema[i], batch.schema[i].name, Nullable(batch.schema[i]))]

\* The columns are found by their place alone, so the leaves are in the order of the
\* elements, each with the path and the greatest levels these give it, and each is
\* read from the array of the Arrow leaf with the same place.
LeavesAreTheColumns ==
    phase = "leaves" =>
      /\ File.columns = [i \in DOMAIN leaves |->
           [path |-> leaves[i].path, maxDef |-> leaves[i].maxDef, maxRep |-> leaves[i].maxRep]]
      /\ [i \in DOMAIN leaves |-> Walk(leaves[i])] = [i \in DOMAIN Arrow |-> Arrow[i].at]

\* The schema locked in, the elements of the footer and the arrays read name the same
\* columns in the same order.
SchemaOK == TypeOK /\ SchemaReadsBack /\ LeavesAreTheColumns

\* A reader gets from a chunk the numbers and strings that are present in its array,
\* in whatever encoding they are.
ValuesReadBack ==
    \A i \in DOMAIN chunks :
      LET t      == Types[i]
          values == Present(ArrayOf(i))
          read   == ReadValues(chunks[i], t, Len(values))
      IN /\ Len(read) = Len(values)
         /\ \A k \in DOMAIN values :
              Number(read[k], ReadFormat(t)) = Number(values[k], Arrow[i].node.format)

\* README: "statistics (min / max / null count in Parquet's type-defined orders), so
\* readers can skip row groups".  A reader that skips a chunk by its statistics misses
\* nothing: they are numbers of the column's type that bound every value that can be
\* compared, in the order of that type, and are reached.
StatisticsBoundTheValues ==
    \A i \in DOMAIN chunks :
      LET t      == Types[i]
          format == ReadFormat(t)
          order  == ReadOrder(format)
          values == Comparable(ReadValues(chunks[i], t, Cardinality(ArrayOf(i).valid)), order)
      IN /\ chunks[i].stats = {} <=> values = {}
         /\ \A s \in chunks[i].stats :
              /\ \A v \in values : Len(v) = Len(s.min) \/ t.physical = "BYTE_ARRAY"
              /\ \A v \in values : ~Less(v, s.min, order) /\ ~Less(s.max, v, order)
              /\ \E v \in values : Key(v, order) = Key(s.min, order)
              /\ \E v \in values : Key(v, order) = Key(s.max, order)

\* README: the types of its table are written, whatever their nesting; only a batch
\* with another type, with a list or map that is not of its form, or without a leaf is
\* refused.
Written == {"n", "b", "c", "C", "s", "S", "i", "I", "l", "L", "f", "g", "u", "U", "z", "Z"}
RECURSIVE Supported(_)
Supported(node) ==
    /\ \/ node.format \in Written \cup {"+s"}
       \/ node.format = "w" /\ node.width > 0
       \/ node.format \in {"+l", "+L"} /\ Len(node.children) = 1
       \/ /\ node.format = "+m" /\ Len(node.children) = 1
          /\ node.children[1].format = "+s" /\ Len(node.children[1].children) = 2
    /\ \A i \in DOMAIN node.children : Supported(node.children[i])
SupportedIsWritten ==
    phase # "schema" =>
      (phase = "leaves" <=> Arrow # <<>> /\ \A i \in DOMAIN batch.schema : Supported(batch.schema[i]))
================================================================================
