------------------------------ MODULE MCLeafPages ------------------------------
(* Small batches for LeafPages. *)
EXTENDS LeafPages

Leaf1(format) == [Node(format, "a", TRUE, <<>>) EXCEPT !.width = IF format = "w" THEN 2 ELSE 0]
Array1(cells, valid) ==
    [cells |-> cells, valid |-> valid, spare |-> [k \in 1 .. (8 - (Len(cells) % 8)) % 8 |-> 1]]

\* Values at the limits of each type, and around the sign.
Samples(format) ==
    CASE format = "b" -> {<<0>>, <<1>>}
      [] format \in {"c", "C"} -> {<<0>>, <<1>>, <<127>>, <<128>>, <<255>>}
      [] format \in {"s", "S"} -> {<<0, 0>>, <<1, 0>>, <<128, 0>>, <<255, 127>>, <<0, 128>>}
      [] format \in {"i", "I"} ->
           {<<0, 0, 0, 0>>, <<1, 0, 0, 0>>, <<255, 255, 255, 127>>, <<0, 0, 0, 128>>, <<255, 255, 255, 255>>}
      [] format \in {"l", "L"} ->
           {<<0, 0, 0, 0, 0, 0, 0, 0>>, <<255, 255, 255, 255, 255, 255, 255, 127>>,
            <<0, 0, 0, 0, 0, 0, 0, 128>>, <<255, 255, 255, 255, 255, 255, 255, 255>>}
      \* 0, -0, 1, -1, infinity, NaN
      [] format = "f" ->
           {<<0, 0, 0, 0>>, <<0, 0, 0, 128>>, <<0, 0, 128, 63>>, <<0, 0, 128, 191>>,
            <<0, 0, 128, 127>>, <<0, 0, 192, 127>>}
      [] format = "g" ->
           {<<0, 0, 0, 0, 0, 0, 0, 0>>, <<0, 0, 0, 0, 0, 0, 0, 128>>, <<0, 0, 0, 0, 0, 0, 240, 191>>,
            <<0, 0, 0, 0, 0, 0, 240, 255>>, <<1, 0, 0, 0, 0, 0, 240, 127>>}
      [] format = "w" -> {<<0, 1>>, <<1, 0>>, <<200, 0>>}
      [] OTHER -> {<<>>, <<7>>, <<7, 200>>, <<200>>}

Flat3(format) ==
    {[schema |-> <<Leaf1(format)>>, arrays |-> (<<0>> :> Array1(<<x, y, z>>, valid))] :
       x \in Samples(format), y \in Samples(format), z \in Samples(format),
       valid \in {{}, {1, 3}, {1, 2, 3}}}
FlatBatches == UNION {Flat3(f) : f \in {"b", "c", "C", "s", "S", "i", "I", "l", "L", "f", "g", "w", "u", "Z"}}

\* Bits over more than a byte, and strings that repeat more or less often.
Long(format, cells, valid) == [schema |-> <<Leaf1(format)>>, arrays |-> (<<0>> :> Array1(cells, valid))]
LongBatches ==
    {Long("b", [i \in 1 .. 10 |-> <<IF i \in ones THEN 1 ELSE 0>>], valid) :
       ones \in {{1, 9}, {2, 8, 10}}, valid \in {1 .. 10, 1 .. 9, 2 .. 10}}
      \cup {Long("z", [i \in 1 .. 8 |-> <<9, 9, i % n>>], 1 .. 8) : n \in 1 .. 8}
Nulls == {Long("n", <<<<>>, <<>>>>, {})}

\* Trees: each leaf has an array of its own.
N(format, null, children) == Node(format, format, null, children)
Num == N("i", FALSE, <<>>)
Str == N("u", TRUE, <<>>)
Struct(null, children) == N("+s", null, children)
List(null, item) == N("+l", null, <<item>>)
Map(null, key, value) == N("+m", null, <<N("+s", FALSE, <<key, value>>)>>)
Simple == {Num, Str, N("n", FALSE, <<>>), N("tdD", FALSE, <<>>), [N("w", FALSE, <<>>) EXCEPT !.width = 0]}
Level1 ==
    Simple
      \cup {Struct(o, <<x, y>>) : o \in BOOLEAN, x \in {Num, Str}, y \in Simple}
      \cup {List(o, x) : o \in BOOLEAN, x \in Simple}
      \cup {Map(o, x, y) : o \in BOOLEAN, x \in {Num, N("n", FALSE, <<>>)}, y \in {Str, Num}}
      \cup {Struct(FALSE, <<>>), N("+l", TRUE, <<>>), N("+L", TRUE, <<Str>>), N("+m", TRUE, <<>>),
            N("+m", FALSE, <<Num>>), N("+m", FALSE, <<Struct(FALSE, <<Num>>)>>)}
Level2 ==
    Level1
      \cup {Struct(TRUE, <<x, Num, y>>) : x \in Level1, y \in {Str, List(TRUE, Num)}}
      \cup {List(o, x) : o \in BOOLEAN, x \in Level1 \ Simple}
      \cup {Map(TRUE, x, y) : x \in {Str, Struct(FALSE, <<Num, Str>>)}, y \in Level1 \ Simple}

OwnArray(leaf, i) ==
    IF leaf.format = "n" THEN Array1(<<<<>>>>, {})
    ELSE IF leaf.format = "i" THEN Array1(<<<<i, 0, 0, 0>>>>, {1}) ELSE Array1(<<<<i, i>>>>, {1})
WithArrays(columns) ==
    LET all == ArrowLeaves(columns)
    IN [schema |-> columns,
        arrays |-> [at \in {l.at : l \in ToSet(all)} |->
                      LET i == CHOOSE i \in DOMAIN all : all[i].at = at IN OwnArray(all[i].node, i)]]
TreeBatches ==
    {WithArrays(<<x>>) : x \in Level2}
      \cup {WithArrays(<<x, y>>) : x \in {Struct(TRUE, <<Num, Str>>), List(TRUE, Str), Struct(FALSE, <<>>)},
                                   y \in Level1}

MCBatches == FlatBatches \cup LongBatches \cup Nulls \cup TreeBatches
================================================================================
